----------------------------- MODULE HiringProofs -----------------------------
(***************************************************************************)
(* Theorems about Hiring, for any number of inquiries, jobs, applications, *)
(* people, requests and desks.                                             *)
(***************************************************************************)
EXTENDS Hiring, FiniteSetTheorems, TLAPS

(* What a request in progress relies on, and what its locks keep for it.   *)

\* The inquiry a request has locked, itself or through a job, or Null.
HeldInquiry(d) ==
  IF desk[d].at \in {"create", "draft"} THEN desk[d].inquiry
  ELSE IF desk[d].at = "decide" THEN job[application[desk[d].application].job].inquiry
  ELSE Null

Promise(d) ==
  /\ desk[d].at \in {"create", "draft"} => inquiry[desk[d].inquiry] # Null
  /\ desk[d].at = "create" => JobsOf(desk[d].inquiry) = {}
  /\ desk[d].at = "draft" /\ desk[d].found = Null => JobsOf(desk[d].inquiry) = {}
  /\ desk[d].at = "draft" /\ desk[d].found # Null =>
       job[desk[d].found] # Null /\ job[desk[d].found].inquiry = desk[d].inquiry
  /\ desk[d].at = "decide" =>
       /\ OfJob(desk[d].application)
       /\ job[application[desk[d].application].job].inquiry # Null
       /\ Room(desk[d].application, desk[d].decision)
  /\ desk[d].at = "mail" => invitation[desk[d].application] # Null

\* No two requests have the same inquiry locked, and so no two the same job.
Exclusive ==
  \A d, e \in Desks : d # e /\ HeldInquiry(d) # Null => HeldInquiry(d) # HeldInquiry(e)

\* The inquiry a job names is there.
Named == \A j \in Jobs : job[j] # Null /\ job[j].inquiry # Null => inquiry[job[j].inquiry] # Null

HInv == HiringTypeOK /\ Named /\ Exclusive /\ \A d \in Desks : Promise(d)

\* No step takes a row away or changes what it belongs to.
RowsKept ==
  /\ \A i \in Inquiries : inquiry[i] # Null => inquiry'[i] # Null
  /\ \A j \in Jobs : job[j] # Null => job'[j] # Null /\ job'[j].inquiry = job[j].inquiry
  /\ \A a \in Applications : application[a] # Null =>
       /\ application'[a] # Null
       /\ application'[a].job = application[a].job /\ application'[a].person = application[a].person
  /\ \A a \in Applications : invitation[a] # Null => invitation'[a] # Null

\* A step of another request leaves e what it relies on.
Undisturbed(e) ==
  /\ desk'[e] = desk[e]
  /\ \A i \in Inquiries : HeldInquiry(e) = i => JobsOf(i)' \subseteq JobsOf(i)
  /\ desk[e].at = "decide" =>
       /\ application'[desk[e].application] = application[desk[e].application]
       /\ \A j \in Jobs : application[desk[e].application].job = j =>
            /\ JobExists(j)' /\ job'[j].positions = job[j].positions
            /\ Hired(j)' \subseteq Hired(j)

\* What a step of d has to show.
Secure(d) ==
  /\ HiringTypeOK' /\ Named' /\ RowsKept
  /\ \A e \in Desks \ {d} : Undisturbed(e)
  /\ Promise(d)'
  /\ HeldInquiry(d)' # Null => \A e \in Desks \ {d} : HeldInquiry(e) # HeldInquiry(d)'

-----------------------------------------------------------------------------
(* Lemmas about the helpers. *)

\* What each kind of request in progress holds.
LEMMA WorkTypes ==
  ASSUME NEW w \in Work
  PROVE  /\ w.at \in {"free", "create", "draft", "apply", "decide", "invite", "save", "mail"}
         /\ w.at \in {"create", "draft"} => w.inquiry \in Inquiries
         /\ w.at = "draft" => w.found \in Jobs \cup {Null}
         /\ w.at = "apply" => w.job \in Jobs /\ w.person \in People
         /\ w.at \in {"decide", "invite", "save", "mail"} => w.application \in Applications
         /\ w.at = "decide" => w.decision \in CandidateStatuses /\ w.hired \subseteq Applications
         /\ w.at = "invite" => w.force \in BOOLEAN
         /\ w.at = "save" => w.seen \in Invitation \cup {Null}
BY DEF Work, Free

\* Rows that are there are records.
LEMMA RowTypes ==
  ASSUME HiringTypeOK
  PROVE  /\ \A i \in Inquiries : inquiry[i] # Null => inquiry[i] \in Inquiry
         /\ \A j \in Jobs : job[j] # Null =>
              job[j] \in Job /\ job[j].inquiry \in Inquiries \cup {Null} /\ job[j].positions \in Nat
         /\ \A a \in Applications : application[a] # Null =>
              application[a] \in Application /\ application[a].job \in Jobs \cup {Null}
         /\ \A a \in Applications : invitation[a] # Null => invitation[a] \in Invitation
BY HiringAssumption DEF HiringTypeOK, Job, Application

\* A request's turn changes its own place only.
LEMMA TurnTypes ==
  ASSUME HiringTypeOK, NEW d \in Desks, NEW w \in Work, Turn(d, w)
  PROVE  /\ desk' \in [Desks -> Work] /\ desk'[d] = w
         /\ \A e \in Desks \ {d} : desk'[e] = desk[e]
BY DEF HiringTypeOK, Turn

\* A free place holds nothing and promises nothing.
LEMMA FreeHolds ==
  ASSUME NEW d, desk[d] = Free
  PROVE  desk[d].at = "free" /\ HeldInquiry(d) = Null /\ Promise(d)
BY DEF Free, HeldInquiry, Promise

LEMMA FreeHoldsNext ==
  ASSUME NEW d, desk'[d] = Free
  PROVE  HeldInquiry(d)' = Null /\ Promise(d)'
BY DEF Free, HeldInquiry, Promise

\* An inquiry that is not locked is held by nobody, and a job that is not
\* locked is decided on by nobody.
LEMMA NotLocked ==
  ASSUME HInv, NEW e \in Desks
  PROVE  /\ \A i \in Inquiries : ~InquiryLocked(i) => HeldInquiry(e) # i
         /\ \A j : ~JobLocked(j) /\ desk[e].at = "decide" =>
              application[desk[e].application].job # j
         /\ \A a : ~ApplicationLocked(a) /\ desk[e].at = "decide" => desk[e].application # a
BY HiringAssumption DEF HInv, InquiryLocked, HeldInquiry, JobLocked, ApplicationLocked

\* A call finds a free place and takes one call.
LEMMA CallTypes ==
  ASSUME HiringTypeOK, NEW d \in Desks, Call(d)
  PROVE  desk[d] = Free /\ calls' \in 0 .. MaxCalls /\ tokens' = tokens
BY HiringAssumption DEF HiringTypeOK, Call

\* What an undisturbed request relied on, it may rely on again.
LEMMA StillPromised ==
  ASSUME HInv, HiringTypeOK', RowsKept, NEW e \in Desks, Undisturbed(e)
  PROVE  Promise(e)' /\ HeldInquiry(e)' = HeldInquiry(e)
<1> USE DEF HInv
<1>1. Promise(e) /\ desk'[e] = desk[e] /\ desk[e] \in Work
  BY DEF Undisturbed, HiringTypeOK
<1>2. CASE desk[e].at = "decide"
  <2> PICK a \in Applications : a = desk[e].application
    BY <1>1, <1>2, WorkTypes
  <2>1. /\ application[a] # Null /\ application[a].job \in Jobs
        /\ JobExists(application[a].job) /\ job[application[a].job].inquiry # Null
        /\ Room(a, desk[e].decision)
    BY <1>1, <1>2 DEF Promise, OfJob, JobExists
  <2> PICK j \in Jobs : j = application[a].job
    BY <2>1
  <2>2. /\ application'[a] = application[a] /\ JobExists(j)'
        /\ job'[j].positions = job[j].positions /\ Hired(j)' \subseteq Hired(j)
    BY <1>2 DEF Undisturbed
  <2>3. job'[j].inquiry = job[j].inquiry
    BY <2>1 DEF RowsKept, JobExists
  <2>4. Room(a, desk[e].decision)'
    <3>1. IsFiniteSet(Hired(j)) /\ Cardinality(Hired(j)') <= Cardinality(Hired(j))
      <4>1. Hired(j) \in SUBSET Applications
        BY DEF Hired
      <4>2. IsFiniteSet(Hired(j))
        BY <4>1, FS_Subset, HiringAssumption
      <4> QED
        BY <2>2, <4>2, FS_Subset
    <3>2. Cardinality(Hired(j)) \in Nat /\ Cardinality(Hired(j)') \in Nat
      BY <2>2, <3>1, FS_Subset, FS_CardinalityType
    <3>3. job[j].positions \in Nat
      BY <2>1, RowTypes DEF JobExists
    <3>4. NewHire(a, desk[e].decision)' <=> NewHire(a, desk[e].decision)
      BY <1>1, <2>2 DEF NewHire
    <3>5. NewHire(a, desk[e].decision)' => Cardinality(Hired(j)) < job[j].positions
      BY <2>1, <3>4 DEF Room
    <3>6. NewHire(a, desk[e].decision)' => Cardinality(Hired(j)') < job'[j].positions
      BY <2>2, <3>1, <3>2, <3>3, <3>5
    <3> QED
      BY <1>1, <2>2, <3>6 DEF Room
  <2>5. Promise(e)'
    BY <1>1, <1>2, <2>1, <2>2, <2>3, <2>4 DEF Promise, OfJob
  <2> QED
    BY <1>1, <1>2, <2>2, <2>3, <2>5 DEF HeldInquiry
<1>3. CASE desk[e].at \in {"create", "draft"}
  <2> PICK i \in Inquiries : i = desk[e].inquiry
    BY <1>1, <1>3, WorkTypes
  <2>1. HeldInquiry(e) = i /\ HeldInquiry(e)' = i
    BY <1>1, <1>3 DEF HeldInquiry
  <2>2. JobsOf(i)' \subseteq JobsOf(i) /\ inquiry'[i] # Null
    BY <1>1, <1>3, <2>1 DEF Undisturbed, Promise, RowsKept
  <2>3. desk[e].at = "draft" => desk[e].found \in Jobs \cup {Null}
    BY <1>1, WorkTypes
  <2>4. Promise(e)'
    BY <1>1, <1>3, <2>2, <2>3 DEF Promise, RowsKept
  <2> QED
    BY <2>1, <2>4
<1>4. CASE desk[e].at \notin {"create", "draft", "decide"}
  <2>1. desk[e].at = "mail" => desk[e].application \in Applications
    BY <1>1, WorkTypes
  <2> QED
    BY <1>1, <1>4, <2>1 DEF Promise, HeldInquiry, RowsKept
<1> QED
  BY <1>2, <1>3, <1>4

\* A secure step keeps the invariant.
LEMMA SecureKeeps ==
  ASSUME HInv, NEW d \in Desks, Secure(d)
  PROVE  HInv'
<1>1. \A e \in Desks \ {d} : Promise(e)' /\ HeldInquiry(e)' = HeldInquiry(e)
  BY StillPromised DEF Secure
<1>2. Exclusive'
  BY <1>1 DEF Exclusive, Secure, HInv
<1> QED
  BY <1>1, <1>2 DEF HInv, Secure

-----------------------------------------------------------------------------
(* Steps that take a call and are done. *)

\* What a step that leaves everybody's place, the jobs and the applications
\* alone has to show.
LEMMA InquirySecure ==
  ASSUME HInv, NEW d \in Desks, desk[d] = Free, desk' = desk,
         UNCHANGED <<job, application, invitation>>, HiringTypeOK',
         \A i \in Inquiries : inquiry[i] # Null => inquiry'[i] # Null
  PROVE  Secure(d)
<1>1. RowsKept /\ Named'
  BY RowTypes DEF RowsKept, Named, HInv
<1>2. \A e \in Desks : Undisturbed(e)
  <2> SUFFICES ASSUME NEW e \in Desks PROVE Undisturbed(e)
    OBVIOUS
  <2>1. \A j \in Jobs : JobExists(j)' = JobExists(j) /\ Hired(j)' = Hired(j)
    BY DEF JobExists, Hired
  <2>2. \A i \in Inquiries : JobsOf(i)' = JobsOf(i)
    BY DEF JobsOf, JobExists
  <2>3. ASSUME desk[e].at = "decide", NEW j \in Jobs, application[desk[e].application].job = j
        PROVE  JobExists(j)'
    BY <2>1, <2>3 DEF HInv, Promise, OfJob
  <2> QED
    BY <2>1, <2>2, <2>3 DEF Undisturbed
<1>3. Promise(d)' /\ HeldInquiry(d)' = Null
  BY FreeHoldsNext
<1> QED
  BY <1>1, <1>2, <1>3 DEF Secure

\* Companies' inquiries.
LEMMA AskSecure ==
  ASSUME HInv, NEW d \in Desks, NEW i \in Inquiries,
         \/ \E n \in Headcounts : CreateHiringInquiry(d, i, n)
         \/ \E status \in {"other", "approved"} : UpdateHiringInquiry(d, i, status)
  PROVE  Secure(d)
<1> USE DEF HInv
<1>1. ASSUME NEW n \in Headcounts, CreateHiringInquiry(d, i, n) PROVE Secure(d)
  <2>1. [status |-> "other", headcount |-> n] \in Inquiry
    BY DEF Inquiry, InquiryStatuses
  <2>2. desk[d] = Free /\ calls' \in 0 .. MaxCalls /\ tokens' = tokens
    BY <1>1, CallTypes DEF CreateHiringInquiry
  <2>3. HiringTypeOK'
    BY <1>1, <2>1, <2>2 DEF CreateHiringInquiry, HiringTypeOK, NoHistory
  <2>4. \A k \in Inquiries : inquiry[k] # Null => inquiry'[k] # Null
    BY <1>1, <2>1, NullAssumption DEF CreateHiringInquiry, HiringTypeOK
  <2> QED
    BY <1>1, <2>2, <2>3, <2>4, InquirySecure DEF CreateHiringInquiry
<1>2. ASSUME NEW status \in {"other", "approved"}, UpdateHiringInquiry(d, i, status)
      PROVE  Secure(d)
  <2>1. inquiry[i] \in Inquiry
    BY <1>2, RowTypes DEF UpdateHiringInquiry
  <2>2. [inquiry[i] EXCEPT !.status = status] \in Inquiry
    BY <2>1 DEF Inquiry, InquiryStatuses
  <2>3. desk[d] = Free /\ calls' \in 0 .. MaxCalls /\ tokens' = tokens
    BY <1>2, CallTypes DEF UpdateHiringInquiry
  <2>4. HiringTypeOK'
    BY <1>2, <2>2, <2>3 DEF UpdateHiringInquiry, HiringTypeOK, NoHistory
  <2>5. \A k \in Inquiries : inquiry[k] # Null => inquiry'[k] # Null
    BY <1>2, <2>2, NullAssumption DEF UpdateHiringInquiry, HiringTypeOK
  <2> QED
    BY <1>2, <2>3, <2>4, <2>5, InquirySecure DEF UpdateHiringInquiry
<1> QED
  BY <1>1, <1>2

\* What a job moves its inquiry to is an inquiry.
LEMMA MovedTypes ==
  ASSUME HInv, NEW i \in Inquiries \cup {Null}, NEW status \in InquiryStatuses,
         i # Null => inquiry[i] # Null
  PROVE  /\ Moved(i, status) \in [Inquiries -> Inquiry \cup {Null}]
         /\ \A k \in Inquiries : inquiry[k] # Null => Moved(i, status)[k] # Null
<1>1. CASE i = Null
  BY <1>1 DEF Moved, HInv, HiringTypeOK
<1>2. CASE i # Null
  <2>1. inquiry[i] \in Inquiry
    BY <1>2, RowTypes DEF HInv
  <2>2. [inquiry[i] EXCEPT !.status = IF @ = "resolved" THEN @ ELSE status] \in Inquiry
    BY <2>1 DEF Inquiry
  <2>3. Moved(i, status) =
          [inquiry EXCEPT ![i] = [inquiry[i] EXCEPT !.status = IF @ = "resolved" THEN @ ELSE status]]
    BY <1>2 DEF Moved
  <2> QED
    BY <1>2, <2>2, <2>3, NullAssumption DEF HInv, HiringTypeOK
<1> QED
  BY <1>1, <1>2

\* A step that writes one job nobody has locked, keeps the inquiry it is for,
\* and takes no lock.
LEMMA JobSecure ==
  ASSUME HInv, NEW d \in Desks, desk[d] = Free, desk' = desk, HiringTypeOK',
         NEW j \in Jobs, ~JobLocked(j), job'[j] # Null,
         \A k \in Jobs \ {j} : job'[k] = job[k],
         UNCHANGED <<application, invitation>>,
         \A i \in Inquiries : inquiry[i] # Null => inquiry'[i] # Null,
         job[j] # Null => job'[j].inquiry = job[j].inquiry,
         job[j] = Null => job'[j].inquiry = Null,
         ~JobExists(j) /\ job[j] # Null => ~JobExists(j)'
  PROVE  Secure(d)
<1> USE DEF HInv
<1>1. RowsKept
  BY DEF RowsKept
<1>2. Named'
  <2> SUFFICES ASSUME NEW k \in Jobs, job'[k] # Null, job'[k].inquiry # Null
               PROVE  inquiry'[job'[k].inquiry] # Null
    BY DEF Named
  <2>1. job[k] # Null /\ job[k].inquiry = job'[k].inquiry
    OBVIOUS
  <2>2. job[k].inquiry \in Inquiries
    BY <2>1, RowTypes
  <2> QED
    BY <2>1, <2>2 DEF Named
<1>3. \A k \in Jobs : Hired(k)' = Hired(k)
  BY DEF Hired
<1>4. \A k \in Jobs \ {j} : JobExists(k)' = JobExists(k)
  BY DEF JobExists
<1>5. \A i \in Inquiries : JobsOf(i)' \subseteq JobsOf(i)
  <2> SUFFICES ASSUME NEW i \in Inquiries, NEW k \in Jobs, JobExists(k)', job'[k].inquiry = i
               PROVE  JobExists(k) /\ job[k].inquiry = i
    BY DEF JobsOf
  <2>1. Null \notin Inquiries
    BY HiringAssumption
  <2> QED
    BY <1>4, <2>1 DEF JobExists
<1>6. \A e \in Desks : Undisturbed(e)
  <2> SUFFICES ASSUME NEW e \in Desks PROVE Undisturbed(e)
    OBVIOUS
  <2>1. ASSUME desk[e].at = "decide", NEW k \in Jobs, application[desk[e].application].job = k
        PROVE  JobExists(k)' /\ job'[k].positions = job[k].positions
    <3>1. k # j
      BY <2>1, NotLocked
    <3>2. JobExists(k)
      BY <2>1 DEF Promise, OfJob
    <3> QED
      BY <1>4, <3>1, <3>2
  <2> QED
    BY <1>3, <1>5, <2>1 DEF Undisturbed
<1>7. Promise(d)' /\ HeldInquiry(d)' = Null
  BY FreeHoldsNext
<1> QED
  BY <1>1, <1>2, <1>6, <1>7 DEF Secure

\* Own jobs, edits and deletions of jobs.
LEMMA JobFormSecure ==
  ASSUME HInv, NEW d \in Desks, NEW j \in Jobs,
         \/ \E n \in Headcounts, status \in JobStatuses :
              CreateOwnJob(d, j, n, status) \/ UpdateTalentJob(d, j, n, status)
         \/ DeleteTalentJob(d, j)
  PROVE  Secure(d)
<1> USE DEF HInv
<1>1. ASSUME NEW n \in Headcounts, NEW status \in JobStatuses, CreateOwnJob(d, j, n, status)
      PROVE  Secure(d)
  <2>1. [inquiry |-> Null, positions |-> n, status |-> status] \in Job
    BY DEF Job
  <2>2. desk[d] = Free /\ calls' \in 0 .. MaxCalls /\ tokens' = tokens
    BY <1>1, CallTypes DEF CreateOwnJob
  <2>3. HiringTypeOK'
    BY <1>1, <2>1, <2>2 DEF CreateOwnJob, HiringTypeOK, NoHistory
  <2>4. job[j] = Null /\ job'[j] = [inquiry |-> Null, positions |-> n, status |-> status]
    BY <1>1 DEF CreateOwnJob, HiringTypeOK, NextRow
  <2>5. job'[j] # Null /\ job'[j].inquiry = Null
    BY <2>1, <2>4, NullAssumption
  <2>6. \A k \in Jobs \ {j} : job'[k] = job[k]
    BY <1>1 DEF CreateOwnJob, HiringTypeOK
  <2>7. ~JobLocked(j)
    BY <2>4, WorkTypes DEF JobLocked, Promise, OfJob, JobExists, HiringTypeOK
  <2>8. UNCHANGED <<inquiry, application, invitation, desk>>
    BY <1>1 DEF CreateOwnJob
  <2> QED
    BY <2>2, <2>3, <2>4, <2>5, <2>6, <2>7, <2>8, JobSecure
<1>2. ASSUME NEW n \in Headcounts, NEW status \in JobStatuses, UpdateTalentJob(d, j, n, status)
      PROVE  Secure(d)
  <2>1. desk[d] = Free /\ calls' \in 0 .. MaxCalls /\ tokens' = tokens
    BY <1>2, CallTypes DEF UpdateTalentJob
  <2>2. job[j] \in Job /\ job[j] # Null /\ JobExists(j) /\ job[j].inquiry \in Inquiries \cup {Null}
    BY <1>2, RowTypes DEF UpdateTalentJob, JobExists
  <2>3. job'[j] = [job[j] EXCEPT !.positions = n, !.status = status]
    BY <1>2 DEF UpdateTalentJob, HiringTypeOK
  <2>4. job'[j] \in Job /\ job'[j].inquiry = job[j].inquiry
    BY <2>2, <2>3 DEF Job
  <2>5. \A k \in Jobs \ {j} : job'[k] = job[k]
    BY <1>2 DEF UpdateTalentJob, HiringTypeOK
  <2>6. job' \in [Jobs -> Job \cup {Null}]
    BY <1>2, <2>4 DEF UpdateTalentJob, HiringTypeOK
  <2>7. /\ inquiry' \in [Inquiries -> Inquiry \cup {Null}]
        /\ \A k \in Inquiries : inquiry[k] # Null => inquiry'[k] # Null
    <3>1. CASE status = "closed"
      BY <1>2, <3>1 DEF UpdateTalentJob, HiringTypeOK
    <3>2. CASE status # "closed"
      <4>1. job[j].inquiry # Null => inquiry[job[j].inquiry] # Null
        BY <2>2 DEF Named
      <4>2. inquiry' = Moved(job[j].inquiry, IF status = "open" THEN "posted" ELSE "drafted")
        BY <1>2, <3>2 DEF UpdateTalentJob
      <4> QED
        BY <2>2, <4>1, <4>2, MovedTypes DEF InquiryStatuses
    <3> QED
      BY <3>1, <3>2
  <2>8. HiringTypeOK'
    BY <1>2, <2>1, <2>6, <2>7 DEF UpdateTalentJob, HiringTypeOK, NoHistory
  <2>9. job'[j] # Null
    BY <2>4, NullAssumption
  <2> QED
    BY <1>2, <2>1, <2>2, <2>4, <2>5, <2>7, <2>8, <2>9, JobSecure DEF UpdateTalentJob
<1>3. CASE DeleteTalentJob(d, j)
  <2>1. desk[d] = Free /\ calls' \in 0 .. MaxCalls /\ tokens' = tokens
    BY <1>3, CallTypes DEF DeleteTalentJob
  <2>2. job[j] \in Job /\ job[j] # Null /\ JobExists(j)
    BY <1>3, RowTypes DEF DeleteTalentJob, JobExists
  <2>3. job'[j] = [job[j] EXCEPT !.status = "deleted"]
    BY <1>3 DEF DeleteTalentJob, HiringTypeOK
  <2>4. job'[j] \in Job /\ job'[j].inquiry = job[j].inquiry
    BY <2>2, <2>3 DEF Job
  <2>5. \A k \in Jobs \ {j} : job'[k] = job[k]
    BY <1>3 DEF DeleteTalentJob, HiringTypeOK
  <2>6. HiringTypeOK'
    BY <1>3, <2>1, <2>4 DEF DeleteTalentJob, HiringTypeOK, NoHistory
  <2>7. job'[j] # Null
    BY <2>4, NullAssumption
  <2> QED
    BY <1>3, <2>1, <2>2, <2>4, <2>5, <2>6, <2>7, JobSecure DEF DeleteTalentJob
<1> QED
  BY <1>1, <1>2, <1>3

-----------------------------------------------------------------------------
(* Applications and reviews. *)

\* A step that leaves the jobs alone, writes one application nobody decides
\* on, or a new one, and makes nobody hired.
LEMMA ApplicationSecure ==
  ASSUME HInv, NEW d \in Desks, HiringTypeOK', UNCHANGED job,
         \A i \in Inquiries : inquiry[i] # Null => inquiry'[i] # Null,
         \A b \in Applications : invitation[b] # Null => invitation'[b] # Null,
         NEW a \in Applications,
         \A b \in Applications \ {a} : application'[b] = application[b],
         \A e \in Desks \ {d} :
           desk'[e] = desk[e] /\ (desk[e].at = "decide" => desk[e].application # a),
         application[a] # Null =>
           /\ application'[a] # Null /\ application'[a].job = application[a].job
           /\ application'[a].person = application[a].person,
         application'[a] # Null => application'[a].status # "hired",
         Promise(d)', HeldInquiry(d)' = Null
  PROVE  Secure(d)
<1> USE DEF HInv
<1>1. RowsKept
  BY DEF RowsKept
<1>2. Named'
  BY RowTypes DEF Named
<1>3. \A j \in Jobs : JobExists(j)' = JobExists(j) /\ Hired(j)' \subseteq Hired(j)
  BY DEF JobExists, Hired
<1>4. \A i \in Inquiries : JobsOf(i)' = JobsOf(i)
  BY DEF JobsOf, JobExists
<1>5. \A e \in Desks \ {d} : Undisturbed(e)
  <2> SUFFICES ASSUME NEW e \in Desks \ {d} PROVE Undisturbed(e)
    OBVIOUS
  <2>1. ASSUME desk[e].at = "decide"
        PROVE  /\ application'[desk[e].application] = application[desk[e].application]
               /\ \A j \in Jobs : application[desk[e].application].job = j => JobExists(j)'
    <3>1. desk[e].application \in Applications
      BY <2>1, WorkTypes DEF HiringTypeOK
    <3> QED
      BY <2>1, <3>1, <1>3 DEF Promise, OfJob
  <2> QED
    BY <1>3, <1>4, <2>1 DEF Undisturbed
<1> QED
  BY <1>1, <1>2, <1>5 DEF Secure

\* Nobody decides on an application that is not there, or on one of the programme.
LEMMA NotDecided ==
  ASSUME HInv, NEW a \in Applications, application[a] = Null \/ application[a].job = Null,
         NEW e \in Desks, desk[e].at = "decide"
  PROVE  desk[e].application # a
BY HiringAssumption DEF HInv, Promise, OfJob, JobExists

\* Applications to the programme, and changes of a candidate's or a lead's status.
LEMMA CandidateSecure ==
  ASSUME HInv, NEW d \in Desks, NEW a \in Applications,
         \/ \E p \in People : CreateTalentPlusApplication(d, a, p)
         \/ \E status \in {"new", "proposed"} : updateJobApplicationStatus(d, a, status)
         \/ MoveLead(d, a)
  PROVE  Secure(d)
<1> USE DEF HInv
<1>1. desk[d] = Free /\ calls' \in 0 .. MaxCalls /\ tokens' = tokens
  BY CallTypes DEF CreateTalentPlusApplication, updateJobApplicationStatus, MoveLead
<1>2. UNCHANGED <<job, invitation, reviews, desk, doubled, reopened>>
  BY DEF CreateTalentPlusApplication, updateJobApplicationStatus, MoveLead, NoHistory
<1>3. Promise(d)' /\ HeldInquiry(d)' = Null
  BY <1>1, <1>2, FreeHoldsNext
<1>4. ASSUME NEW p \in People, CreateTalentPlusApplication(d, a, p) PROVE Secure(d)
  <2>1. [job |-> Null, person |-> p, status |-> "new"] \in Application
    BY DEF Application, CandidateStatuses
  <2>2. /\ application[a] = Null
        /\ application'[a] = [job |-> Null, person |-> p, status |-> "new"]
        /\ \A b \in Applications \ {a} : application'[b] = application[b]
    BY <1>4 DEF CreateTalentPlusApplication, HiringTypeOK, NextRow
  <2>3. HiringTypeOK'
    BY <1>1, <1>2, <1>4, <2>1 DEF CreateTalentPlusApplication, HiringTypeOK
  <2>4. inquiry' = inquiry
    BY <1>4 DEF CreateTalentPlusApplication
  <2>5. \A e \in Desks : desk[e].at = "decide" => desk[e].application # a
    BY <2>2, NotDecided
  <2> QED
    BY <1>2, <1>3, <2>2, <2>3, <2>4, <2>5, ApplicationSecure
<1>5. ASSUME NEW status \in {"new", "proposed"}, application[a] # Null,
             application' = [application EXCEPT ![a].status = status],
             inquiry' \in [Inquiries -> Inquiry \cup {Null}],
             \A i \in Inquiries : inquiry[i] # Null => inquiry'[i] # Null,
             \A e \in Desks : desk[e].at = "decide" => desk[e].application # a
      PROVE  Secure(d)
  <2>1. application[a] \in Application
    BY <1>5, RowTypes
  <2>2. application'[a] = [application[a] EXCEPT !.status = status]
    BY <1>5 DEF HiringTypeOK
  <2>3. /\ application'[a] \in Application /\ application'[a].job = application[a].job
        /\ application'[a].person = application[a].person /\ application'[a].status = status
    BY <2>1, <2>2 DEF Application, CandidateStatuses
  <2>4. HiringTypeOK'
    BY <1>1, <1>2, <1>5, <2>3 DEF HiringTypeOK
  <2>5. \A b \in Applications \ {a} : application'[b] = application[b]
    BY <1>5 DEF HiringTypeOK
  <2>6. application'[a] # Null
    BY <2>3, NullAssumption
  <2> QED
    BY <1>2, <1>3, <1>5, <2>3, <2>4, <2>5, <2>6, ApplicationSecure
<1>6. ASSUME NEW status \in {"new", "proposed"}, updateJobApplicationStatus(d, a, status)
      PROVE  Secure(d)
  <2>1. application[a] # Null /\ JobExists(application[a].job) /\ ~JobLocked(application[a].job)
    BY <1>6 DEF updateJobApplicationStatus, OfJob
  <2>2. \A e \in Desks : desk[e].at = "decide" => desk[e].application # a
    BY <2>1, NotLocked
  <2>3. /\ job[application[a].job].inquiry \in Inquiries \cup {Null}
        /\ job[application[a].job].inquiry # Null =>
             inquiry[job[application[a].job].inquiry] # Null
    BY <2>1, RowTypes DEF JobExists, Named
  <2>4. /\ inquiry' \in [Inquiries -> Inquiry \cup {Null}]
        /\ \A i \in Inquiries : inquiry[i] # Null => inquiry'[i] # Null
    <3>1. CASE status = "proposed"
      BY <1>6, <2>3, <3>1, MovedTypes DEF updateJobApplicationStatus, InquiryStatuses
    <3>2. CASE status # "proposed"
      BY <1>6, <3>2 DEF updateJobApplicationStatus, HiringTypeOK
    <3> QED
      BY <3>1, <3>2
  <2>5. application' = [application EXCEPT ![a].status = status]
    BY <1>6 DEF updateJobApplicationStatus
  <2> QED
    BY <1>5, <2>1, <2>2, <2>4, <2>5
<1>7. CASE MoveLead(d, a)
  <2>1. /\ application[a] # Null /\ ~ApplicationLocked(a) /\ inquiry' = inquiry
        /\ application' = [application EXCEPT ![a].status = "new"]
    BY <1>7 DEF MoveLead
  <2>2. \A e \in Desks : desk[e].at = "decide" => desk[e].application # a
    BY <2>1, NotLocked
  <2>3. inquiry' \in [Inquiries -> Inquiry \cup {Null}]
    BY <2>1 DEF HiringTypeOK
  <2> QED
    BY <1>5, <2>1, <2>2, <2>3
<1> QED
  BY <1>4, <1>6, <1>7

\* A placement, and the invitation that follows it.
LEMMA PlaceSecure ==
  ASSUME HInv, NEW d \in Desks, NEW a \in Applications, PlaceTalent(d, a)
  PROVE  Secure(d)
<1> USE DEF HInv
<1>1. desk[d] = Free /\ calls' \in 0 .. MaxCalls /\ tokens' = tokens
  BY CallTypes DEF PlaceTalent
<1>2. UNCHANGED <<inquiry, job, invitation, reviews, doubled, reopened>>
  BY DEF PlaceTalent, NoHistory
<1> DEFINE w == [at |-> "invite", application |-> a, force |-> FALSE]
<1>3. w \in Work
  BY DEF Work
<1>4. /\ desk' \in [Desks -> Work] /\ desk'[d] = w
      /\ \A e \in Desks \ {d} : desk'[e] = desk[e]
  BY <1>3, TurnTypes DEF PlaceTalent
<1>5. Promise(d)' /\ HeldInquiry(d)' = Null
  BY <1>4 DEF Promise, HeldInquiry
<1>6. application[a] \in Application /\ application[a] # Null /\ application[a].job = Null
  BY RowTypes DEF PlaceTalent, IsPlus
<1>7. application'[a] = [application[a] EXCEPT !.status = "placed"]
  BY DEF PlaceTalent, HiringTypeOK
<1>8. /\ application'[a] \in Application /\ application'[a].job = application[a].job
      /\ application'[a].person = application[a].person /\ application'[a].status = "placed"
  BY <1>6, <1>7 DEF Application
<1>9. \A b \in Applications \ {a} : application'[b] = application[b]
  BY DEF PlaceTalent, HiringTypeOK
<1>10. HiringTypeOK'
  BY <1>1, <1>2, <1>4, <1>8 DEF PlaceTalent, HiringTypeOK
<1>11. \A e \in Desks : desk[e].at = "decide" => desk[e].application # a
  BY <1>6, NotDecided
<1>12. application'[a] # Null
  BY <1>8, NullAssumption
<1> QED
  BY <1>2, <1>4, <1>5, <1>8, <1>9, <1>10, <1>11, <1>12, ApplicationSecure

\* What a step that writes neither inquiries, jobs nor applications has to show.
LEMMA DeskSecure ==
  ASSUME HInv, NEW d \in Desks, HiringTypeOK', UNCHANGED <<inquiry, job, application>>,
         \A b \in Applications : invitation[b] # Null => invitation'[b] # Null,
         \A e \in Desks \ {d} : desk'[e] = desk[e],
         Promise(d)',
         HeldInquiry(d)' # Null => \A e \in Desks \ {d} : HeldInquiry(e) # HeldInquiry(d)'
  PROVE  Secure(d)
<1> USE DEF HInv
<1>1. RowsKept /\ Named'
  BY DEF RowsKept, Named
<1>2. \A j \in Jobs : JobExists(j)' = JobExists(j) /\ Hired(j)' = Hired(j)
  BY DEF JobExists, Hired
<1>3. \A i \in Inquiries : JobsOf(i)' = JobsOf(i)
  BY DEF JobsOf, JobExists
<1>4. \A e \in Desks \ {d} : Undisturbed(e)
  <2> SUFFICES ASSUME NEW e \in Desks \ {d} PROVE Undisturbed(e)
    OBVIOUS
  <2>1. ASSUME desk[e].at = "decide", NEW j \in Jobs, application[desk[e].application].job = j
        PROVE  JobExists(j)'
    BY <1>2, <2>1 DEF Promise, OfJob
  <2> QED
    BY <1>2, <1>3, <2>1 DEF Undisturbed
<1> QED
  BY <1>1, <1>4 DEF Secure

\* A submitted review marks its invitation.
LEMMA ReviewSecure ==
  ASSUME HInv, NEW d \in Desks, NEW a \in Applications,
         NEW token \in 1 .. MaxInvitations, SubmitTalentReview(d, a, token)
  PROVE  Secure(d)
<1> USE DEF HInv
<1>1. desk[d] = Free /\ calls' \in 0 .. MaxCalls /\ tokens' = tokens
  BY CallTypes DEF SubmitTalentReview
<1>2. UNCHANGED <<inquiry, job, application, desk, doubled, reopened>>
  BY DEF SubmitTalentReview, NoHistory
<1>3. invitation[a] \in Invitation
  BY RowTypes DEF SubmitTalentReview
<1>4. [invitation[a] EXCEPT !.used = TRUE] \in Invitation
  BY <1>3 DEF Invitation
<1>5. invitation' = [invitation EXCEPT ![a].used = TRUE] /\ reviews' = [reviews EXCEPT ![a] = @ + 1]
  BY DEF SubmitTalentReview
<1>6. HiringTypeOK'
  BY <1>1, <1>2, <1>4, <1>5 DEF HiringTypeOK
<1>7. \A b \in Applications : invitation[b] # Null => invitation'[b] # Null
  BY <1>4, <1>5, NullAssumption DEF HiringTypeOK
<1>8. Promise(d)' /\ HeldInquiry(d)' = Null
  BY <1>1, <1>2, FreeHoldsNext
<1> QED
  BY <1>2, <1>6, <1>7, <1>8, DeskSecure

-----------------------------------------------------------------------------
(* The first step of a transaction or a handler in two steps. *)

\* A request that takes its place and writes no row.
LEMMA StartSecure ==
  ASSUME HInv, NEW d \in Desks, NEW w \in Work, Call(d), Turn(d, w), UNCHANGED hiringTables,
         doubled' \subseteq People \X Jobs, reopened' = reopened,
         Promise(d)',
         HeldInquiry(d)' # Null => \A e \in Desks \ {d} : HeldInquiry(e) # HeldInquiry(d)'
  PROVE  Secure(d)
<1> USE DEF HInv, hiringTables
<1>1. calls' \in 0 .. MaxCalls /\ tokens' = tokens
  BY CallTypes
<1>2. desk' \in [Desks -> Work] /\ \A e \in Desks \ {d} : desk'[e] = desk[e]
  BY TurnTypes
<1>3. HiringTypeOK'
  BY <1>1, <1>2 DEF HiringTypeOK
<1> QED
  BY <1>2, <1>3, DeskSecure

\* A new place promises what its row and its lock are read to be.
LEMMA StartsSecure ==
  ASSUME HInv, NEW d \in Desks,
         \/ \E i \in Inquiries : DraftInquiry(d, i) \/ CheckInquiry(d, i)
         \/ \E j \in Jobs, p \in People : CheckApplication(d, j, p)
         \/ \E a \in Applications : ForceInvitation(d, a)
         \/ \E a \in Applications, decision \in {"interview", "declined", "hired"} :
              Decide(d, a, decision)
  PROVE  Secure(d)
<1> USE DEF HInv, hiringTables
<1>0. ASSUME NEW w \in Work, Turn(d, w) PROVE desk'[d] = w
  BY <1>0, TurnTypes
<1>1. ASSUME NEW i \in Inquiries, DraftInquiry(d, i) PROVE Secure(d)
  <2>1. PICK found \in JobsOf(i) \union {Null} :
          /\ found = Null => JobsOf(i) = {}
          /\ Turn(d, [at |-> "draft", inquiry |-> i, found |-> found])
    BY <1>1 DEF DraftInquiry
  <2> DEFINE w == [at |-> "draft", inquiry |-> i, found |-> found]
  <2>2. w \in Work /\ found \in Jobs \cup {Null}
    BY DEF Work, JobsOf
  <2>3. desk'[d] = w
    BY <1>0, <2>1, <2>2
  <2>4. JobsOf(i)' = JobsOf(i) /\ inquiry'[i] # Null
    BY <1>1 DEF DraftInquiry, JobsOf, JobExists
  <2>5. found # Null => job'[found] # Null /\ job'[found].inquiry = i
    BY <1>1 DEF DraftInquiry, JobsOf, JobExists
  <2>6. Promise(d)' /\ HeldInquiry(d)' = i
    BY <2>1, <2>3, <2>4, <2>5 DEF Promise, HeldInquiry
  <2>7. \A e \in Desks : HeldInquiry(e) # i
    BY <1>1, NotLocked DEF DraftInquiry
  <2> QED
    BY <1>1, <2>1, <2>2, <2>6, <2>7, StartSecure DEF DraftInquiry, NoHistory, HiringTypeOK
<1>2. ASSUME NEW i \in Inquiries, CheckInquiry(d, i) PROVE Secure(d)
  <2> DEFINE w == [at |-> "create", inquiry |-> i]
  <2>1. w \in Work
    BY DEF Work
  <2>2. desk'[d] = w
    BY <1>0, <1>2, <2>1 DEF CheckInquiry
  <2>3. JobsOf(i)' = {} /\ inquiry'[i] # Null
    BY <1>2 DEF CheckInquiry, JobsOf, JobExists
  <2>4. Promise(d)' /\ HeldInquiry(d)' = i
    BY <2>2, <2>3 DEF Promise, HeldInquiry
  <2>5. \A e \in Desks : HeldInquiry(e) # i
    BY <1>2, NotLocked DEF CheckInquiry
  <2> QED
    BY <1>2, <2>1, <2>4, <2>5, StartSecure DEF CheckInquiry, NoHistory, HiringTypeOK
<1>3. ASSUME NEW j \in Jobs, NEW p \in People, CheckApplication(d, j, p) PROVE Secure(d)
  <2> DEFINE w == [at |-> "apply", job |-> j, person |-> p]
  <2>1. w \in Work
    BY DEF Work
  <2>2. desk'[d] = w
    BY <1>0, <1>3, <2>1 DEF CheckApplication
  <2>3. Promise(d)' /\ HeldInquiry(d)' = Null
    BY <2>2 DEF Promise, HeldInquiry
  <2>4. doubled' \subseteq People \X Jobs
    BY <1>3 DEF CheckApplication, HiringTypeOK
  <2> QED
    BY <1>3, <2>1, <2>3, <2>4, StartSecure DEF CheckApplication
<1>4. ASSUME NEW a \in Applications, ForceInvitation(d, a) PROVE Secure(d)
  <2> DEFINE w == [at |-> "invite", application |-> a, force |-> TRUE]
  <2>1. w \in Work
    BY DEF Work
  <2>2. desk'[d] = w
    BY <1>0, <1>4, <2>1 DEF ForceInvitation
  <2>3. Promise(d)' /\ HeldInquiry(d)' = Null
    BY <2>2 DEF Promise, HeldInquiry
  <2> QED
    BY <1>4, <2>1, <2>3, StartSecure DEF ForceInvitation, NoHistory, HiringTypeOK
<1>5. ASSUME NEW a \in Applications, NEW decision \in {"interview", "declined", "hired"},
             Decide(d, a, decision)
      PROVE  Secure(d)
  <2> DEFINE w == Deciding(a, decision)
  <2>1. w \in Work /\ w.at = "decide" /\ w.application = a /\ w.decision = decision
    BY DEF Deciding, Work, CandidateStatuses, Hired
  <2>2. /\ Turn(d, w) /\ OfJob(a) /\ Room(a, decision)
        /\ job[application[a].job].inquiry # Null
        /\ ~InquiryLocked(job[application[a].job].inquiry)
        /\ UNCHANGED hiringTables
    BY <1>5 DEF Decide
  <2>3. desk'[d].at = "decide" /\ desk'[d].application = a /\ desk'[d].decision = decision
    <3>1. desk' = [desk EXCEPT ![d] = w]
      BY <2>2 DEF Turn
    <3>2. desk'[d] = w
      BY <3>1 DEF HiringTypeOK
    <3> QED
      BY <2>1, <3>2
  <2>4. OfJob(a)' /\ Room(a, decision)'
    BY <2>2 DEF OfJob, JobExists, Room, NewHire, Hired
  <2>5. job[application[a].job].inquiry \in Inquiries
    BY <2>2, RowTypes DEF OfJob, JobExists
  <2> PICK i \in Inquiries : i = job[application[a].job].inquiry
    BY <2>5
  <2>6. Promise(d)' /\ HeldInquiry(d)' = i
    BY <2>2, <2>3, <2>4 DEF Promise, HeldInquiry
  <2>7. \A e \in Desks : HeldInquiry(e) # i
    BY <2>2, NotLocked
  <2>8. Call(d) /\ UNCHANGED <<doubled, reopened>>
    BY <1>5 DEF Decide, NoHistory
  <2> QED
    BY <2>1, <2>2, <2>6, <2>7, <2>8, StartSecure DEF HiringTypeOK
<1> QED
  BY <1>1, <1>2, <1>3, <1>4, <1>5

-----------------------------------------------------------------------------
(* The last step of a transaction or a handler. *)

\* The end of a transaction that has inquiry i locked and writes only i, the
\* jobs made of it and the applications for those.
LEMMA HeldSecure ==
  ASSUME HInv, NEW d \in Desks, NEW i \in Inquiries, HeldInquiry(d) = i, HiringTypeOK',
         inquiry[i] # Null, UNCHANGED invitation,
         \A k \in Inquiries : inquiry[k] # Null => inquiry'[k] # Null,
         \A k \in Jobs : \/ job'[k] = job[k]
                         \/ /\ job'[k] # Null /\ job'[k].inquiry = i
                            /\ job[k] = Null \/ job[k].inquiry = i,
         \A b \in Applications :
           \/ application'[b] = application[b]
           \/ /\ application[b] # Null /\ application[b].job \in Jobs
              /\ job[application[b].job] # Null /\ job[application[b].job].inquiry = i
              /\ application'[b] # Null /\ application'[b].job = application[b].job
              /\ application'[b].person = application[b].person,
         desk'[d] = Free, \A e \in Desks \ {d} : desk'[e] = desk[e]
  PROVE  Secure(d)
<1> USE DEF HInv
<1>1. i # Null
  BY HiringAssumption
<1>2. RowsKept
  BY <1>1 DEF RowsKept
<1>3. Named'
  BY RowTypes DEF Named
<1>4. \A e \in Desks \ {d} : Undisturbed(e)
  <2> SUFFICES ASSUME NEW e \in Desks \ {d} PROVE Undisturbed(e)
    OBVIOUS
  <2>1. HeldInquiry(e) # i
    BY <1>1 DEF Exclusive
  <2>2. ASSUME NEW k \in Inquiries, HeldInquiry(e) = k PROVE JobsOf(k)' \subseteq JobsOf(k)
    BY <2>1, <2>2 DEF JobsOf, JobExists
  <2>3. ASSUME desk[e].at = "decide"
        PROVE  /\ application'[desk[e].application] = application[desk[e].application]
               /\ \A j \in Jobs : application[desk[e].application].job = j =>
                    /\ JobExists(j)' /\ job'[j].positions = job[j].positions
                    /\ Hired(j)' \subseteq Hired(j)
    <3> PICK a \in Applications : a = desk[e].application
      BY <2>3, WorkTypes DEF HiringTypeOK
    <3> PICK j \in Jobs : j = application[a].job
      BY <2>3 DEF Promise, OfJob, JobExists
    <3>1. JobExists(j) /\ job[j] # Null /\ job[j].inquiry # i
      BY <2>1, <2>3 DEF Promise, OfJob, JobExists, HeldInquiry
    <3>2. job'[j] = job[j] /\ application'[a] = application[a]
      BY <3>1
    <3>3. Hired(j)' \subseteq Hired(j)
      BY <3>1 DEF Hired
    <3> QED
      BY <3>1, <3>2, <3>3 DEF JobExists
  <2> QED
    BY <2>2, <2>3 DEF Undisturbed
<1>5. Promise(d)' /\ HeldInquiry(d)' = Null
  BY FreeHoldsNext
<1> QED
  BY <1>2, <1>3, <1>4, <1>5 DEF Secure

\* The job of an inquiry is made or made a draft again.
LEMMA MakeSecure ==
  ASSUME HInv, NEW d \in Desks, DraftJob(d) \/ CreateTalentJob(d)
  PROVE  Secure(d)
<1> USE DEF HInv
<1>1. desk[d] \in Work /\ desk[d].at \in {"draft", "create"}
  BY DEF DraftJob, CreateTalentJob, HiringTypeOK
<1> PICK i \in Inquiries : i = desk[d].inquiry
  BY <1>1, WorkTypes
<1>2. HeldInquiry(d) = i /\ inquiry[i] # Null /\ inquiry[i] \in Inquiry
  BY <1>1, RowTypes DEF HeldInquiry, Promise
<1>3. Turn(d, Free) /\ UNCHANGED <<calls, tokens, application, invitation, reviews, doubled, reopened>>
  BY DEF DraftJob, CreateTalentJob, Then, NoHistory
<1>4. Free \in Work
  BY DEF Work
<1>5. /\ desk' \in [Desks -> Work] /\ desk'[d] = Free
      /\ \A e \in Desks \ {d} : desk'[e] = desk[e]
  BY <1>3, <1>4, TurnTypes
<1>6. /\ inquiry' \in [Inquiries -> Inquiry \cup {Null}]
      /\ \A k \in Inquiries : inquiry[k] # Null => inquiry'[k] # Null
  <2>1. inquiry' = [inquiry EXCEPT ![i].status = "drafted"]
    BY DEF DraftJob, CreateTalentJob
  <2>2. [inquiry[i] EXCEPT !.status = "drafted"] \in Inquiry
    BY <1>2 DEF Inquiry, InquiryStatuses
  <2> QED
    BY <2>1, <2>2, NullAssumption DEF HiringTypeOK
<1> DEFINE row == [inquiry |-> i, positions |-> inquiry[i].headcount, status |-> "draft"]
<1>7. row \in Job /\ row.inquiry = i /\ row # Null
  BY <1>2, NullAssumption DEF Job, Inquiry, JobStatuses
<1>8. /\ job' \in [Jobs -> Job \cup {Null}]
      /\ \A k \in Jobs : \/ job'[k] = job[k]
                         \/ /\ job'[k] # Null /\ job'[k].inquiry = i
                            /\ job[k] = Null \/ job[k].inquiry = i
  <2>1. ASSUME NEW j \in Jobs, NextRow(j, job), job' = [job EXCEPT ![j] = row]
        PROVE  /\ job' \in [Jobs -> Job \cup {Null}]
               /\ \A k \in Jobs : \/ job'[k] = job[k]
                                  \/ /\ job'[k] # Null /\ job'[k].inquiry = i
                                     /\ job[k] = Null \/ job[k].inquiry = i
    <3>1. job[j] = Null
      BY <2>1 DEF NextRow
    <3>2. job'[j] = row /\ \A k \in Jobs \ {j} : job'[k] = job[k]
      BY <2>1 DEF HiringTypeOK
    <3>3. job' \in [Jobs -> Job \cup {Null}]
      BY <1>7, <2>1 DEF HiringTypeOK
    <3> QED
      BY <1>7, <3>1, <3>2, <3>3
  <2>2. CASE CreateTalentJob(d)
    BY <2>1, <2>2 DEF CreateTalentJob
  <2>3. CASE DraftJob(d) /\ desk[d].found = Null
    BY <2>1, <2>3 DEF DraftJob
  <2>4. CASE DraftJob(d) /\ desk[d].found # Null
    <3> PICK j \in Jobs : j = desk[d].found
      BY <1>1, <2>4, WorkTypes DEF DraftJob
    <3>1. job[j] \in Job /\ job[j].inquiry = i
      BY <2>4, RowTypes DEF DraftJob, Promise
    <3>2. CASE job' = job
      BY <3>2 DEF HiringTypeOK
    <3>3. CASE job' = [job EXCEPT ![j].positions = inquiry[i].headcount, ![j].status = "draft"]
      <4>1. job'[j] = [job[j] EXCEPT !.positions = inquiry[i].headcount, !.status = "draft"]
        BY <3>3 DEF HiringTypeOK
      <4>2. job'[j] \in Job /\ job'[j].inquiry = i
        BY <1>2, <3>1, <4>1 DEF Job, Inquiry, JobStatuses
      <4>3. \A k \in Jobs \ {j} : job'[k] = job[k]
        BY <3>3 DEF HiringTypeOK
      <4>4. job' \in [Jobs -> Job \cup {Null}]
        <5>1. job' = [k \in Jobs |-> job'[k]]
          BY <3>3 DEF HiringTypeOK
        <5>2. \A k \in Jobs : job'[k] \in Job \cup {Null}
          BY <4>2, <4>3 DEF HiringTypeOK
        <5> QED
          BY ONLY <5>1, <5>2
      <4> QED
        BY <3>1, <4>2, <4>3, <4>4, NullAssumption
    <3> QED
      BY <2>4, <3>2, <3>3 DEF DraftJob
  <2> QED
    BY <2>2, <2>3, <2>4
<1>9. HiringTypeOK'
  BY <1>3, <1>5, <1>6, <1>8 DEF HiringTypeOK
<1> QED
  BY <1>2, <1>3, <1>5, <1>6, <1>8, <1>9, HeldSecure

\* What a decision is about.
LEMMA DecisionTypes ==
  ASSUME HInv, NEW d \in Desks, UpdateCompanyCandidateDecision(d)
  PROVE  \E a \in Applications, j \in Jobs, i \in Inquiries :
           /\ a = desk[d].application /\ j = application[a].job /\ i = job[j].inquiry
           /\ application[a] # Null /\ application[a] \in Application
           /\ JobExists(j) /\ job[j] # Null /\ job[j] \in Job
           /\ inquiry[i] # Null /\ inquiry[i] \in Inquiry
           /\ HeldInquiry(d) = i /\ desk[d].decision \in CandidateStatuses
           /\ desk[d].hired \subseteq Applications /\ Room(a, desk[d].decision)
<1> USE DEF HInv
<1>1. desk[d] \in Work /\ desk[d].at = "decide"
  BY DEF UpdateCompanyCandidateDecision, HiringTypeOK
<1> PICK a \in Applications : a = desk[d].application
  BY <1>1, WorkTypes
<1>2. OfJob(a) /\ job[application[a].job].inquiry # Null /\ Room(a, desk[d].decision)
  BY <1>1 DEF Promise
<1> PICK j \in Jobs : j = application[a].job
  BY <1>2 DEF OfJob, JobExists
<1>3. job[j].inquiry \in Inquiries
  BY <1>2, RowTypes DEF OfJob, JobExists
<1> PICK i \in Inquiries : i = job[j].inquiry
  BY <1>3
<1>4. inquiry[i] # Null
  BY <1>2 DEF Named, OfJob, JobExists
<1> QED
  BY <1>1, <1>2, <1>4, RowTypes, WorkTypes DEF OfJob, JobExists, HeldInquiry

\* What a decision writes.
LEMMA DecisionWrites ==
  ASSUME HInv, NEW d \in Desks, UpdateCompanyCandidateDecision(d)
  PROVE  LET a == desk[d].application
             j == application[a].job
             i == job[j].inquiry IN
         /\ application' = [application EXCEPT ![a].status = desk[d].decision]
         /\ \E status \in {"closed", "open"} : job' = [job EXCEPT ![j].status = status]
         /\ \E status \in {"resolved", "in_progress"} :
              inquiry' = [inquiry EXCEPT ![i].status = status]
BY Zenon DEF UpdateCompanyCandidateDecision

\* A company's decision.
LEMMA DecisionSecure ==
  ASSUME HInv, NEW d \in Desks, UpdateCompanyCandidateDecision(d)
  PROVE  Secure(d)
<1> USE DEF HInv
<1>1. PICK a \in Applications, j \in Jobs, i \in Inquiries :
           /\ a = desk[d].application /\ j = application[a].job /\ i = job[j].inquiry
           /\ application[a] # Null /\ application[a] \in Application
           /\ JobExists(j) /\ job[j] # Null /\ job[j] \in Job
           /\ inquiry[i] # Null /\ inquiry[i] \in Inquiry
           /\ HeldInquiry(d) = i /\ desk[d].decision \in CandidateStatuses
           /\ desk[d].hired \subseteq Applications /\ Room(a, desk[d].decision)
  BY DecisionTypes
<1>2. /\ application' = [application EXCEPT ![a].status = desk[d].decision]
      /\ \E status \in {"closed", "open"} : job' = [job EXCEPT ![j].status = status]
      /\ \E status \in {"resolved", "in_progress"} :
           inquiry' = [inquiry EXCEPT ![i].status = status]
  BY <1>1, DecisionWrites
<1>3. Turn(d, Free) /\ UNCHANGED <<calls, tokens, invitation, reviews, doubled, reopened>>
  BY DEF UpdateCompanyCandidateDecision, Then, NoHistory
<1>4. Free \in Work
  BY DEF Work
<1>5. /\ desk' \in [Desks -> Work] /\ desk'[d] = Free
      /\ \A e \in Desks \ {d} : desk'[e] = desk[e]
  BY <1>3, <1>4, TurnTypes
<1>6. /\ inquiry' \in [Inquiries -> Inquiry \cup {Null}]
      /\ \A k \in Inquiries : inquiry[k] # Null => inquiry'[k] # Null
  <2>1. \A status \in {"resolved", "in_progress"} : [inquiry[i] EXCEPT !.status = status] \in Inquiry
    BY <1>1 DEF Inquiry, InquiryStatuses
  <2> QED
    BY <1>2, <2>1, NullAssumption DEF HiringTypeOK
<1>7. /\ job' \in [Jobs -> Job \cup {Null}]
      /\ job'[j] # Null /\ job'[j].inquiry = i
      /\ \A k \in Jobs \ {j} : job'[k] = job[k]
  <2>1. PICK status \in {"closed", "open"} : job' = [job EXCEPT ![j].status = status]
    BY <1>2
  <2>2. job'[j] = [job[j] EXCEPT !.status = status]
    BY <2>1 DEF HiringTypeOK
  <2>3. job'[j] \in Job /\ job'[j].inquiry = i
    BY <1>1, <2>2 DEF Job, JobStatuses
  <2> QED
    BY <2>1, <2>3, NullAssumption DEF HiringTypeOK
<1>8. /\ application' \in [Applications -> Application \cup {Null}]
      /\ application'[a] # Null /\ application'[a].job = application[a].job
      /\ application'[a].person = application[a].person
      /\ \A b \in Applications \ {a} : application'[b] = application[b]
  <2>1. application'[a] = [application[a] EXCEPT !.status = desk[d].decision]
    BY <1>2 DEF HiringTypeOK
  <2>2. /\ application'[a] \in Application /\ application'[a].job = application[a].job
        /\ application'[a].person = application[a].person
    BY <1>1, <2>1 DEF Application
  <2> QED
    BY <1>2, <2>2, NullAssumption DEF HiringTypeOK
<1>9. HiringTypeOK'
  BY <1>3, <1>5, <1>6, <1>7, <1>8 DEF HiringTypeOK
<1>10. \A k \in Jobs : \/ job'[k] = job[k]
                      \/ /\ job'[k] # Null /\ job'[k].inquiry = i
                         /\ job[k] = Null \/ job[k].inquiry = i
  BY <1>1, <1>7
<1>11. \A b \in Applications :
         \/ application'[b] = application[b]
         \/ /\ application[b] # Null /\ application[b].job \in Jobs
            /\ job[application[b].job] # Null /\ job[application[b].job].inquiry = i
            /\ application'[b] # Null /\ application'[b].job = application[b].job
            /\ application'[b].person = application[b].person
  BY <1>1, <1>8
<1> QED
  BY <1>1, <1>3, <1>5, <1>6, <1>9, <1>10, <1>11, HeldSecure

\* An application is filed.
LEMMA FileSecure ==
  ASSUME HInv, NEW d \in Desks, CreateTalentJobApplication(d)
  PROVE  Secure(d)
<1> USE DEF HInv
<1>1. desk[d] \in Work /\ desk[d].at = "apply"
  BY DEF CreateTalentJobApplication, HiringTypeOK
<1>2. desk[d].job \in Jobs /\ desk[d].person \in People
  BY <1>1, WorkTypes
<1> DEFINE row == [job |-> desk[d].job, person |-> desk[d].person, status |-> "new"]
<1>3. row \in Application /\ row.status # "hired"
  BY <1>2 DEF Application, CandidateStatuses
<1>4. PICK a \in Applications :
        NextRow(a, application) /\ application' = [application EXCEPT ![a] = row]
  BY DEF CreateTalentJobApplication
<1>5. application[a] = Null
  BY <1>4 DEF NextRow
<1>6. /\ Turn(d, Free)
      /\ UNCHANGED <<calls, tokens, inquiry, job, invitation, reviews, doubled, reopened>>
  BY DEF CreateTalentJobApplication, Then, NoHistory
<1>7. Free \in Work
  BY DEF Work
<1>8. /\ desk' \in [Desks -> Work] /\ desk'[d] = Free
      /\ \A e \in Desks \ {d} : desk'[e] = desk[e]
  BY <1>6, <1>7, TurnTypes
<1>9. HiringTypeOK'
  BY <1>3, <1>4, <1>6, <1>8 DEF HiringTypeOK
<1>10. Promise(d)' /\ HeldInquiry(d)' = Null
  BY <1>8, FreeHoldsNext
<1>11. \A e \in Desks : desk[e].at = "decide" => desk[e].application # a
  BY <1>5, NotDecided
<1>12. /\ application'[a].status # "hired"
       /\ \A b \in Applications \ {a} : application'[b] = application[b]
  BY <1>3, <1>4 DEF HiringTypeOK
<1> QED
  BY <1>5, <1>6, <1>8, <1>9, <1>10, <1>11, <1>12, ApplicationSecure

\* Invitations, and requests that are given up.
LEMMA InviteSecure ==
  ASSUME HInv, NEW d \in Desks,
         Break(d) \/ ReadInvitation(d) \/ SaveInvitation(d) \/ NoteSent(d)
  PROVE  Secure(d)
<1> USE DEF HInv, hiringTables
<1>1. Free \in Work
  BY DEF Work
<1>2. UNCHANGED <<inquiry, job, application, reviews, doubled>>
  BY DEF Break, ReadInvitation, SaveInvitation, NoteSent, NoHistory
<1>3. ASSUME NEW w \in Work, Turn(d, w), w.at \in {"free", "save", "mail"},
             w.at = "mail" => invitation'[w.application] # Null,
             invitation' \in [Applications -> Invitation \cup {Null}],
             \A b \in Applications : invitation[b] # Null => invitation'[b] # Null,
             calls' \in 0 .. MaxCalls, tokens' \in 0 .. MaxInvitations,
             reopened' \subseteq Applications
      PROVE  Secure(d)
  <2>1. /\ desk' \in [Desks -> Work] /\ desk'[d] = w
        /\ \A e \in Desks \ {d} : desk'[e] = desk[e]
    BY <1>3, TurnTypes
  <2>2. HiringTypeOK'
    BY <1>2, <1>3, <2>1 DEF HiringTypeOK
  <2>3. Promise(d)' /\ HeldInquiry(d)' = Null
    BY <1>3, <2>1 DEF Promise, HeldInquiry
  <2> QED
    BY <1>2, <1>3, <2>1, <2>2, <2>3, DeskSecure
<1>4. ASSUME NEW w \in Work, Then(d, w), w.at \in {"free", "save"}, UNCHANGED <<invitation, reopened>>
      PROVE  Secure(d)
  BY <1>3, <1>4 DEF Then, HiringTypeOK
<1>5. CASE Break(d)
  BY <1>1, <1>4, <1>5 DEF Break, NoHistory, Free
<1>6. CASE ReadInvitation(d)
  <2>1. desk[d] \in Work /\ desk[d].at = "invite"
    BY <1>6 DEF ReadInvitation, HiringTypeOK
  <2> PICK a \in Applications : a = desk[d].application
    BY <2>1, WorkTypes
  <2>2. [at |-> "save", application |-> a, seen |-> invitation[a]] \in Work
    BY DEF Work, HiringTypeOK
  <2>3. \/ Then(d, [at |-> "save", application |-> a, seen |-> invitation[a]])
        \/ Then(d, Free)
    BY <1>6 DEF ReadInvitation
  <2> QED
    BY <1>1, <1>4, <1>6, <2>2, <2>3 DEF ReadInvitation, NoHistory, Free
<1>7. CASE SaveInvitation(d)
  <2>1. desk[d] \in Work /\ desk[d].at = "save"
    BY <1>7 DEF SaveInvitation, HiringTypeOK
  <2> PICK a \in Applications : a = desk[d].application
    BY <2>1, WorkTypes
  <2>2. desk[d].seen \in Invitation \cup {Null}
    BY <2>1, WorkTypes
  <2> PICK used \in BOOLEAN : used = (desk[d].seen # Null /\ desk[d].seen.used)
    BY <2>2 DEF Invitation
  <2> DEFINE row == [token |-> tokens + 1, sent |-> FALSE, used |-> used]
             w == [at |-> "mail", application |-> a]
  <2>3. CASE Then(d, Free) /\ UNCHANGED <<invitation, reopened>>
    BY <1>1, <1>4, <2>3 DEF Free
  <2>4. CASE /\ tokens' = tokens + 1 /\ UNCHANGED calls /\ Turn(d, w)
             /\ invitation' = [invitation EXCEPT ![a] = row]
             /\ reopened' = IF invitation[a] # Null /\ invitation[a].used # used
                            THEN reopened \union {a} ELSE reopened
    <3>1. tokens + 1 \in 1 .. MaxInvitations
      BY <1>7, HiringAssumption DEF SaveInvitation, HiringTypeOK
    <3>2. row \in Invitation /\ row # Null
      <4>1. ASSUME NEW t \in 1 .. MaxInvitations, NEW u \in BOOLEAN
            PROVE  [token |-> t, sent |-> FALSE, used |-> u] \in Invitation
        BY DEF Invitation
      <4>2. row \in Invitation
        BY ONLY <3>1, <4>1, used \in BOOLEAN, Zenon
      <4> QED
        BY <4>2, NullAssumption
    <3>3. w \in Work /\ w.at = "mail" /\ w.application = a
      BY DEF Work
    <3>4. /\ invitation' \in [Applications -> Invitation \cup {Null}]
          /\ \A b \in Applications : invitation[b] # Null => invitation'[b] # Null
          /\ invitation'[a] # Null
      BY <2>4, <3>2 DEF HiringTypeOK
    <3>5. calls' \in 0 .. MaxCalls /\ tokens' \in 0 .. MaxInvitations
      BY <2>4, <3>1, HiringAssumption DEF HiringTypeOK
    <3>6. reopened' \subseteq Applications
      BY <2>4 DEF HiringTypeOK
    <3> QED
      BY <1>3, <2>4, <3>3, <3>4, <3>5, <3>6
  <2> QED
    BY <1>7, <2>3, <2>4 DEF SaveInvitation
<1>8. CASE NoteSent(d)
  <2>1. desk[d] \in Work /\ desk[d].at = "mail"
    BY <1>8 DEF NoteSent, HiringTypeOK
  <2> PICK a \in Applications : a = desk[d].application
    BY <2>1, WorkTypes
  <2>2. invitation[a] \in Invitation
    BY <2>1, RowTypes DEF Promise
  <2>3. [invitation[a] EXCEPT !.sent = TRUE] \in Invitation
    BY <2>2 DEF Invitation
  <2>4. invitation' = [invitation EXCEPT ![a].sent = TRUE]
    BY <1>8 DEF NoteSent
  <2>5. /\ invitation' \in [Applications -> Invitation \cup {Null}]
        /\ \A b \in Applications : invitation[b] # Null => invitation'[b] # Null
    BY <2>3, <2>4, NullAssumption DEF HiringTypeOK
  <2> QED
    BY <1>1, <1>3, <1>8, <2>5 DEF NoteSent, NoHistory, Then, Free, HiringTypeOK
<1> QED
  BY <1>5, <1>6, <1>7, <1>8

-----------------------------------------------------------------------------
(* The invariant. *)

\* A pool begins with nobody at a desk, and its jobs name inquiries it has.
LEMMA BeginsSecure == HiringInit => HInv
<1> SUFFICES ASSUME HiringInit PROVE HInv
  OBVIOUS
<1> PICK pool \in StartPools :
      inquiry = pool.inquiry /\ job = pool.job /\ application = pool.application
  BY DEF HiringInit
<1>1. Free \in Work
  BY DEF Work
<1>2. HiringTypeOK
  BY <1>1, HiringAssumption, StartPoolsAssumption DEF HiringInit, HiringTypeOK
<1>3. Named
  BY StartPoolsAssumption DEF Named
<1>4. \A d \in Desks : HeldInquiry(d) = Null /\ Promise(d)
  BY FreeHolds DEF HiringInit
<1> QED
  BY <1>2, <1>3, <1>4 DEF HInv, Exclusive

\* Every step of every request is secure.
LEMMA StepsSecure ==
  ASSUME HInv, HiringNext
  PROVE  \E d \in Desks : Secure(d)
<1>1. PICK d \in Desks :
        \/ Finish(d)
        \/ \E i \in Inquiries : AboutInquiry(d, i)
        \/ \E j \in Jobs : AboutJob(d, j)
        \/ \E a \in Applications : AboutApplication(d, a)
  BY DEF HiringNext
<1>2. CASE Finish(d)
  BY <1>2, MakeSecure, DecisionSecure, FileSecure, InviteSecure DEF Finish
<1>3. ASSUME NEW i \in Inquiries, AboutInquiry(d, i) PROVE Secure(d)
  BY <1>3, AskSecure, StartsSecure DEF AboutInquiry
<1>4. ASSUME NEW j \in Jobs, AboutJob(d, j) PROVE Secure(d)
  BY <1>4, JobFormSecure, StartsSecure DEF AboutJob
<1>5. ASSUME NEW a \in Applications, AboutApplication(d, a) PROVE Secure(d)
  BY <1>5, CandidateSecure, PlaceSecure, ReviewSecure, StartsSecure DEF AboutApplication
<1> QED
  BY <1>1, <1>2, <1>3, <1>4, <1>5

LEMMA StepKeepsHInv ==
  ASSUME HInv, [HiringNext]_hiringVars
  PROVE  HInv'
<1>1. CASE HiringNext
  BY <1>1, StepsSecure, SecureKeeps
<1>2. CASE UNCHANGED hiringVars
  <2>1. HiringTypeOK'
    BY <1>2 DEF hiringVars, hiringTables, HInv, HiringTypeOK
  <2>2. Named'
    BY <1>2 DEF hiringVars, hiringTables, HInv, Named
  <2>3. Exclusive'
    BY <1>2 DEF hiringVars, hiringTables, HInv, Exclusive, HeldInquiry
  <2>4. ASSUME NEW d \in Desks PROVE Promise(d)'
    <3>1. \A i : JobsOf(i)' = JobsOf(i)
      BY <1>2 DEF hiringVars, hiringTables, JobsOf, JobExists
    <3>2. \A a : OfJob(a)' = OfJob(a)
      BY <1>2 DEF hiringVars, hiringTables, OfJob, JobExists
    <3>3. \A a, decision : Room(a, decision)' = Room(a, decision)
      BY <1>2 DEF hiringVars, hiringTables, Room, NewHire, Hired
    <3>4. UNCHANGED <<inquiry, job, application, invitation, desk>>
      BY <1>2 DEF hiringVars, hiringTables
    <3> QED
      BY <3>1, <3>2, <3>3, <3>4 DEF HInv, Promise
  <2> QED
    BY <2>1, <2>2, <2>3, <2>4 DEF HInv
<1> QED
  BY <1>1, <1>2

\* What holds throughout a run.
LEMMA AlwaysHInv == HiringSpec => []HInv
<1>1. HInv /\ [HiringNext]_hiringVars => HInv'
  BY StepKeepsHInv
<1> QED
  BY BeginsSecure, <1>1, PTL DEF HiringSpec

\* Every row and request has the form the code gives it, whatever the pool.
THEOREM PoolTyped == HiringSpec => []HiringTypeOK
<1>1. HInv => HiringTypeOK
  BY DEF HInv
<1> QED
  BY AlwaysHInv, <1>1, PTL

-----------------------------------------------------------------------------
(* One job for an inquiry. *)

\* Two jobs of one inquiry are one.
Unique ==
  \A j, k \in Jobs : JobExists(j) /\ JobExists(k) /\ job[j].inquiry \in Inquiries
                       /\ job[j].inquiry = job[k].inquiry => j = k

\* A step gives no inquiry another job, or one inquiry its first.
NoMoreJobs ==
  \A k \in Jobs : JobExists(k)' /\ job'[k].inquiry \in Inquiries =>
    JobExists(k) /\ job'[k].inquiry = job[k].inquiry
FirstJob ==
  \E i \in Inquiries, j \in Jobs :
    /\ JobsOf(i) = {} /\ job'[j] # Null /\ job'[j].inquiry = i
    /\ \A k \in Jobs \ {j} : job'[k] = job[k]

\* A step that makes a job does so with its inquiry locked, when it has none.
LEMMA MakesFirstJob ==
  ASSUME HInv, NEW d \in Desks, DraftJob(d) \/ CreateTalentJob(d)
  PROVE  NoMoreJobs \/ FirstJob
<1> USE DEF HInv
<1>1. desk[d] \in Work /\ desk[d].at \in {"draft", "create"}
  BY DEF DraftJob, CreateTalentJob, HiringTypeOK
<1> PICK i \in Inquiries : i = desk[d].inquiry
  BY <1>1, WorkTypes
<1>2. inquiry[i] \in Inquiry
  BY <1>1, RowTypes DEF Promise
<1> DEFINE row == [inquiry |-> i, positions |-> inquiry[i].headcount, status |-> "draft"]
<1>3. row \in Job /\ row # Null
  BY <1>2, NullAssumption DEF Job, Inquiry, JobStatuses
<1>4. ASSUME NEW j \in Jobs, JobsOf(i) = {}, job' = [job EXCEPT ![j] = row]
      PROVE  FirstJob
  <2>1. job'[j] = row /\ \A k \in Jobs \ {j} : job'[k] = job[k]
    BY <1>4 DEF HiringTypeOK
  <2> QED
    BY <1>3, <1>4, <2>1 DEF FirstJob
<1>5. CASE CreateTalentJob(d)
  <2>1. JobsOf(i) = {} /\ \E j \in Jobs : job' = [job EXCEPT ![j] = row]
    BY <1>5 DEF CreateTalentJob, Promise
  <2> QED
    BY <1>4, <2>1
<1>6. CASE DraftJob(d) /\ desk[d].found = Null
  <2>1. JobsOf(i) = {} /\ \E j \in Jobs : job' = [job EXCEPT ![j] = row]
    BY <1>6 DEF DraftJob, Promise
  <2> QED
    BY <1>4, <2>1
<1>7. CASE DraftJob(d) /\ desk[d].found # Null
  <2> PICK f \in Jobs : f = desk[d].found
    BY <1>1, <1>7, WorkTypes DEF DraftJob
  <2>1. job' = IF JobExists(f)
               THEN [job EXCEPT ![f].positions = inquiry[i].headcount, ![f].status = "draft"]
               ELSE job
    BY <1>7 DEF DraftJob
  <2>2. JobExists(f) => job[f] \in Job
    BY RowTypes DEF JobExists
  <2>3. \A k \in Jobs : JobExists(k)' => JobExists(k)
    BY <2>1 DEF JobExists, HiringTypeOK
  <2>4. \A k \in Jobs : JobExists(k) => job'[k].inquiry = job[k].inquiry
    <3> SUFFICES ASSUME NEW k \in Jobs, JobExists(k) PROVE job'[k].inquiry = job[k].inquiry
      OBVIOUS
    <3>1. job[k] \in Job
      BY RowTypes DEF JobExists
    <3> QED
      BY <2>1, <2>2, <3>1 DEF HiringTypeOK, Job
  <2> QED
    BY <2>3, <2>4 DEF NoMoreJobs
<1> QED
  BY <1>5, <1>6, <1>7

\* What any step does to the jobs.
LEMMA JobsMade ==
  ASSUME HInv, [HiringNext]_hiringVars
  PROVE  NoMoreJobs \/ FirstJob
<1> USE DEF HInv
<1>1. ASSUME job' = job PROVE NoMoreJobs
  BY <1>1 DEF NoMoreJobs, JobExists
<1>2. ASSUME NEW j \in Jobs, JobExists(j), job'[j].inquiry = job[j].inquiry,
             \A k \in Jobs \ {j} : job'[k] = job[k]
      PROVE  NoMoreJobs
  BY <1>2 DEF NoMoreJobs, JobExists
<1>3. ASSUME NEW d \in Desks, NEW j \in Jobs, AboutJob(d, j) PROVE NoMoreJobs
  <2>1. ASSUME NEW n \in Headcounts, NEW status \in JobStatuses, CreateOwnJob(d, j, n, status)
        PROVE  NoMoreJobs
    <3>1. job'[j].inquiry = Null /\ \A k \in Jobs \ {j} : job'[k] = job[k]
      BY <2>1 DEF CreateOwnJob, HiringTypeOK
    <3> QED
      BY <3>1, HiringAssumption DEF NoMoreJobs, JobExists
  <2>2. ASSUME NEW n \in Headcounts, NEW status \in JobStatuses, UpdateTalentJob(d, j, n, status)
        PROVE  NoMoreJobs
    <3>1. JobExists(j) /\ job[j] \in Job
      BY <2>2, RowTypes DEF UpdateTalentJob, JobExists
    <3>2. job'[j].inquiry = job[j].inquiry /\ \A k \in Jobs \ {j} : job'[k] = job[k]
      BY <2>2, <3>1 DEF UpdateTalentJob, HiringTypeOK, Job
    <3> QED
      BY <1>2, <3>1, <3>2
  <2>3. CASE DeleteTalentJob(d, j)
    <3>1. JobExists(j) /\ job[j] \in Job
      BY <2>3, RowTypes DEF DeleteTalentJob, JobExists
    <3>2. job'[j].inquiry = job[j].inquiry /\ \A k \in Jobs \ {j} : job'[k] = job[k]
      BY <2>3, <3>1 DEF DeleteTalentJob, HiringTypeOK, Job
    <3> QED
      BY <1>2, <3>1, <3>2
  <2>4. ASSUME NEW p \in People, CheckApplication(d, j, p) PROVE NoMoreJobs
    BY <1>1, <2>4 DEF CheckApplication, hiringTables
  <2> QED
    BY <1>3, <2>1, <2>2, <2>3, <2>4 DEF AboutJob
<1>4. ASSUME NEW d \in Desks, NEW i \in Inquiries, AboutInquiry(d, i) PROVE NoMoreJobs
  BY <1>1, <1>4 DEF AboutInquiry, CreateHiringInquiry, UpdateHiringInquiry, DraftInquiry,
     CheckInquiry, hiringTables
<1>5. ASSUME NEW d \in Desks, NEW a \in Applications, AboutApplication(d, a) PROVE NoMoreJobs
  BY <1>1, <1>5 DEF AboutApplication, CreateTalentPlusApplication, updateJobApplicationStatus,
     MoveLead, PlaceTalent, ForceInvitation, Decide, SubmitTalentReview, hiringTables
<1>6. ASSUME NEW d \in Desks, UpdateCompanyCandidateDecision(d) PROVE NoMoreJobs
  <2> PICK j \in Jobs : j = application[desk[d].application].job /\ JobExists(j) /\ job[j] \in Job
    BY <1>6, DecisionTypes
  <2>1. \E status \in {"closed", "open"} : job' = [job EXCEPT ![j].status = status]
    BY <1>6, DecisionWrites
  <2>2. job'[j].inquiry = job[j].inquiry /\ \A k \in Jobs \ {j} : job'[k] = job[k]
    BY <2>1 DEF HiringTypeOK, Job
  <2> QED
    BY <1>2, <2>2
<1>7. ASSUME NEW d \in Desks, Finish(d) PROVE NoMoreJobs \/ FirstJob
  BY <1>1, <1>6, <1>7, MakesFirstJob DEF Finish, CreateTalentJobApplication, Break,
     ReadInvitation, SaveInvitation, NoteSent, hiringTables
<1>8. CASE UNCHANGED hiringVars
  BY <1>1, <1>8 DEF hiringVars, hiringTables
<1> QED
  BY <1>3, <1>4, <1>5, <1>7, <1>8 DEF HiringNext

LEMMA UniqueKept ==
  ASSUME HInv, Unique, [HiringNext]_hiringVars
  PROVE  Unique'
<1>1. CASE NoMoreJobs
  BY <1>1 DEF Unique, NoMoreJobs
<1>2. CASE FirstJob
  <2> PICK i \in Inquiries, j \in Jobs :
        /\ JobsOf(i) = {} /\ job'[j] # Null /\ job'[j].inquiry = i
        /\ \A k \in Jobs \ {j} : job'[k] = job[k]
    BY <1>2 DEF FirstJob
  <2>1. \A k \in Jobs \ {j} : JobExists(k)' => JobExists(k) /\ job'[k].inquiry # i
    BY DEF JobExists, JobsOf
  <2> QED
    BY <2>1 DEF Unique
<1> QED
  BY <1>1, <1>2, JobsMade

\* An inquiry never has two jobs, whichever of the two ways of making one is
\* taken, because both look for one and make one under the inquiry's lock.
THEOREM OneJob == HiringSpec => []OneJobPerInquiry
<1>1. HiringInit => Unique
  <2> SUFFICES ASSUME HiringInit PROVE Unique
    OBVIOUS
  <2> PICK pool \in StartPools : job = pool.job
    BY DEF HiringInit
  <2> QED
    BY StartPoolsAssumption, HiringAssumption DEF Unique, JobExists
<1>2. HInv /\ Unique /\ [HiringNext]_hiringVars => Unique'
  BY UniqueKept
<1>3. Unique => OneJobPerInquiry
  <2> SUFFICES ASSUME Unique, NEW i \in Inquiries PROVE Cardinality(JobsOf(i)) <= 1
    BY DEF OneJobPerInquiry
  <2>1. CASE JobsOf(i) = {}
    BY <2>1, FS_EmptySet
  <2>2. CASE JobsOf(i) # {}
    <3> PICK j \in JobsOf(i) : TRUE
      BY <2>2
    <3>1. JobsOf(i) = {j}
      BY DEF Unique, JobsOf
    <3> QED
      BY <3>1, FS_Singleton
  <2> QED
    BY <2>1, <2>2
<1> QED
  BY AlwaysHInv, <1>1, <1>2, <1>3, PTL DEF HiringSpec

-----------------------------------------------------------------------------
(* Hires fit the positions. *)

\* A step that writes no application a hire makes no hire.
LEMMA NoHires ==
  ASSUME \A a \in Applications :
           \/ application'[a] = application[a]
           \/ application'[a] # Null => application'[a].status # "hired",
         NEW j \in Jobs
  PROVE  Hired(j)' \subseteq Hired(j)
BY DEF Hired

\* Only a decision does.
LEMMA OnlyDecisionsHire ==
  ASSUME HInv, [HiringNext]_hiringVars,
         \A d \in Desks : ~UpdateCompanyCandidateDecision(d)
  PROVE  \A a \in Applications :
           \/ application'[a] = application[a]
           \/ application'[a] # Null => application'[a].status # "hired"
<1> USE DEF HInv
<1> DEFINE Goal == \A a \in Applications :
                     \/ application'[a] = application[a]
                     \/ application'[a] # Null => application'[a].status # "hired"
<1>1. ASSUME application' = application PROVE Goal
  BY <1>1
<1>2. ASSUME NEW d \in Desks, Finish(d) PROVE Goal
  <2>1. CASE CreateTalentJobApplication(d)
    BY <2>1 DEF CreateTalentJobApplication, HiringTypeOK
  <2>2. CASE ~CreateTalentJobApplication(d)
    BY <1>1, <1>2, <2>2 DEF Finish, DraftJob, CreateTalentJob, Break,
       ReadInvitation, SaveInvitation, NoteSent, hiringTables
  <2> QED
    BY <2>1, <2>2
<1>3. ASSUME NEW d \in Desks, NEW i \in Inquiries, AboutInquiry(d, i) PROVE Goal
  BY <1>1, <1>3 DEF AboutInquiry, CreateHiringInquiry, UpdateHiringInquiry, DraftInquiry,
     CheckInquiry, hiringTables
<1>4. ASSUME NEW d \in Desks, NEW j \in Jobs, AboutJob(d, j) PROVE Goal
  BY <1>1, <1>4 DEF AboutJob, CreateOwnJob, UpdateTalentJob, DeleteTalentJob,
     CheckApplication, hiringTables
<1>5. ASSUME NEW d \in Desks, NEW a \in Applications, AboutApplication(d, a) PROVE Goal
  <2>1. ASSUME NEW status \in {"new", "proposed", "placed"}, application[a] \in Application,
               application' = [application EXCEPT ![a].status = status]
        PROVE  Goal
    BY <2>1 DEF HiringTypeOK, Application
  <2>2. ASSUME NEW p \in People, CreateTalentPlusApplication(d, a, p) PROVE Goal
    BY <2>2 DEF CreateTalentPlusApplication, HiringTypeOK
  <2>3. ASSUME NEW status \in {"new", "proposed"}, updateJobApplicationStatus(d, a, status)
        PROVE  Goal
    BY <2>1, <2>3, RowTypes DEF updateJobApplicationStatus, OfJob
  <2>4. CASE MoveLead(d, a)
    BY <2>1, <2>4, RowTypes DEF MoveLead
  <2>5. CASE PlaceTalent(d, a)
    BY <2>1, <2>5, RowTypes DEF PlaceTalent, IsPlus
  <2>6. ASSUME application' # application PROVE
        \/ \E p \in People : CreateTalentPlusApplication(d, a, p)
        \/ \E status \in {"new", "proposed"} : updateJobApplicationStatus(d, a, status)
        \/ MoveLead(d, a) \/ PlaceTalent(d, a)
    BY <1>5, <2>6 DEF AboutApplication, ForceInvitation, Decide, SubmitTalentReview, hiringTables
  <2> QED
    BY <1>1, <2>2, <2>3, <2>4, <2>5, <2>6
<1>6. CASE UNCHANGED hiringVars
  BY <1>1, <1>6 DEF hiringVars, hiringTables
<1> QED
  BY <1>2, <1>3, <1>4, <1>5, <1>6 DEF HiringNext

\* What is short of a limit fits it with one more.
LEMMA OneMoreFits ==
  \A c, n, m, q \in Nat : c < q /\ n = c + 1 /\ m <= n => m <= q
OBVIOUS

\* A decision's hire fits: it found a position, and its locks kept it.
LEMMA DecisionFits ==
  ASSUME HInv, NEW d \in Desks, UpdateCompanyCandidateDecision(d), NEW j \in Jobs,
         ~(Hired(j)' \subseteq Hired(j))
  PROVE  Cardinality(Hired(j)') <= job'[j].positions
<1> USE DEF HInv
<1> PICK a \in Applications, k \in Jobs, i \in Inquiries :
      /\ a = desk[d].application /\ k = application[a].job /\ i = job[k].inquiry
      /\ application[a] # Null /\ application[a] \in Application
      /\ JobExists(k) /\ job[k] # Null /\ job[k] \in Job
      /\ inquiry[i] # Null /\ inquiry[i] \in Inquiry
      /\ HeldInquiry(d) = i /\ desk[d].decision \in CandidateStatuses
      /\ desk[d].hired \subseteq Applications /\ Room(a, desk[d].decision)
  BY DecisionTypes
<1> PICK decision \in CandidateStatuses : decision = desk[d].decision
  OBVIOUS
<1>1. /\ application' = [application EXCEPT ![a].status = decision]
      /\ \E status \in {"closed", "open"} : job' = [job EXCEPT ![k].status = status]
  BY DecisionWrites
<1>2. application'[a] = [application[a] EXCEPT !.status = decision]
  BY <1>1 DEF HiringTypeOK
<1>3. /\ application'[a].job = k /\ application'[a].status = decision
      /\ \A b \in Applications \ {a} : application'[b] = application[b]
  BY <1>1, <1>2 DEF HiringTypeOK, Application
<1>4. /\ \A m \in Jobs : Hired(m)' \subseteq Hired(m) \cup {a}
      /\ \A m \in Jobs \ {k} : Hired(m)' \subseteq Hired(m)
      /\ decision # "hired" \/ a \in Hired(k) => Hired(k)' \subseteq Hired(k)
  BY <1>3 DEF Hired
<1>5. j = k /\ NewHire(a, decision)
  <2>1. j = k /\ decision = "hired" /\ a \notin Hired(k)
    BY <1>4
  <2> QED
    BY ONLY <2>1, application[a] # Null, k = application[a].job, a \in Applications
    DEF NewHire, Hired
<1>6. Cardinality(Hired(k)) < job[k].positions
  BY <1>5 DEF Room
<1>7. job'[k].positions = job[k].positions /\ job[k].positions \in Nat
  <2>1. job'[k].positions = job[k].positions
    <3>1. PICK status \in {"closed", "open"} : job' = [job EXCEPT ![k].status = status]
      BY <1>1
    <3>2. job'[k] = [job[k] EXCEPT !.status = status]
      BY <3>1 DEF HiringTypeOK
    <3> QED
      BY <3>2 DEF Job
  <2> QED
    BY <2>1, RowTypes
<1>8. IsFiniteSet(Hired(k)) /\ a \notin Hired(k)
  <2>1. Hired(k) \in SUBSET Applications
    BY DEF Hired
  <2> QED
    BY <1>5, <2>1, FS_Subset, HiringAssumption DEF Hired, NewHire
<1>9. /\ IsFiniteSet(Hired(k) \cup {a}) /\ Cardinality(Hired(k)) \in Nat
      /\ Cardinality(Hired(k) \cup {a}) = Cardinality(Hired(k)) + 1
  BY <1>8, FS_AddElement, FS_CardinalityType
<1>10. /\ Cardinality(Hired(k)') \in Nat
       /\ Cardinality(Hired(k)') <= Cardinality(Hired(k) \cup {a})
  BY <1>4, <1>9, FS_Subset, FS_CardinalityType
<1>11. Cardinality(Hired(k)') <= job'[k].positions
  BY ONLY <1>6, <1>7, <1>9, <1>10, OneMoreFits
<1>12. Hired(j)' = Hired(k)'
  BY <1>5
<1> QED
  BY <1>5, <1>11, <1>12

\* Whenever a job has one more hire than before, its hires fit its positions,
\* however many companies decide at once.
THEOREM HiresFitPositions == HiringSpec => HiresFit
<1>1. HInv /\ [HiringNext]_hiringVars =>
        [\A j \in Jobs : Cardinality(Hired(j)') > Cardinality(Hired(j)) =>
           Cardinality(Hired(j)') <= job'[j].positions]_hiringVars
  <2> SUFFICES ASSUME HInv, [HiringNext]_hiringVars, NEW j \in Jobs,
                      Cardinality(Hired(j)') > Cardinality(Hired(j))
               PROVE  Cardinality(Hired(j)') <= job'[j].positions
    OBVIOUS
  <2>1. ~(Hired(j)' \subseteq Hired(j))
    <3>1. IsFiniteSet(Hired(j))
      <4>1. Hired(j) \in SUBSET Applications
        BY DEF Hired
      <4> QED
        BY <4>1, FS_Subset, HiringAssumption
    <3>2. Hired(j)' \subseteq Hired(j) =>
            /\ Cardinality(Hired(j)') <= Cardinality(Hired(j))
            /\ Cardinality(Hired(j)') \in Nat /\ Cardinality(Hired(j)) \in Nat
      BY <3>1, FS_Subset, FS_CardinalityType
    <3> QED
      BY <3>2
  <2>2. PICK d \in Desks : UpdateCompanyCandidateDecision(d)
    BY <2>1, NoHires, OnlyDecisionsHire
  <2> QED
    BY <2>1, <2>2, DecisionFits
<1> QED
  BY AlwaysHInv, <1>1, PTL DEF HiringSpec, HiresFit

-----------------------------------------------------------------------------
(* Once each. *)

\* Somebody with two applications for a job sent them at once.
OneApplication ==
  \A a, b \in Applications :
    /\ application[a] # Null /\ application[b] # Null /\ application[a].job # Null
    /\ application[a].job = application[b].job /\ application[a].person = application[b].person
    => a = b \/ <<application[a].person, application[a].job>> \in doubled

\* A request that is about to apply is the person's first for the job, or one
\* of several at once.
FirstToApply ==
  \A d \in Desks : desk[d].at = "apply" =>
    \/ <<desk[d].person, desk[d].job>> \in doubled
    \/ /\ ~Applied(desk[d].person, desk[d].job)
       /\ \A e \in Desks \ {d} : desk[e] # desk[d]

\* Whoever has written a review has used the invitation, or got it back.
UsedUp ==
  \A a \in Applications :
    \/ a \in reopened
    \/ reviews[a] = 0
    \/ reviews[a] = 1 /\ invitation[a] # Null /\ invitation[a].used

\* A step that files no application for a job.
NothingFiled ==
  /\ \A a \in Applications : application'[a] # Null /\ application'[a].job # Null =>
       /\ application[a] # Null /\ application'[a].job = application[a].job
       /\ application'[a].person = application[a].person
  /\ \A d \in Desks : desk'[d].at = "apply" => desk'[d] = desk[d]
  /\ doubled \subseteq doubled'

LEMMA NothingFiledKeeps ==
  ASSUME HInv, OneApplication, FirstToApply, NothingFiled
  PROVE  OneApplication' /\ FirstToApply'
<1> USE DEF HInv
<1>1. OneApplication'
  BY DEF OneApplication, NothingFiled
<1>2. ASSUME NEW d \in Desks, desk'[d].at = "apply"
      PROVE  \/ <<desk'[d].person, desk'[d].job>> \in doubled'
             \/ /\ ~Applied(desk[d].person, desk[d].job)'
                /\ \A e \in Desks \ {d} : desk'[e] # desk'[d]
  <2>1. desk'[d] = desk[d] /\ desk[d].job # Null
    BY <1>2, WorkTypes, HiringAssumption DEF NothingFiled, HiringTypeOK
  <2>2. Applied(desk[d].person, desk[d].job)' => Applied(desk[d].person, desk[d].job)
    BY <2>1 DEF Applied, NothingFiled
  <2>3. \A e \in Desks \ {d} : desk'[e] = desk'[d] => desk[e] = desk[d]
    BY <1>2, <2>1 DEF NothingFiled
  <2> QED
    BY <1>2, <2>1, <2>2, <2>3 DEF FirstToApply, NothingFiled
<1> QED
  BY <1>1, <1>2 DEF FirstToApply

\* The two steps of applying.
LEMMA CheckKeeps ==
  ASSUME HInv, OneApplication, FirstToApply, NEW d \in Desks, NEW j \in Jobs, NEW p \in People,
         CheckApplication(d, j, p)
  PROVE  OneApplication' /\ FirstToApply'
<1> USE DEF HInv
<1> DEFINE w == [at |-> "apply", job |-> j, person |-> p]
<1>1. /\ application' = application /\ ~Applied(p, j)
      /\ doubled \subseteq doubled'
      /\ (\E e \in Desks \ {d} : desk[e] = w) => <<p, j>> \in doubled'
  BY DEF CheckApplication, hiringTables
<1>2. desk'[d] = w /\ \A e \in Desks \ {d} : desk'[e] = desk[e]
  BY DEF CheckApplication, Turn, HiringTypeOK
<1>3. OneApplication'
  BY <1>1 DEF OneApplication
<1>4. ASSUME NEW e \in Desks \ {d}, desk[e].at = "apply"
      PROVE  \/ <<desk[e].person, desk[e].job>> \in doubled'
             \/ /\ ~Applied(desk[e].person, desk[e].job)'
                /\ \A f \in Desks \ {e} : desk'[f] # desk[e]
  <2>1. CASE desk[e] = w
    BY <1>1, <2>1
  <2>2. CASE desk[e] # w
    BY <1>1, <1>2, <1>4, <2>2 DEF FirstToApply, Applied
  <2> QED
    BY <2>1, <2>2
<1>5. \/ <<p, j>> \in doubled'
      \/ ~Applied(p, j)' /\ \A f \in Desks \ {d} : desk'[f] # w
  BY <1>1, <1>2 DEF Applied
<1> QED
  BY <1>2, <1>3, <1>4, <1>5 DEF FirstToApply

LEMMA FileKeeps ==
  ASSUME HInv, OneApplication, FirstToApply, NEW d \in Desks, CreateTalentJobApplication(d)
  PROVE  OneApplication' /\ FirstToApply'
<1> USE DEF HInv
<1>1. desk[d] \in Work /\ desk[d].at = "apply"
  BY DEF CreateTalentJobApplication, HiringTypeOK
<1> PICK j \in Jobs, p \in People : j = desk[d].job /\ p = desk[d].person
  BY <1>1, WorkTypes
<1>2. j # Null
  BY HiringAssumption
<1> DEFINE row == [job |-> j, person |-> p, status |-> "new"]
<1> PICK a \in Applications :
      NextRow(a, application) /\ application' = [application EXCEPT ![a] = row]
  BY DEF CreateTalentJobApplication
<1>3. /\ application[a] = Null /\ application'[a] = row /\ doubled' = doubled
      /\ \A b \in Applications \ {a} : application'[b] = application[b]
  BY DEF CreateTalentJobApplication, HiringTypeOK, NextRow, NoHistory
<1>4. desk'[d] = Free /\ \A e \in Desks \ {d} : desk'[e] = desk[e]
  BY DEF CreateTalentJobApplication, Then, Turn, HiringTypeOK
<1>5. \/ <<p, j>> \in doubled
      \/ ~Applied(p, j) /\ \A e \in Desks \ {d} : desk[e] # desk[d]
  BY <1>1 DEF FirstToApply
<1>6. OneApplication'
  BY <1>2, <1>3, <1>5 DEF OneApplication, Applied
<1>7. ASSUME NEW e \in Desks, desk'[e].at = "apply"
      PROVE  \/ <<desk'[e].person, desk'[e].job>> \in doubled'
             \/ /\ ~Applied(desk[e].person, desk[e].job)'
                /\ \A f \in Desks \ {e} : desk'[f] # desk'[e]
  <2>1. e # d /\ desk'[e] = desk[e] /\ desk[e].at = "apply" /\ desk[e] \in Work
    BY <1>4, <1>7 DEF Free, HiringTypeOK
  <2>2. CASE desk[e].person = p /\ desk[e].job = j
    <3>1. desk[e] = desk[d]
      <4>1. \A w \in Work : w.at = "apply" =>
              w = [at |-> "apply", job |-> w.job, person |-> w.person]
        BY DEF Work, Free
      <4> QED
        BY <1>1, <2>1, <2>2, <4>1
    <3> QED
      BY <1>3, <1>5, <2>1, <2>2, <3>1
  <2>3. CASE ~(desk[e].person = p /\ desk[e].job = j)
    <3>1. Applied(desk[e].person, desk[e].job)' => Applied(desk[e].person, desk[e].job)
      BY <1>3, <2>1, <2>3 DEF Applied
    <3>2. \A f \in Desks \ {e} : desk'[f] = desk[e] => desk[f] = desk[e]
      BY <1>4, <2>1 DEF Free
    <3> QED
      BY <1>3, <2>1, <3>1, <3>2 DEF FirstToApply
  <2> QED
    BY <2>2, <2>3
<1> QED
  BY <1>6, <1>7 DEF FirstToApply

\* All other steps file nothing.
LEMMA OthersFileNothing ==
  ASSUME HInv, [HiringNext]_hiringVars,
         \A d \in Desks : ~CreateTalentJobApplication(d),
         \A d \in Desks, j \in Jobs, p \in People : ~CheckApplication(d, j, p)
  PROVE  NothingFiled
<1> USE DEF HInv
<1> DEFINE Same == \A a \in Applications : application'[a] # Null /\ application'[a].job # Null =>
                     /\ application[a] # Null /\ application'[a].job = application[a].job
                     /\ application'[a].person = application[a].person
<1>1. ASSUME NEW d \in Desks, NEW w \in Work, Turn(d, w), w.at # "apply"
      PROVE  \A e \in Desks : desk'[e].at = "apply" => desk'[e] = desk[e]
  BY <1>1, TurnTypes
<1>2. application' = application => Same
  OBVIOUS
<1>3. ASSUME NEW a \in Applications, application[a] \in Application, NEW status,
             application' = [application EXCEPT ![a].status = status]
      PROVE  Same
  <2>1. application[a] # Null
    BY <1>3, NullAssumption
  <2>2. application'[a] = [application[a] EXCEPT !.status = status]
    BY <1>3 DEF HiringTypeOK
  <2>3. application'[a].job = application[a].job /\ application'[a].person = application[a].person
    BY <1>3, <2>2 DEF Application
  <2>4. \A b \in Applications \ {a} : application'[b] = application[b]
    BY <1>3 DEF HiringTypeOK
  <2> QED
    BY <2>1, <2>3, <2>4
<1>4. Free \in Work /\ Free.at # "apply"
  BY DEF Work, Free
<1>5. ASSUME NEW d \in Desks, Finish(d) PROVE NothingFiled
  <2>1. CASE DraftJob(d) \/ CreateTalentJob(d) \/ Break(d)
    BY <1>1, <1>2, <1>4, <2>1 DEF DraftJob, CreateTalentJob, Break, Then, NothingFiled, NoHistory,
       hiringTables
  <2>2. CASE UpdateCompanyCandidateDecision(d)
    <3>1. Same
      <4> PICK a \in Applications : a = desk[d].application /\ application[a] \in Application
        BY <2>2, DecisionTypes
      <4>1. application' = [application EXCEPT ![a].status = desk[d].decision]
        BY <2>2, DecisionWrites
      <4> QED
        BY <1>3, <4>1
    <3> QED
      BY <1>1, <1>4, <2>2, <3>1 DEF UpdateCompanyCandidateDecision, Then, NothingFiled, NoHistory
  <2>3. CASE ReadInvitation(d)
    <3>1. desk[d] \in Work /\ desk[d].at = "invite"
      BY <2>3 DEF ReadInvitation, HiringTypeOK
    <3> PICK a \in Applications : a = desk[d].application
      BY <3>1, WorkTypes
    <3> DEFINE w == [at |-> "save", application |-> a, seen |-> invitation[a]]
    <3>2. w \in Work /\ w.at # "apply"
      BY DEF Work, HiringTypeOK
    <3>3. Then(d, w) \/ Then(d, Free)
      BY <2>3 DEF ReadInvitation
    <3>4. UNCHANGED <<application, doubled>>
      BY <2>3 DEF ReadInvitation, NoHistory, hiringTables
    <3> QED
      BY <1>1, <1>2, <1>4, <3>2, <3>3, <3>4 DEF Then, NothingFiled
  <2>4. CASE SaveInvitation(d)
    <3>1. desk[d] \in Work /\ desk[d].at = "save"
      BY <2>4 DEF SaveInvitation, HiringTypeOK
    <3> PICK a \in Applications : a = desk[d].application
      BY <3>1, WorkTypes
    <3> DEFINE w == [at |-> "mail", application |-> a]
    <3>2. w \in Work /\ w.at # "apply"
      BY DEF Work
    <3>3. Turn(d, w) \/ Turn(d, Free)
      BY <2>4 DEF SaveInvitation, Then
    <3>4. UNCHANGED <<application, doubled>>
      BY <2>4 DEF SaveInvitation
    <3> QED
      BY <1>1, <1>2, <1>4, <3>2, <3>3, <3>4 DEF NothingFiled
  <2>5. CASE NoteSent(d)
    BY <1>1, <1>2, <1>4, <2>5 DEF NoteSent, Then, NothingFiled, NoHistory
  <2> QED
    BY <1>5, <2>1, <2>2, <2>3, <2>4, <2>5 DEF Finish
<1>6. ASSUME NEW d \in Desks, NEW i \in Inquiries, AboutInquiry(d, i) PROVE NothingFiled
  <2>1. UNCHANGED <<application, doubled>>
    BY <1>6 DEF AboutInquiry, CreateHiringInquiry, UpdateHiringInquiry, DraftInquiry,
       CheckInquiry, hiringTables, NoHistory
  <2>2. ASSUME NEW found \in Jobs \cup {Null}
        PROVE  [at |-> "draft", inquiry |-> i, found |-> found] \in Work
    BY DEF Work
  <2>3. [at |-> "create", inquiry |-> i] \in Work
    BY DEF Work
  <2>4. JobsOf(i) \subseteq Jobs
    BY DEF JobsOf
  <2>5. \A e \in Desks : desk'[e].at = "apply" => desk'[e] = desk[e]
    BY <1>1, <1>6, <2>2, <2>3, <2>4 DEF AboutInquiry, CreateHiringInquiry, UpdateHiringInquiry,
       DraftInquiry, CheckInquiry
  <2> QED
    BY <1>2, <2>1, <2>5 DEF NothingFiled
<1>7. ASSUME NEW d \in Desks, NEW j \in Jobs, AboutJob(d, j) PROVE NothingFiled
  BY <1>2, <1>7 DEF AboutJob, CreateOwnJob, UpdateTalentJob, DeleteTalentJob, NoHistory,
     NothingFiled
<1>8. ASSUME NEW d \in Desks, NEW a \in Applications, AboutApplication(d, a) PROVE NothingFiled
  <2>1. ASSUME NEW p \in People, CreateTalentPlusApplication(d, a, p) PROVE NothingFiled
    BY <2>1 DEF CreateTalentPlusApplication, HiringTypeOK, NoHistory, NothingFiled
  <2>2. ASSUME NEW status \in {"new", "proposed"}, updateJobApplicationStatus(d, a, status)
        PROVE  NothingFiled
    <3>1. Same
      BY <1>3, <2>2, RowTypes DEF updateJobApplicationStatus, OfJob
    <3> QED
      BY <2>2, <3>1 DEF updateJobApplicationStatus, NoHistory, NothingFiled
  <2>3. CASE MoveLead(d, a)
    <3>1. Same
      BY <1>3, <2>3, RowTypes DEF MoveLead
    <3> QED
      BY <2>3, <3>1 DEF MoveLead, NoHistory, NothingFiled
  <2>4. \A force \in BOOLEAN : LET w == [at |-> "invite", application |-> a, force |-> force] IN
          w \in Work /\ w.at # "apply"
    BY DEF Work
  <2>5. CASE PlaceTalent(d, a)
    <3>1. Same
      BY <1>3, <2>5, RowTypes DEF PlaceTalent, IsPlus
    <3> QED
      BY <1>1, <2>4, <2>5, <3>1 DEF PlaceTalent, NoHistory, NothingFiled
  <2>6. CASE ForceInvitation(d, a)
    BY <1>1, <1>2, <2>4, <2>6 DEF ForceInvitation, NoHistory, NothingFiled, hiringTables
  <2>7. ASSUME NEW decision \in {"interview", "declined", "hired"}, Decide(d, a, decision)
        PROVE  NothingFiled
    <3>1. UNCHANGED <<application, doubled>> /\ Turn(d, Deciding(a, decision))
      BY <2>7 DEF Decide, hiringTables, NoHistory
    <3>2. Deciding(a, decision) \in Work /\ Deciding(a, decision).at # "apply"
      BY DEF Work, Deciding, Hired, CandidateStatuses
    <3> QED
      BY <1>1, <1>2, <3>1, <3>2 DEF NothingFiled
  <2>8. ASSUME NEW token \in 1 .. MaxInvitations, SubmitTalentReview(d, a, token)
        PROVE  NothingFiled
    BY <1>2, <2>8 DEF SubmitTalentReview, NoHistory, NothingFiled
  <2> QED
    BY <1>8, <2>1, <2>2, <2>3, <2>5, <2>6, <2>7, <2>8 DEF AboutApplication
<1>9. CASE UNCHANGED hiringVars
  BY <1>2, <1>9 DEF hiringVars, hiringTables, NothingFiled
<1> QED
  BY <1>5, <1>6, <1>7, <1>8, <1>9 DEF HiringNext

\* What a save writes is an invitation.
LEMMA SavedRow ==
  ASSUME HInv, NEW d \in Desks, SaveInvitation(d), NEW used \in BOOLEAN
  PROVE  LET row == [token |-> tokens + 1, sent |-> FALSE, used |-> used] IN
         row \in Invitation /\ row # Null
<1>1. tokens + 1 \in 1 .. MaxInvitations
  BY HiringAssumption DEF SaveInvitation, HInv, HiringTypeOK
<1>2. ASSUME NEW t \in 1 .. MaxInvitations
      PROVE  [token |-> t, sent |-> FALSE, used |-> used] \in Invitation
  BY DEF Invitation
<1>3. [token |-> tokens + 1, sent |-> FALSE, used |-> used] \in Invitation
  BY ONLY <1>1, <1>2, Zenon
<1> QED
  BY <1>3, NullAssumption

\* A step that writes no invitation and no review.
LEMMA NoReview ==
  ASSUME UsedUp, UNCHANGED <<reviews, invitation, reopened>>
  PROVE  UsedUp'
BY DEF UsedUp

LEMMA UsedUpKept ==
  ASSUME HInv, UsedUp, [HiringNext]_hiringVars
  PROVE  UsedUp'
<1> USE DEF HInv
<1>1. ASSUME NEW d \in Desks, SaveInvitation(d) PROVE UsedUp'
  <2>1. desk[d] \in Work /\ desk[d].at = "save"
    BY <1>1 DEF SaveInvitation, HiringTypeOK
  <2> PICK a \in Applications : a = desk[d].application
    BY <2>1, WorkTypes
  <2>2. desk[d].seen \in Invitation \cup {Null}
    BY <2>1, WorkTypes
  <2> PICK used \in BOOLEAN : used = (desk[d].seen # Null /\ desk[d].seen.used)
    BY <2>2 DEF Invitation
  <2> DEFINE row == [token |-> tokens + 1, sent |-> FALSE, used |-> used]
  <2>3. CASE UNCHANGED <<invitation, reopened>>
    BY <1>1, <2>3, NoReview DEF SaveInvitation
  <2>4. CASE /\ invitation' = [invitation EXCEPT ![a] = row]
             /\ reopened' = IF invitation[a] # Null /\ invitation[a].used # used
                            THEN reopened \union {a} ELSE reopened
    <3>1. row # Null
      BY <1>1, SavedRow
    <3> QED
      BY <1>1, <2>4, <3>1 DEF UsedUp, SaveInvitation, HiringTypeOK
  <2> QED
    BY <1>1, <2>3, <2>4 DEF SaveInvitation
<1>2. ASSUME NEW d \in Desks, NoteSent(d) PROVE UsedUp'
  <2>1. desk[d] \in Work /\ desk[d].at = "mail"
    BY <1>2 DEF NoteSent, HiringTypeOK
  <2> PICK a \in Applications : a = desk[d].application
    BY <2>1, WorkTypes
  <2>2. invitation[a] \in Invitation
    BY <2>1, RowTypes DEF Promise
  <2>3. invitation'[a] = [invitation[a] EXCEPT !.sent = TRUE]
    BY <1>2 DEF NoteSent, HiringTypeOK
  <2>4. [invitation[a] EXCEPT !.sent = TRUE] \in Invitation
    BY <2>2 DEF Invitation
  <2>5. invitation'[a] # Null /\ invitation'[a].used = invitation[a].used
    BY <2>2, <2>3, <2>4, NullAssumption DEF Invitation
  <2>6. \A b \in Applications \ {a} : invitation'[b] = invitation[b]
    BY <1>2 DEF NoteSent, HiringTypeOK
  <2>7. UNCHANGED <<reviews, reopened>>
    BY <1>2 DEF NoteSent, NoHistory
  <2> QED
    BY <2>5, <2>6, <2>7 DEF UsedUp
<1>3. ASSUME NEW d \in Desks, NEW a \in Applications, NEW token \in 1 .. MaxInvitations,
             SubmitTalentReview(d, a, token)
      PROVE  UsedUp'
  <2>1. invitation[a] \in Invitation /\ ~invitation[a].used
    BY <1>3, RowTypes DEF SubmitTalentReview
  <2>2. invitation'[a] = [invitation[a] EXCEPT !.used = TRUE]
    BY <1>3 DEF SubmitTalentReview, HiringTypeOK
  <2>3. [invitation[a] EXCEPT !.used = TRUE] \in Invitation
    BY <2>1 DEF Invitation
  <2>4. invitation'[a] # Null /\ invitation'[a].used
    BY <2>1, <2>2, <2>3, NullAssumption DEF Invitation
  <2>5. \A b \in Applications \ {a} : invitation'[b] = invitation[b] /\ reviews'[b] = reviews[b]
    BY <1>3 DEF SubmitTalentReview, HiringTypeOK
  <2>6. reopened' = reopened /\ reviews'[a] = reviews[a] + 1
    BY <1>3 DEF SubmitTalentReview, NoHistory, HiringTypeOK
  <2>7. a \in reopened \/ reviews[a] = 0
    BY <2>1 DEF UsedUp
  <2> QED
    BY <2>4, <2>5, <2>6, <2>7 DEF UsedUp
<1>4. ASSUME NEW d \in Desks, Finish(d) PROVE UsedUp'
  BY <1>1, <1>2, <1>4, NoReview DEF Finish, DraftJob, CreateTalentJob,
     CreateTalentJobApplication, UpdateCompanyCandidateDecision, Break, ReadInvitation,
     hiringTables, NoHistory
<1>5. ASSUME NEW d \in Desks, NEW i \in Inquiries, AboutInquiry(d, i) PROVE UsedUp'
  BY <1>5, NoReview DEF AboutInquiry, CreateHiringInquiry, UpdateHiringInquiry, DraftInquiry,
     CheckInquiry, hiringTables, NoHistory
<1>6. ASSUME NEW d \in Desks, NEW j \in Jobs, AboutJob(d, j) PROVE UsedUp'
  BY <1>6, NoReview DEF AboutJob, CreateOwnJob, UpdateTalentJob, DeleteTalentJob,
     CheckApplication, hiringTables, NoHistory
<1>7. ASSUME NEW d \in Desks, NEW a \in Applications, AboutApplication(d, a) PROVE UsedUp'
  BY <1>3, <1>7, NoReview DEF AboutApplication, CreateTalentPlusApplication,
     updateJobApplicationStatus, MoveLead, PlaceTalent, ForceInvitation, Decide,
     hiringTables, NoHistory
<1>8. CASE UNCHANGED hiringVars
  BY <1>8, NoReview DEF hiringVars, hiringTables
<1> QED
  BY <1>4, <1>5, <1>6, <1>7, <1>8 DEF HiringNext

\* A person applies once for a job and reviews the programme once for an
\* application, unless requests overlap the way OnceEach names.
THEOREM AppliesAndReviewsOnce == HiringSpec => []OnceEach
<1> DEFINE I == OneApplication /\ FirstToApply /\ UsedUp
<1>1. HiringInit => I
  <2> SUFFICES ASSUME HiringInit PROVE I
    OBVIOUS
  <2> PICK pool \in StartPools : application = pool.application
    BY DEF HiringInit
  <2>1. OneApplication
    BY StartPoolsAssumption DEF OneApplication
  <2>2. FirstToApply /\ UsedUp
    BY DEF HiringInit, FirstToApply, UsedUp, Free
  <2> QED
    BY <2>1, <2>2
<1>2. HInv /\ I /\ [HiringNext]_hiringVars => I'
  <2> SUFFICES ASSUME HInv, I, [HiringNext]_hiringVars PROVE I'
    OBVIOUS
  <2>1. OneApplication' /\ FirstToApply'
    BY CheckKeeps, FileKeeps, OthersFileNothing, NothingFiledKeeps
  <2> QED
    BY <2>1, UsedUpKept
<1>3. HInv /\ I => OnceEach
  <2> SUFFICES ASSUME HInv, I PROVE OnceEach
    OBVIOUS
  <2>1. \A a \in Applications : reviews[a] <= 1 \/ a \in reopened
    BY DEF UsedUp
  <2> QED
    BY <2>1 DEF OnceEach, OneApplication
<1> QED
  BY AlwaysHInv, <1>1, <1>2, <1>3, PTL DEF HiringSpec
===============================================================================

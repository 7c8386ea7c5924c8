------------------------------- MODULE JobQueue -------------------------------
(***************************************************************************)
(* The job queue of secure-peer-onnx-kit/src/queue/job-queue.js, with the  *)
(* null ledger its constructor defaults to.  Every operation runs without  *)
(* a suspension, so each is one action; the order in which peers call them *)
(* is free.  Calls that are refused (an unknown or expired job, a claim    *)
(* against an active one, a request validateJobRequest throws on) change   *)
(* nothing and are stuttering steps.  Time is counted in ticks; one call   *)
(* reads the clock once.                                                   *)
(***************************************************************************)
EXTENDS Clock

CONSTANTS
    JobIds, Workers, Models,
    Results,        \* what complete() may be handed
    Timeouts,       \* job.timeoutMs values
    Leases,         \* job.claimLeaseMs values
    Retries,        \* job.maxRetries values
    Attempts,       \* job.attempts values that a request may come with
    NoJob, NoClaim, NoResult

VARIABLES
    jobs,           \* this.jobs:   jobId -> job, or NoJob
    claims,         \* this.claims: jobId -> claim, or NoClaim
    enqueued        \* history: jobId -> the job as it was enqueued last

queueVars == <<clock, jobs, claims, enqueued>>

Statuses == {"created", "claimed", "requeued", "failed", "completed"}

Job == [modelId: Models, expiresAt: Nat, claimLeaseMs: Nat, maxRetries: Nat,
        status: Statuses, attempts: Nat, result: Results \cup {NoResult}]

Claim == [workerIdentity: Workers, claimedAt: Nat, expiresAt: Nat]

(* What a request may bring with it: the caller's object is spread into the  *)
(* job, and may be a copy of one that the queue returned earlier.  A new     *)
(* request is "created", with no attempts and no result.                     *)
Given == [status: Statuses, attempts: Attempts, result: Results \cup {NoResult}]

ASSUME ParameterAssumption ==
    /\ Timeouts \subseteq Nat /\ Leases \subseteq Nat /\ Retries \subseteq Nat
    /\ Attempts \subseteq Nat
ASSUME AbsentAssumption ==
    NoJob \notin Job /\ NoClaim \notin Claim /\ NoClaim \notin [owner: Workers, until: Nat]

Known(j) == jobs[j] # NoJob
(* A definition with "Mutant:" in its comment is not the code's: it is the   *)
(* next definition with a bug put in, for checking that a property sees it.  *)

(* Mutant: a lease ends one instant early. *)
ExpiredAtEnd(c) == c.expiresAt <= clock

Expired(c) == c.expiresAt < clock

-------------------------------------------------------------------------------
QueueInit ==
    /\ clock = 0
    /\ jobs = [j \in JobIds |-> NoJob]
    /\ claims = [j \in JobIds |-> NoClaim]
    /\ enqueued = jobs

QueueTick ==
    /\ clock < MaxClock
    /\ clock' = clock + 1
    /\ UNCHANGED <<jobs, claims, enqueued>>

(* validateJobRequest bounds the lease by the timeout. *)
validRequest(timeout, lease) == lease <= timeout

(* A job under a known id is replaced; a claim on it stays.  Status,         *)
(* attempts and result are the caller's.                                     *)
enqueue(j, given, model, timeout, lease, retries) ==
    /\ validRequest(timeout, lease)
    /\ jobs' = [jobs EXCEPT ![j] =
         [modelId |-> model, expiresAt |-> clock + timeout, claimLeaseMs |-> lease,
          maxRetries |-> retries, status |-> given.status, attempts |-> given.attempts,
          result |-> given.result]]
    /\ enqueued' = [enqueued EXCEPT ![j] = jobs'[j]]
    /\ UNCHANGED <<clock, claims>>

activeClaim(j) == claims[j] # NoClaim /\ ~Expired(claims[j])

(* The job's status is not consulted: whatever it was, it becomes claimed. *)
claim(j, w) ==
    /\ Known(j)
    /\ ~Expired(jobs[j])
    /\ ~activeClaim(j)
    /\ claims' = [claims EXCEPT ![j] =
         [workerIdentity |-> w, claimedAt |-> clock, expiresAt |-> clock + jobs[j].claimLeaseMs]]
    /\ jobs' = [jobs EXCEPT ![j].status = "claimed"]
    /\ UNCHANGED <<clock, enqueued>>

lapsed == {j \in JobIds : claims[j] # NoClaim /\ Expired(claims[j])}

(* Mutant: one retry too many. *)
afterLapseOnceMore(job) ==
    IF job.attempts <= job.maxRetries
      THEN [job EXCEPT !.status = "requeued", !.attempts = @ + 1]
      ELSE [job EXCEPT !.status = "failed"]

(* A job whose lease has run out goes back to the queue while it has        *)
(* retries left, and fails for good after that.                             *)
afterLapse(job) ==
    IF job.attempts < job.maxRetries
      THEN [job EXCEPT !.status = "requeued", !.attempts = @ + 1]
      ELSE [job EXCEPT !.status = "failed"]

(* The loop over this.claims: the iterations touch different jobs. *)
reapExpiredClaims ==
    /\ claims' = [j \in JobIds |-> IF j \in lapsed THEN NoClaim ELSE claims[j]]
    /\ jobs' = [j \in JobIds |-> IF j \in lapsed /\ Known(j) THEN afterLapse(jobs[j]) ELSE jobs[j]]
    /\ UNCHANGED <<clock, enqueued>>

(* Mutant: the claim stays. *)
completeKeepsClaim(j, r) ==
    /\ Known(j)
    /\ jobs' = [jobs EXCEPT ![j].status = "completed", ![j].result = r]
    /\ UNCHANGED <<clock, claims, enqueued>>

complete(j, r) ==
    /\ Known(j)
    /\ jobs' = [jobs EXCEPT ![j].status = "completed", ![j].result = r]
    /\ claims' = [claims EXCEPT ![j] = NoClaim]
    /\ UNCHANGED <<clock, enqueued>>

QueueNext ==
    \/ QueueTick
    \/ \E j \in JobIds, given \in Given, m \in Models, t \in Timeouts, l \in Leases, n \in Retries :
          enqueue(j, given, m, t, l, n)
    \/ \E j \in JobIds, w \in Workers : claim(j, w)
    \/ reapExpiredClaims
    \/ \E j \in JobIds, r \in Results : complete(j, r)

QueueSpec == QueueInit /\ [][QueueNext]_queueVars

-------------------------------------------------------------------------------
(* The two maps hold what the class puts into them. *)
QueueTypeOK ==
    /\ clock \in 0..MaxClock
    /\ jobs \in [JobIds -> Job \cup {NoJob}]
    /\ claims \in [JobIds -> Claim \cup {NoClaim}]
    /\ enqueued \in [JobIds -> Job \cup {NoJob}]

(* Nothing was done with the job since it was enqueued. *)
Untouched(j) == jobs[j] = enqueued[j]

(* The status of a job and the claims map tell the same story, whatever      *)
(* status a job comes with: one that was claimed since it was enqueued has a *)
(* claim as long as it is "claimed", so the reaper will find it; a claim is  *)
(* for a known job which is claimed, or was enqueued again under its         *)
(* holder's feet.  Only a job that came as "claimed", and was not touched    *)
(* since, is claimed by nobody.                                              *)
StatusMatchesClaim ==
    \A j \in JobIds :
        /\ Known(j) /\ jobs[j].status = "claimed" /\ claims[j] = NoClaim => Untouched(j)
        /\ claims[j] # NoClaim => Known(j) /\ (jobs[j].status = "claimed" \/ Untouched(j))

(* Abandonment costs at most the retries that were left when the job was     *)
(* enqueued, and it fails only when none is: attempts that a copy brings     *)
(* with it are not forgiven, and no lapse is counted twice.                  *)
RetryBudget ==
    \A j \in JobIds : Known(j) =>
        /\ jobs[j].attempts >= enqueued[j].attempts
        /\ jobs[j].attempts > enqueued[j].attempts => jobs[j].attempts <= jobs[j].maxRetries
        /\ jobs[j].status = "failed" => Untouched(j) \/ jobs[j].attempts >= jobs[j].maxRetries

(* Refinement: the claims map is a lease table.  A claim that is in force is *)
(* neither handed to another worker nor reaped: claim() and the reaper agree *)
(* on the instant at which a lease ends.  It ends early only by complete().  *)
LeaseOf(c) == [owner |-> c.workerIdentity, until |-> c.expiresAt]
LeaseMap == [j \in JobIds |-> IF claims[j] = NoClaim THEN NoClaim ELSE LeaseOf(claims[j])]

Table == INSTANCE LeaseTable WITH
    Keys <- JobIds, Owners <- Workers, NoLease <- NoClaim, now <- clock, lease <- LeaseMap

ImplementsLeaseTable == Table!Spec
===============================================================================

-------------------------- MODULE SecurePeerOnnxMesh --------------------------
(***************************************************************************)
(* The mesh of secure-peer-onnx-kit/src/mesh.js: the job queue, the set of *)
(* output hashes already seen, and the ledger each operation appends to    *)
(* after it has changed the queue.  The operation is suspended in that     *)
(* append while others run: c is the call that waits for it.               *)
(***************************************************************************)
EXTENDS Clock, Sequences, FiniteSets

CONSTANTS
    JobIds, Workers, Models, OutputHashes,
    Timeouts, Leases, Retries, Attempts,
    Copies,             \* what a request may bring with it, of Queue!Given
    NoJob, NoClaim, NoResult,
    Callers, Idle,      \* calls suspended in ledger.append()
    Digest(_),
    Request, Refusal,   \* ledger payloads whose content no property reads
    MaxAppends

VARIABLES
    jobs, claims, enqueued,
    seenOutputHashes,   \* this.seenOutputHashes
    pending, events, subjectIndex, rejectedEvents, conflicts

queueVars == <<jobs, claims, enqueued>>
ledgerVars == <<pending, events, subjectIndex, rejectedEvents, conflicts>>
vars == <<clock, queueVars, seenOutputHashes, ledgerVars>>

(* A result of the right shape; inputHash and modelHash are compared with   *)
(* nothing, and latency and provider are only checked to be there.          *)
Result == [jobId: JobIds, modelId: Models, outputHash: OutputHashes, workerIdentity: Workers]

Queue == INSTANCE JobQueue WITH Results <- Result

EventTypes == {"job.requested", "job.claimed", "job.verified", "job.result.rejected"}
phaseOf(type) ==
    CASE type = "job.requested" -> "requested"
      [] type = "job.claimed" -> "claimed"
      [] type = "job.verified" -> "verified"
      [] type = "job.result.rejected" -> "rejected"

Ledger == INSTANCE AppendLedger WITH
    Subjects <- JobIds, Types <- EventTypes, PhaseOf <- phaseOf, Terms <- {0},
    Payloads <- Workers \cup Result \cup {Request, Refusal}

(* What the mesh appends: the payload each type of event has. *)
payloadOf(type, j) ==
    CASE type = "job.requested" -> {Request}
      [] type = "job.claimed" -> Workers
      [] type = "job.verified" -> {r \in Result : r.jobId = j}
      [] type = "job.result.rejected" -> {Refusal}

MeshEvent == {e \in Ledger!Event : e.payload \in payloadOf(e.type, e.subjectId)}

ASSUME MeshAssumption ==
    /\ MaxAppends \in Nat /\ IsFiniteSet(Callers)
    /\ Timeouts \subseteq Nat /\ Leases \subseteq Nat /\ Retries \subseteq Nat
    /\ Attempts \subseteq Nat /\ Copies \subseteq Queue!Given
    /\ NoJob \notin Queue!Job /\ NoClaim \notin Queue!Claim /\ Idle \notin Ledger!Event
ASSUME MeshDigestAssumption ==
    \A e, f \in MeshEvent : Digest(e) = Digest(f) => e = f

-------------------------------------------------------------------------------
Init ==
    /\ Queue!QueueInit
    /\ Ledger!Init
    /\ seenOutputHashes = {}

Tick == Queue!QueueTick /\ UNCHANGED <<seenOutputHashes, ledgerVars>>

(* queue.enqueue, then the append of 'job.requested'. *)
enqueue(c, j, given, model, timeout, lease, retries) ==
    /\ Queue!enqueue(j, given, model, timeout, lease, retries)
    /\ Ledger!Begin(c, "job.requested", j, 0, Request)
    /\ UNCHANGED seenOutputHashes

(* queue.claim, then the append of 'job.claimed'. *)
claim(c, j, w) ==
    /\ Queue!claim(j, w)
    /\ Ledger!Begin(c, "job.claimed", j, 0, w)
    /\ UNCHANGED seenOutputHashes

reapExpiredClaims ==
    /\ Queue!reapExpiredClaims
    /\ UNCHANGED <<seenOutputHashes, ledgerVars>>

(* Mutants: the worker is not compared; the hash is not. *)
validateAnyWorker(r, wellFormed) ==
    /\ wellFormed
    /\ Queue!Known(r.jobId) => jobs[r.jobId].modelId = r.modelId
    /\ r.outputHash \notin seenOutputHashes

validateAnyHash(r, wellFormed) ==
    /\ wellFormed
    /\ Queue!Known(r.jobId) => jobs[r.jobId].modelId = r.modelId
    /\ claims[r.jobId] # NoClaim => claims[r.jobId].workerIdentity = r.workerIdentity

(* Every comparison is made only when there is something to compare with:   *)
(* an unknown job has any model, and without a claim anyone is the holder.  *)
validateJobResult(r, wellFormed) ==
    /\ wellFormed
    /\ Queue!Known(r.jobId) => jobs[r.jobId].modelId = r.modelId
    /\ claims[r.jobId] # NoClaim => claims[r.jobId].workerIdentity = r.workerIdentity
    /\ r.outputHash \notin seenOutputHashes

refuse(c, r) ==
    /\ Ledger!Begin(c, "job.result.rejected", r.jobId, 0, Refusal)
    /\ UNCHANGED <<clock, queueVars>>

(* Mutant: the result is remembered in place of its hash, and only if the    *)
(* job is known.                                                             *)
acceptRemembersResult(c, r, wellFormed) ==
    /\ validateJobResult(r, wellFormed)
    /\ seenOutputHashes' = seenOutputHashes \cup {r}
    /\ Queue!complete(r.jobId, r)
    /\ Ledger!Begin(c, "job.verified", r.jobId, 0, r)

(* acceptResult(): the hash is spent before queue.complete(), which throws  *)
(* for an unknown job and sends the call to the catch block.                *)
acceptResult(c, r, wellFormed) ==
    \/ /\ ~validateJobResult(r, wellFormed)
       /\ refuse(c, r)
       /\ UNCHANGED seenOutputHashes
    \/ /\ validateJobResult(r, wellFormed)
       /\ seenOutputHashes' = seenOutputHashes \cup {r.outputHash}
       /\ \/ /\ Queue!complete(r.jobId, r)
             /\ Ledger!Begin(c, "job.verified", r.jobId, 0, r)
          \/ /\ ~Queue!Known(r.jobId)
             /\ refuse(c, r)

(* The append of a suspended call finishes, and the call returns. *)
appended(c) ==
    /\ Ledger!Finish(c)
    /\ UNCHANGED <<queueVars, seenOutputHashes>>

Next ==
    \/ Tick
    \/ \E c \in Callers, j \in JobIds, given \in Copies, m \in Models,
          t \in Timeouts, l \in Leases, n \in Retries :
          enqueue(c, j, given, m, t, l, n)
    \/ \E c \in Callers, j \in JobIds, w \in Workers : claim(c, j, w)
    \/ reapExpiredClaims
    \/ \E c \in Callers, r \in Result, wellFormed \in BOOLEAN : acceptResult(c, r, wellFormed)
    \/ \E c \in Callers : appended(c)

Spec == Init /\ [][Next]_vars

-------------------------------------------------------------------------------
(* The verdicts the ledger has, or is about to have. *)
Verdicts ==
    {e \in events \cup rejectedEvents \cup {pending[c] : c \in Ledger!InFlight} :
        e.type = "job.verified"}

(* The queue, the hashes and the ledger keep their shapes. *)
TypeOK ==
    /\ Queue!QueueTypeOK
    /\ Ledger!TypeOK
    /\ seenOutputHashes \subseteq OutputHashes

(* A worker that holds a claim keeps it until its time is up or its own      *)
(* result is accepted: no other worker's result, claim or re-enqueued job    *)
(* takes the work away from it.                                              *)
HolderKeepsClaim ==
    [][\A j \in JobIds :
         Queue!activeClaim(j) /\ claims'[j] # claims[j] =>
            /\ jobs'[j].status = "completed"
            /\ jobs'[j].result.workerIdentity = claims[j].workerIdentity]_vars

(* A result was accepted for the job since it was enqueued: it is not the    *)
(* one that the request brought with it, which nobody validated.             *)
OwnResult(j) == Queue!Known(j) /\ jobs[j].result \notin {NoResult, enqueued[j].result}

(* An output is accepted once: no two jobs have got the same one, and no     *)
(* output that a job has got can be accepted again, for any job.             *)
OutputsDistinct ==
    \A i, j \in JobIds :
        OwnResult(i) =>
            /\ jobs[i].result.outputHash \in seenOutputHashes
            /\ OwnResult(j) /\ i # j =>
                 jobs[i].result.outputHash # jobs[j].result.outputHash

(* The ledger has a verdict for every job that has got a result, and it is   *)
(* the result the queue holds, whatever became of the job since;             *)
(* every verdict is about an output that was accepted, and no                *)
(* two verdicts are about the same one.  The verdict that survives           *)
(* reconciliation need not be the one the queue holds: a job that is         *)
(* completed, claimed and completed again keeps its first in the ledger.     *)
VerdictsMatchQueue ==
    /\ \A j \in JobIds : OwnResult(j) =>
          \E e \in Verdicts : e.subjectId = j /\ e.payload = jobs[j].result
    /\ \A e, f \in Verdicts :
          /\ e.payload.outputHash \in seenOutputHashes
          /\ e.payload.outputHash = f.payload.outputHash => e = f

(* "mesh validates active claim before accepting result"                     *)
(* (tests/job-result.test.js:5): a result completes a job only while its     *)
(* worker holds a claim in force on it.                                      *)
AcceptedUnderActiveClaim ==
    [][\A j \in JobIds :
         seenOutputHashes' # seenOutputHashes /\ jobs'[j] # jobs[j] =>
            /\ Queue!activeClaim(j)
            /\ claims[j].workerIdentity = jobs'[j].result.workerIdentity]_vars
===============================================================================

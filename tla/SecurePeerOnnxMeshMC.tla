------------------------ MODULE SecurePeerOnnxMeshMC --------------------------
(* Two jobs, two workers and two outputs of one model, and two operations    *)
(* suspended in the ledger at a time.                                        *)
EXTENDS SecurePeerOnnxMesh, TLC

(* An injective digest: type, job, worker, output, seq and time as digits,   *)
(* each of a set of at most two members but the last two.                    *)
MCBit(x, S) == IF x = (CHOOSE y \in S : TRUE) THEN 0 ELSE 1
MCPayloadCode(e) ==
    CASE e.type = "job.verified" -> MCBit(e.payload.workerIdentity, Workers)
                                    + 2 * MCBit(e.payload.outputHash, OutputHashes)
      [] e.type = "job.claimed" -> MCBit(e.payload, Workers)
      [] OTHER -> 0
MCTypeCode == [t \in EventTypes |->
    CASE t = "job.requested" -> 0 [] t = "job.claimed" -> 1 [] t = "job.verified" -> 2 [] OTHER -> 3]
MCDigest(e) ==
    MCTypeCode[e.type] + 4 * (MCPayloadCode(e) + 4 * (MCBit(e.subjectId, JobIds)
        + 2 * ((8 - e.seq) + 8 * e.signedAt)))

(* A new request, and a copy of a job that the first worker completed.       *)
MCCopies ==
    {[status |-> "created", attempts |-> 0, result |-> NoResult]} \cup
    {[status |-> "completed", attempts |-> 0, result |-> r] :
        r \in {r \in Result : MCBit(r.jobId, JobIds) + MCBit(r.workerIdentity, Workers)
                                + MCBit(r.outputHash, OutputHashes) = 0}}

(* The suspended calls are interchangeable. *)
CallerSymmetry == Permutations(Callers)
===============================================================================

----------------------- MODULE SecurePeerOnnxMeshProofs -----------------------
(***************************************************************************)
(* The mesh for any jobs, workers, models, outputs, times and any number   *)
(* of calls suspended in the ledger.                                       *)
(***************************************************************************)
EXTENDS SecurePeerOnnxMesh, FiniteSetTheorems, TLAPS

(* Every event that was appended or is being appended. *)
AppendedEvents == events \cup rejectedEvents \cup {pending[c] : c \in Ledger!InFlight}

(* The two stores of the ledger agree, and its calls are counted. *)
LedgerInv ==
    /\ Ledger!TypeOK
    /\ AppendedEvents \subseteq MeshEvent
    /\ Ledger!IndexMatchesEvents
    /\ IsFiniteSet(events)

MeshInv ==
    /\ Queue!QueueTypeOK /\ LedgerInv
    /\ seenOutputHashes \subseteq OutputHashes
    /\ OutputsDistinct /\ VerdictsMatchQueue

-------------------------------------------------------------------------------
(* What each operation of the queue does to its two maps. *)
LEMMA JobFields ==
    ASSUME Queue!QueueTypeOK, NEW j \in JobIds, Queue!Known(j)
    PROVE  /\ jobs[j] \in Queue!Job
           /\ jobs[j].attempts \in Nat /\ jobs[j].maxRetries \in Nat
           /\ jobs[j].claimLeaseMs \in Nat
BY DEF Queue!QueueTypeOK, Queue!Known, Queue!Job

LEMMA QueueEnqueue ==
    ASSUME Queue!QueueTypeOK, NEW j \in JobIds, NEW given \in Copies, NEW m \in Models,
           NEW t \in Timeouts, NEW l \in Leases, NEW n \in Retries,
           Queue!enqueue(j, given, m, t, l, n)
    PROVE  /\ Queue!QueueTypeOK' /\ claims' = claims /\ clock' = clock
           /\ jobs'[j] = enqueued'[j]
           /\ \A k \in JobIds : k # j => jobs'[k] = jobs[k] /\ enqueued'[k] = enqueued[k]
<1> DEFINE new == [modelId |-> m, expiresAt |-> clock + t, claimLeaseMs |-> l, maxRetries |-> n,
                   status |-> given.status, attempts |-> given.attempts,
                   result |-> given.result]
<1>1. clock \in Nat /\ t \in Nat /\ l \in Nat /\ n \in Nat
  BY MeshAssumption, ClockAssumption DEF Queue!QueueTypeOK
<1>2. /\ given.status \in Queue!Statuses /\ given.attempts \in Nat
      /\ given.result \in Result \cup {NoResult}
  <2>1. given \in Queue!Given
    BY MeshAssumption
  <2>2. given.attempts \in Attempts /\ given.status \in Queue!Statuses
    BY <2>1 DEF Queue!Given
  <2>3. given.result \in Result \cup {NoResult}
    BY <2>1 DEF Queue!Given
  <2>4. QED
    BY <2>2, <2>3, MeshAssumption
<1>3. new \in Queue!Job
  BY <1>1, <1>2 DEF Queue!Job
<1>4. /\ jobs' = [jobs EXCEPT ![j] = new] /\ claims' = claims /\ clock' = clock
      /\ enqueued' = [enqueued EXCEPT ![j] = jobs'[j]]
      /\ jobs \in [JobIds -> Queue!Job \cup {NoJob}]
      /\ enqueued \in [JobIds -> Queue!Job \cup {NoJob}]
  BY DEF Queue!enqueue, Queue!QueueTypeOK
<1>5. Queue!QueueTypeOK'
  BY <1>3, <1>4 DEF Queue!QueueTypeOK
<1>6. jobs'[j] = enqueued'[j]
  BY <1>4
<1>7. \A k \in JobIds : k # j => jobs'[k] = jobs[k] /\ enqueued'[k] = enqueued[k]
  BY <1>4
<1>8. QED
  BY <1>4, <1>5, <1>6, <1>7

LEMMA QueueClaim ==
    ASSUME Queue!QueueTypeOK, NEW j \in JobIds, NEW w \in Workers, Queue!claim(j, w)
    PROVE  /\ Queue!QueueTypeOK' /\ clock' = clock /\ enqueued' = enqueued
           /\ Queue!Known(j) /\ ~Queue!activeClaim(j)
           /\ jobs'[j].status = "claimed" /\ jobs'[j].result = jobs[j].result
           /\ \A k \in JobIds : k # j => jobs'[k] = jobs[k] /\ claims'[k] = claims[k]
<1> DEFINE new == [workerIdentity |-> w, claimedAt |-> clock,
                   expiresAt |-> clock + jobs[j].claimLeaseMs]
           job == [jobs[j] EXCEPT !.status = "claimed"]
<1>0. /\ jobs[j] \in Queue!Job /\ jobs[j].claimLeaseMs \in Nat /\ clock \in Nat
  BY JobFields, MeshAssumption, ClockAssumption DEF Queue!QueueTypeOK, Queue!claim
<1>1. new \in Queue!Claim /\ job \in Queue!Job
  BY <1>0 DEF Queue!Claim, Queue!Job, Queue!Statuses
<1>2. /\ jobs' = [jobs EXCEPT ![j] = job] /\ claims' = [claims EXCEPT ![j] = new]
      /\ clock' = clock /\ enqueued' = enqueued /\ Queue!Known(j) /\ ~Queue!activeClaim(j)
      /\ jobs \in [JobIds -> Queue!Job \cup {NoJob}]
      /\ claims \in [JobIds -> Queue!Claim \cup {NoClaim}]
  BY DEF Queue!claim, Queue!QueueTypeOK
<1>3. Queue!QueueTypeOK'
  BY <1>1, <1>2 DEF Queue!QueueTypeOK
<1>4. job.status = "claimed" /\ job.result = jobs[j].result
  BY <1>0 DEF Queue!Job
<1>5. jobs'[j] = job /\ \A k \in JobIds : k # j => jobs'[k] = jobs[k] /\ claims'[k] = claims[k]
  BY <1>2
<1>6. QED
  BY <1>2, <1>3, <1>4, <1>5

LEMMA QueueReap ==
    ASSUME Queue!QueueTypeOK, Queue!reapExpiredClaims
    PROVE  /\ Queue!QueueTypeOK' /\ clock' = clock /\ enqueued' = enqueued
           /\ \A k \in JobIds : Queue!activeClaim(k) => claims'[k] = claims[k]
           /\ \A k \in JobIds :
                 \/ jobs'[k] = jobs[k]
                 \/ /\ Queue!Known(k) /\ jobs'[k].result = jobs[k].result
                    /\ jobs'[k].status \in {"requeued", "failed"}
<1>1. /\ clock' = clock /\ enqueued' = enqueued
      /\ claims' = [j \in JobIds |-> IF j \in Queue!lapsed THEN NoClaim ELSE claims[j]]
      /\ jobs' = [j \in JobIds |-> IF j \in Queue!lapsed /\ Queue!Known(j)
                                      THEN Queue!afterLapse(jobs[j]) ELSE jobs[j]]
      /\ jobs \in [JobIds -> Queue!Job \cup {NoJob}]
      /\ claims \in [JobIds -> Queue!Claim \cup {NoClaim}]
  BY DEF Queue!reapExpiredClaims, Queue!QueueTypeOK
<1>2. ASSUME NEW j \in JobIds, Queue!Known(j)
      PROVE  LET a == Queue!afterLapse(jobs[j]) IN
             a \in Queue!Job /\ a.status \in {"requeued", "failed"} /\ a.result = jobs[j].result
  <2>1. jobs[j] \in Queue!Job /\ jobs[j].attempts \in Nat
    BY <1>2, JobFields
  <2>2. CASE jobs[j].attempts < jobs[j].maxRetries
    <3> DEFINE a == [jobs[j] EXCEPT !.status = "requeued", !.attempts = jobs[j].attempts + 1]
    <3>1. Queue!afterLapse(jobs[j]) = a
      BY <2>2 DEF Queue!afterLapse
    <3>2. a \in Queue!Job
      <4>1. jobs[j].attempts + 1 \in Nat
        BY <2>1
      <4>2. QED
        BY <2>1, <4>1 DEF Queue!Job, Queue!Statuses
    <3>3. a.status = "requeued" /\ a.result = jobs[j].result
      BY <2>1 DEF Queue!Job
    <3>4. QED
      BY <3>1, <3>2, <3>3
  <2>3. CASE ~(jobs[j].attempts < jobs[j].maxRetries)
    <3> DEFINE a == [jobs[j] EXCEPT !.status = "failed"]
    <3>1. Queue!afterLapse(jobs[j]) = a
      BY <2>3 DEF Queue!afterLapse
    <3>2. a \in Queue!Job /\ a.status = "failed" /\ a.result = jobs[j].result
      BY <2>1 DEF Queue!Job, Queue!Statuses
    <3>3. QED
      BY <3>1, <3>2
  <2>4. QED
    BY <2>2, <2>3
<1>3. \A k \in JobIds :
        jobs'[k] = IF k \in Queue!lapsed /\ Queue!Known(k) THEN Queue!afterLapse(jobs[k]) ELSE jobs[k]
  BY <1>1
<1>4. Queue!QueueTypeOK'
  <2>1. \A k \in JobIds : jobs'[k] \in Queue!Job \cup {NoJob}
    BY <1>1, <1>2, <1>3
  <2>2. jobs' \in [JobIds -> Queue!Job \cup {NoJob}]
    BY <1>1, <2>1
  <2>3. claims' \in [JobIds -> Queue!Claim \cup {NoClaim}]
    BY <1>1
  <2>4. QED
    BY <1>1, <2>2, <2>3 DEF Queue!QueueTypeOK
<1>5. \A k \in JobIds : Queue!activeClaim(k) => claims'[k] = claims[k]
  BY <1>1 DEF Queue!activeClaim, Queue!lapsed
<1>6. QED
  BY <1>1, <1>2, <1>3, <1>4, <1>5

LEMMA QueueComplete ==
    ASSUME Queue!QueueTypeOK, NEW j \in JobIds, NEW r \in Result, Queue!complete(j, r)
    PROVE  /\ Queue!QueueTypeOK' /\ clock' = clock /\ enqueued' = enqueued
           /\ jobs'[j].status = "completed" /\ jobs'[j].result = r
           /\ \A k \in JobIds : k # j => jobs'[k] = jobs[k] /\ claims'[k] = claims[k]
<1> DEFINE job == [jobs[j] EXCEPT !.status = "completed", !.result = r]
<1>0. jobs[j] \in Queue!Job
  BY JobFields DEF Queue!complete
<1>1. job \in Queue!Job /\ job.status = "completed" /\ job.result = r
  BY <1>0 DEF Queue!Job, Queue!Statuses
<1>2. /\ jobs' = [jobs EXCEPT ![j] = job] /\ claims' = [claims EXCEPT ![j] = NoClaim]
      /\ clock' = clock /\ enqueued' = enqueued
      /\ jobs \in [JobIds -> Queue!Job \cup {NoJob}]
      /\ claims \in [JobIds -> Queue!Claim \cup {NoClaim}]
  BY DEF Queue!complete, Queue!QueueTypeOK
<1>3. Queue!QueueTypeOK'
  BY <1>1, <1>2 DEF Queue!QueueTypeOK
<1>4. jobs'[j] = job /\ \A k \in JobIds : k # j => jobs'[k] = jobs[k] /\ claims'[k] = claims[k]
  BY <1>2
<1>5. QED
  BY <1>1, <1>2, <1>3, <1>4

-------------------------------------------------------------------------------
(* What the two halves of an append do to the ledger. *)
LEMMA BeginOutcome ==
    ASSUME LedgerInv, NEW c \in Callers, NEW type \in EventTypes, NEW j \in JobIds,
           NEW p \in payloadOf(type, j), Ledger!Begin(c, type, j, 0, p),
           clock' = clock
    PROVE  /\ LedgerInv'
           /\ \E e \in MeshEvent : /\ e.type = type /\ e.subjectId = j /\ e.payload = p
                                    /\ AppendedEvents' = AppendedEvents \cup {e}
<1> DEFINE e == [type |-> type, subjectId |-> j, term |-> 0, seq |-> Ledger!nextSeq,
                 payload |-> p, signedAt |-> clock]
<1>1. /\ pending[c] = Idle /\ Ledger!Calls < MaxAppends
      /\ pending' = [pending EXCEPT ![c] = e]
      /\ events' = events /\ subjectIndex' = subjectIndex
      /\ rejectedEvents' = rejectedEvents /\ conflicts' = conflicts
  BY DEF Ledger!Begin
<1>2. /\ clock \in 0..MaxClock
      /\ pending \in [Callers -> Ledger!Event \cup {Idle}]
      /\ events \subseteq Ledger!Event
      /\ subjectIndex \in [JobIds -> SUBSET Ledger!Event]
      /\ rejectedEvents \subseteq Ledger!Event
      /\ conflicts \in Seq(Ledger!Resolution)
      /\ IsFiniteSet(events)
      /\ AppendedEvents \subseteq MeshEvent
  BY DEF LedgerInv, Ledger!TypeOK
<1>3. Ledger!nextSeq \in 1..MaxAppends
  <2>1. Cardinality(events) \in Nat
    BY <1>2, FS_CardinalityType
  <2>2. Cardinality(Ledger!InFlight) \in Nat
    <3>1. Ledger!InFlight \subseteq Callers
      BY DEF Ledger!InFlight
    <3>2. IsFiniteSet(Ledger!InFlight)
      BY <3>1, MeshAssumption, ClockAssumption, FS_Subset
    <3>3. QED
      BY <3>2, FS_CardinalityType
  <2>3. Len(conflicts) \in Nat
    BY <1>2
  <2>4. Ledger!nextSeq = Cardinality(events) + 1
    BY DEF Ledger!nextSeq, Ledger!Cardinality, Cardinality
  <2>5. Ledger!Calls = Cardinality(events) + Len(conflicts) + Cardinality(Ledger!InFlight)
    BY DEF Ledger!Calls, Ledger!Cardinality, Cardinality
  <2>6. QED
    BY <1>1, <2>1, <2>2, <2>3, <2>4, <2>5, MeshAssumption, ClockAssumption
<1>4. p \in Workers \cup Result \cup {Request, Refusal}
  BY DEF payloadOf, EventTypes
<1>5. e \in Ledger!Event /\ e.type = type /\ e.subjectId = j /\ e.payload = p
  BY <1>2, <1>3, <1>4 DEF Ledger!Event
<1>6. e \in MeshEvent /\ e # Idle
  BY <1>5, MeshAssumption, ClockAssumption DEF MeshEvent
<1> HIDE DEF e
<1>7. \A d \in Callers : pending'[d] = IF d = c THEN e ELSE pending[d]
  BY <1>1, <1>2
<1>8. AppendedEvents' = AppendedEvents \cup {e}
  BY <1>1, <1>6, <1>7 DEF AppendedEvents, Ledger!InFlight
<1>9. Ledger!TypeOK'
  <2>1. pending' \in [Callers -> Ledger!Event \cup {Idle}]
    BY <1>1, <1>2, <1>5
  <2>2. QED
    BY <1>1, <1>2, <2>1 DEF Ledger!TypeOK
<1>10. Ledger!IndexMatchesEvents'
  BY <1>1 DEF LedgerInv, Ledger!IndexMatchesEvents
<1>11. LedgerInv'
  BY <1>1, <1>2, <1>6, <1>8, <1>9, <1>10 DEF LedgerInv
<1>12. QED
  BY <1>5, <1>6, <1>8, <1>11

LEMMA WinnerIsOneOfThem ==
    ASSUME NEW a, NEW b
    PROVE  Ledger!chooseLedgerWinner(a, b) = a \/ Ledger!chooseLedgerWinner(a, b) = b
BY DEF Ledger!chooseLedgerWinner

LEMMA FinishOutcome ==
    ASSUME LedgerInv, NEW c \in Callers, Ledger!Finish(c)
    PROVE  LedgerInv' /\ AppendedEvents' = AppendedEvents /\ clock' = clock
<1>1. PICK e : e = pending[c]
  OBVIOUS
<1>2. /\ e # Idle /\ pending' = [pending EXCEPT ![c] = Idle] /\ clock' = clock
      /\ \/ Ledger!Insert(e)
         \/ \E f \in Ledger!findConflict(e) : Ledger!resolveConflict(e, f)
  BY <1>1 DEF Ledger!Finish
<1>3. /\ clock \in 0..MaxClock
      /\ pending \in [Callers -> Ledger!Event \cup {Idle}]
      /\ events \subseteq Ledger!Event
      /\ subjectIndex \in [JobIds -> SUBSET Ledger!Event]
      /\ rejectedEvents \subseteq Ledger!Event
      /\ conflicts \in Seq(Ledger!Resolution)
      /\ IsFiniteSet(events)
      /\ AppendedEvents \subseteq MeshEvent
      /\ \A s \in JobIds : subjectIndex[s] = {x \in events : x.subjectId = s}
  BY DEF LedgerInv, Ledger!TypeOK, Ledger!IndexMatchesEvents
<1>4. e \in Ledger!Event /\ e.subjectId \in JobIds /\ e \in MeshEvent
  <2>1. e \in Ledger!Event
    BY <1>1, <1>2, <1>3
  <2>2. e \in AppendedEvents
    BY <1>1, <1>2 DEF AppendedEvents, Ledger!InFlight
  <2>3. QED
    BY <1>3, <2>1, <2>2 DEF Ledger!Event
<1>5. \A d \in Callers : pending'[d] = IF d = c THEN Idle ELSE pending[d]
  BY <1>2, <1>3
<1>6. /\ pending' \in [Callers -> Ledger!Event \cup {Idle}]
      /\ clock' \in 0..MaxClock
  BY <1>2, <1>3
(* The event goes where the pending one was; one that it replaces is rejected. *)
<1>7. ASSUME events' \cup rejectedEvents' = events \cup rejectedEvents \cup {e}
      PROVE  AppendedEvents' = AppendedEvents
  <2>1. AppendedEvents' \subseteq AppendedEvents
    BY <1>1, <1>2, <1>5, <1>7 DEF AppendedEvents, Ledger!InFlight
  <2>2. AppendedEvents \subseteq AppendedEvents'
    <3> SUFFICES ASSUME NEW x \in AppendedEvents
                 PROVE  x \in AppendedEvents'
      OBVIOUS
    <3>1. CASE x \in events \cup rejectedEvents \cup {e}
      BY <1>7, <3>1 DEF AppendedEvents
    <3>2. CASE \E d \in Callers : d # c /\ pending[d] # Idle /\ x = pending[d]
      BY <1>5, <3>2 DEF AppendedEvents, Ledger!InFlight
    <3>3. QED
      BY <1>1, <3>1, <3>2 DEF AppendedEvents, Ledger!InFlight
  <2>3. QED
    BY <2>1, <2>2
<1>8. CASE Ledger!Insert(e)
  <2>1. /\ events' = events \cup {e}
        /\ subjectIndex' = [subjectIndex EXCEPT ![e.subjectId] = @ \cup {e}]
        /\ rejectedEvents' = rejectedEvents /\ conflicts' = conflicts
    BY <1>8 DEF Ledger!Insert
  <2>2. AppendedEvents' = AppendedEvents
    BY <1>7, <2>1
  <2>3. IsFiniteSet(events')
    BY <1>3, <2>1, FS_AddElement
  <2>4. Ledger!TypeOK'
    BY <1>3, <1>4, <1>6, <2>1 DEF Ledger!TypeOK
  <2>5. Ledger!IndexMatchesEvents'
    BY <1>3, <1>4, <2>1 DEF Ledger!IndexMatchesEvents
  <2>6. QED
    BY <1>2, <1>3, <2>2, <2>3, <2>4, <2>5 DEF LedgerInv
<1>9. CASE \E f \in Ledger!findConflict(e) : Ledger!resolveConflict(e, f)
  <2>1. PICK f \in Ledger!findConflict(e) : Ledger!resolveConflict(e, f)
    BY <1>9
  <2>2. f \in events /\ f.subjectId = e.subjectId /\ f \in Ledger!Event /\ f \in MeshEvent
    <3>1. f \in subjectIndex[e.subjectId]
      BY <2>1 DEF Ledger!findConflict
    <3>2. f \in events /\ f.subjectId = e.subjectId
      BY <1>3, <1>4, <3>1
    <3>3. f \in AppendedEvents
      BY <3>2 DEF AppendedEvents
    <3>4. QED
      BY <1>3, <3>2, <3>3
  <2>3. PICK accepted : accepted = Ledger!chooseLedgerWinner(f, e)
    OBVIOUS
  <2>4. accepted \in {e, f} /\ (Digest(e) = Digest(f) => e = f)
    BY <1>4, <2>2, <2>3, WinnerIsOneOfThem, MeshDigestAssumption
  <2>5. PICK rejected : rejected = IF accepted = f THEN e ELSE f
    OBVIOUS
  <2>6. /\ rejectedEvents' = rejectedEvents \cup {rejected}
        /\ conflicts' = Append(conflicts, [acceptedEvent |-> accepted, rejectedEvent |-> rejected])
        /\ \/ /\ accepted = e
              /\ events' = (events \ {f}) \cup {e}
              /\ subjectIndex' = [subjectIndex EXCEPT ![e.subjectId] = (@ \ {f}) \cup {e}]
           \/ /\ accepted = f /\ accepted # e
              /\ events' = events /\ subjectIndex' = subjectIndex
    BY <2>1, <2>3, <2>4, <2>5 DEF Ledger!resolveConflict, Ledger!EventId
  <2>7. events' \cup rejectedEvents' = events \cup rejectedEvents \cup {e}
    BY <2>2, <2>4, <2>5, <2>6
  <2>8. AppendedEvents' = AppendedEvents
    BY <1>7, <2>7
  <2>9. rejected \in Ledger!Event /\ accepted \in Ledger!Event
    BY <1>4, <2>2, <2>4, <2>5
  <2>10. conflicts' \in Seq(Ledger!Resolution)
    <3>1. [acceptedEvent |-> accepted, rejectedEvent |-> rejected] \in Ledger!Resolution
      BY <2>9 DEF Ledger!Resolution
    <3>2. QED
      BY <1>3, <2>6, <3>1
  <2>11. CASE /\ events' = (events \ {f}) \cup {e}
              /\ subjectIndex' = [subjectIndex EXCEPT ![e.subjectId] = (@ \ {f}) \cup {e}]
    <3>1. IsFiniteSet(events')
      <4>1. IsFiniteSet(events \ {f})
        BY <1>3, FS_RemoveElement
      <4>2. QED
        BY <2>11, <4>1, FS_AddElement
    <3>2. Ledger!TypeOK'
      BY <1>3, <1>4, <1>6, <2>6, <2>9, <2>10, <2>11 DEF Ledger!TypeOK
    <3>3. Ledger!IndexMatchesEvents'
      <4> SUFFICES ASSUME NEW s \in JobIds
                   PROVE  subjectIndex'[s] = {x \in events' : x.subjectId = s}
        BY DEF Ledger!IndexMatchesEvents
      <4>1. subjectIndex[s] = {x \in events : x.subjectId = s}
        BY <1>3
      <4>2. subjectIndex'[s] = IF s = e.subjectId THEN (subjectIndex[s] \ {f}) \cup {e}
                                                 ELSE subjectIndex[s]
        BY <1>3, <2>11
      <4>3. QED
        BY <2>2, <2>11, <4>1, <4>2
    <3>4. QED
      BY <1>2, <1>3, <2>8, <3>1, <3>2, <3>3 DEF LedgerInv
  <2>12. CASE events' = events /\ subjectIndex' = subjectIndex
    <3>1. Ledger!TypeOK'
      BY <1>3, <1>6, <2>6, <2>9, <2>10, <2>12 DEF Ledger!TypeOK
    <3>2. Ledger!IndexMatchesEvents'
      BY <1>3, <2>12 DEF Ledger!IndexMatchesEvents
    <3>3. QED
      BY <1>2, <1>3, <2>8, <2>12, <3>1, <3>2 DEF LedgerInv
  <2>13. QED
    BY <2>6, <2>11, <2>12
<1>10. QED
  BY <1>2, <1>8, <1>9

-------------------------------------------------------------------------------
(* A step that accepts no result: a job keeps its result or is enqueued, and *)
(* no verdict is added.                                                      *)
LEMMA NothingAccepted ==
    ASSUME MeshInv, Queue!QueueTypeOK', LedgerInv',
           seenOutputHashes \subseteq seenOutputHashes', seenOutputHashes' \subseteq OutputHashes,
           Verdicts' = Verdicts,
           \A k \in JobIds :
              \/ jobs'[k] = enqueued'[k]
              \/ /\ enqueued'[k] = enqueued[k]
                 /\ \/ jobs'[k] = jobs[k]
                    \/ Queue!Known(k) /\ jobs'[k].result = jobs[k].result
    PROVE  MeshInv'
<1>1. ASSUME NEW k \in JobIds, OwnResult(k)'
      PROVE  OwnResult(k) /\ jobs'[k].result = jobs[k].result
  BY <1>1 DEF OwnResult, Queue!Known
<1>2. OutputsDistinct'
  <2>1. ASSUME NEW i \in JobIds, NEW k \in JobIds, OwnResult(i)'
        PROVE  /\ jobs'[i].result.outputHash \in seenOutputHashes'
               /\ OwnResult(k)' /\ i # k =>
                    jobs'[i].result.outputHash # jobs'[k].result.outputHash
    <3>1. /\ jobs[i].result.outputHash \in seenOutputHashes
          /\ OwnResult(k) /\ i # k => jobs[i].result.outputHash # jobs[k].result.outputHash
      BY <1>1, <2>1 DEF MeshInv, OutputsDistinct
    <3>2. QED
      BY <1>1, <2>1, <3>1
  <2>2. QED
    BY <2>1 DEF OutputsDistinct
<1>3. VerdictsMatchQueue'
  <2>1. ASSUME NEW k \in JobIds, OwnResult(k)'
        PROVE  \E e \in Verdicts' : e.subjectId = k /\ e.payload = jobs'[k].result
    BY <1>1, <2>1 DEF MeshInv, VerdictsMatchQueue
  <2>2. \A e, f \in Verdicts' :
          /\ e.payload.outputHash \in seenOutputHashes'
          /\ e.payload.outputHash = f.payload.outputHash => e = f
    BY DEF MeshInv, VerdictsMatchQueue
  <2>3. QED
    BY <2>1, <2>2 DEF VerdictsMatchQueue
<1>4. QED
  BY <1>2, <1>3 DEF MeshInv

LEMMA VerdictsOfAppended == Verdicts = {e \in AppendedEvents : e.type = "job.verified"}
BY DEF Verdicts, AppendedEvents

LEMMA VerdictsOfAppendedNext == Verdicts' = {e \in AppendedEvents' : e.type = "job.verified"}
BY DEF Verdicts, AppendedEvents

LEMMA EnqueueStep ==
    ASSUME MeshInv, NEW c \in Callers, NEW j \in JobIds, NEW given \in Copies, NEW m \in Models,
           NEW t \in Timeouts, NEW l \in Leases, NEW n \in Retries,
           enqueue(c, j, given, m, t, l, n)
    PROVE  MeshInv'
<1>1. /\ Queue!enqueue(j, given, m, t, l, n) /\ Ledger!Begin(c, "job.requested", j, 0, Request)
      /\ seenOutputHashes' = seenOutputHashes
  BY DEF enqueue
<1>2. /\ Queue!QueueTypeOK' /\ clock' = clock
      /\ jobs'[j] = enqueued'[j]
      /\ \A k \in JobIds : k # j => jobs'[k] = jobs[k] /\ enqueued'[k] = enqueued[k]
  BY <1>1, QueueEnqueue DEF MeshInv
<1>3. "job.requested" \in EventTypes /\ Request \in payloadOf("job.requested", j)
  BY DEF EventTypes, payloadOf
<1>4. PICK e \in MeshEvent : LedgerInv' /\ e.type = "job.requested" /\ AppendedEvents' = AppendedEvents \cup {e}
  <2>1. LedgerInv
    BY DEF MeshInv
  <2>2. QED
    BY <1>1, <1>2, <1>3, <2>1, BeginOutcome
<1>5. Verdicts' = Verdicts
  BY <1>4, VerdictsOfAppended, VerdictsOfAppendedNext
<1>6. QED
  BY <1>1, <1>2, <1>4, <1>5, NothingAccepted DEF MeshInv

LEMMA ClaimStep ==
    ASSUME MeshInv, NEW c \in Callers, NEW j \in JobIds, NEW w \in Workers, claim(c, j, w)
    PROVE  MeshInv'
<1>1. /\ Queue!claim(j, w) /\ Ledger!Begin(c, "job.claimed", j, 0, w)
      /\ seenOutputHashes' = seenOutputHashes
  BY DEF claim
<1>2. /\ Queue!QueueTypeOK' /\ clock' = clock /\ enqueued' = enqueued /\ Queue!Known(j)
      /\ jobs'[j].status = "claimed" /\ jobs'[j].result = jobs[j].result
      /\ \A k \in JobIds : k # j => jobs'[k] = jobs[k]
  BY <1>1, QueueClaim DEF MeshInv
<1>3. "job.claimed" \in EventTypes /\ w \in payloadOf("job.claimed", j)
  BY DEF EventTypes, payloadOf
<1>4. PICK e \in MeshEvent : LedgerInv' /\ e.type = "job.claimed" /\ AppendedEvents' = AppendedEvents \cup {e}
  <2>1. LedgerInv
    BY DEF MeshInv
  <2>2. QED
    BY <1>1, <1>2, <1>3, <2>1, BeginOutcome
<1>5. Verdicts' = Verdicts
  BY <1>4, VerdictsOfAppended, VerdictsOfAppendedNext
<1>6. QED
  BY <1>1, <1>2, <1>4, <1>5, NothingAccepted DEF MeshInv

(* What Tick, the reaper and a stuttering step leave alone. *)
LEMMA LedgerUntouched ==
    ASSUME MeshInv, UNCHANGED ledgerVars, clock' \in 0..MaxClock
    PROVE  LedgerInv' /\ Verdicts' = Verdicts
<1>1. /\ pending' = pending /\ events' = events /\ subjectIndex' = subjectIndex
      /\ rejectedEvents' = rejectedEvents /\ conflicts' = conflicts
  BY DEF ledgerVars
<1>2. Ledger!TypeOK'
  BY <1>1 DEF MeshInv, LedgerInv, Ledger!TypeOK
<1>3. AppendedEvents' = AppendedEvents
  BY <1>1 DEF AppendedEvents, Ledger!InFlight
<1>4. LedgerInv'
  BY <1>1, <1>2, <1>3 DEF MeshInv, LedgerInv, Ledger!IndexMatchesEvents
<1>5. QED
  BY <1>3, <1>4, VerdictsOfAppended, VerdictsOfAppendedNext

LEMMA ReapStep ==
    ASSUME MeshInv, reapExpiredClaims
    PROVE  MeshInv'
<1>1. /\ Queue!reapExpiredClaims /\ seenOutputHashes' = seenOutputHashes /\ UNCHANGED ledgerVars
  BY DEF reapExpiredClaims
<1>2. /\ Queue!QueueTypeOK' /\ clock' = clock /\ enqueued' = enqueued
      /\ \A k \in JobIds :
            \/ jobs'[k] = jobs[k]
            \/ /\ Queue!Known(k) /\ jobs'[k].result = jobs[k].result
               /\ jobs'[k].status \in {"requeued", "failed"}
  BY <1>1, QueueReap DEF MeshInv
<1>3. LedgerInv' /\ Verdicts' = Verdicts
  <2>1. clock' \in 0..MaxClock
    BY <1>2 DEF Queue!QueueTypeOK
  <2>2. QED
    BY <1>1, <2>1, LedgerUntouched
<1>4. QED
  BY <1>1, <1>2, <1>3, NothingAccepted DEF MeshInv

LEMMA QuietStep ==
    ASSUME MeshInv, Tick \/ (UNCHANGED vars)
    PROVE  MeshInv'
<1>1. /\ jobs' = jobs /\ claims' = claims /\ enqueued' = enqueued
      /\ seenOutputHashes' = seenOutputHashes
      /\ UNCHANGED ledgerVars
  BY DEF Tick, Queue!QueueTick, vars, queueVars
<1>2. clock' \in 0..MaxClock
  BY MeshAssumption, ClockAssumption DEF MeshInv, Queue!QueueTypeOK, Tick, Queue!QueueTick, vars
<1>3. Queue!QueueTypeOK'
  BY <1>1, <1>2 DEF MeshInv, Queue!QueueTypeOK
<1>4. LedgerInv' /\ Verdicts' = Verdicts
  BY <1>1, <1>2, LedgerUntouched
<1>5. QED
  BY <1>1, <1>3, <1>4, NothingAccepted DEF MeshInv

LEMMA AppendedStep ==
    ASSUME MeshInv, NEW c \in Callers, appended(c)
    PROVE  MeshInv'
<1>1. /\ Ledger!Finish(c) /\ jobs' = jobs /\ claims' = claims /\ enqueued' = enqueued
      /\ seenOutputHashes' = seenOutputHashes
  BY DEF appended, queueVars
<1>2. LedgerInv' /\ AppendedEvents' = AppendedEvents /\ clock' = clock
  BY <1>1, FinishOutcome DEF MeshInv
<1>3. Verdicts' = Verdicts
  BY <1>2, VerdictsOfAppended, VerdictsOfAppendedNext
<1>4. Queue!QueueTypeOK'
  BY <1>1, <1>2 DEF MeshInv, Queue!QueueTypeOK
<1>5. QED
  BY <1>1, <1>2, <1>3, <1>4, NothingAccepted DEF MeshInv

(* A refused result changes no job, whether or not its hash is spent on it. *)
LEMMA RefuseStep ==
    ASSUME MeshInv, NEW c \in Callers, NEW r \in Result, refuse(c, r),
           seenOutputHashes' \in {seenOutputHashes, seenOutputHashes \cup {r.outputHash}}
    PROVE  MeshInv'
<1>1. /\ Ledger!Begin(c, "job.result.rejected", r.jobId, 0, Refusal)
      /\ clock' = clock /\ jobs' = jobs /\ claims' = claims /\ enqueued' = enqueued
  BY DEF refuse, queueVars
<1>2. r.jobId \in JobIds /\ r.outputHash \in OutputHashes
  BY DEF Result
<1>3. /\ "job.result.rejected" \in EventTypes
      /\ Refusal \in payloadOf("job.result.rejected", r.jobId)
  BY DEF EventTypes, payloadOf
<1>4. PICK e \in MeshEvent : /\ LedgerInv' /\ e.type = "job.result.rejected"
                             /\ AppendedEvents' = AppendedEvents \cup {e}
  <2>1. LedgerInv
    BY DEF MeshInv
  <2>2. QED
    BY <1>1, <1>2, <1>3, <2>1, BeginOutcome
<1>5. Verdicts' = Verdicts
  BY <1>4, VerdictsOfAppended, VerdictsOfAppendedNext
<1>6. Queue!QueueTypeOK'
  BY <1>1 DEF MeshInv, Queue!QueueTypeOK
<1>7. seenOutputHashes \subseteq seenOutputHashes' /\ seenOutputHashes' \subseteq OutputHashes
  BY <1>2 DEF MeshInv
<1>8. QED
  BY <1>1, <1>4, <1>5, <1>6, <1>7, NothingAccepted

(* An accepted result: its hash is new, so no other job was completed by it *)
(* and no other verdict is about it.                                        *)
LEMMA AcceptStep ==
    ASSUME MeshInv, NEW c \in Callers, NEW r \in Result,
           r.outputHash \notin seenOutputHashes,
           seenOutputHashes' = seenOutputHashes \cup {r.outputHash},
           Queue!complete(r.jobId, r), Ledger!Begin(c, "job.verified", r.jobId, 0, r)
    PROVE  MeshInv'
<1>1. PICK j \in JobIds : j = r.jobId
  BY DEF Result
<1>2. /\ Queue!QueueTypeOK' /\ clock' = clock /\ enqueued' = enqueued
      /\ jobs'[j].status = "completed" /\ jobs'[j].result = r
      /\ \A k \in JobIds : k # j => jobs'[k] = jobs[k]
  BY <1>1, QueueComplete DEF MeshInv
<1>3. "job.verified" \in EventTypes /\ r \in payloadOf("job.verified", j)
  BY <1>1 DEF EventTypes, payloadOf
<1>4. PICK e \in MeshEvent : /\ LedgerInv' /\ e.type = "job.verified" /\ e.subjectId = j /\ e.payload = r
                             /\ AppendedEvents' = AppendedEvents \cup {e}
  <2>1. LedgerInv
    BY DEF MeshInv
  <2>2. QED
    BY <1>1, <1>2, <1>3, <2>1, BeginOutcome
<1>5. Verdicts' = Verdicts \cup {e}
  BY <1>4, VerdictsOfAppended, VerdictsOfAppendedNext
<1>6. ASSUME NEW k \in JobIds, k # j, OwnResult(k)'
      PROVE  OwnResult(k) /\ jobs'[k] = jobs[k]
  BY <1>2, <1>6 DEF OwnResult, Queue!Known
<1>7. OutputsDistinct'
  <2>1. SUFFICES ASSUME NEW i \in JobIds, NEW k \in JobIds, OwnResult(i)'
                 PROVE  /\ jobs'[i].result.outputHash \in seenOutputHashes'
                        /\ OwnResult(k)' /\ i # k =>
                             jobs'[i].result.outputHash # jobs'[k].result.outputHash
    BY DEF OutputsDistinct
  <2>2. ASSUME NEW x \in JobIds, x # j, OwnResult(x)'
        PROVE  jobs'[x].result.outputHash \in seenOutputHashes
    BY <1>6, <2>2 DEF MeshInv, OutputsDistinct
  <2>3. jobs'[i].result.outputHash \in seenOutputHashes'
    BY <1>2, <2>1, <2>2
  <2>4. ASSUME OwnResult(k)', i # k
        PROVE  jobs'[i].result.outputHash # jobs'[k].result.outputHash
    <3>1. CASE i = j
      BY <1>2, <2>2, <2>4, <3>1
    <3>2. CASE k = j
      BY <1>2, <2>1, <2>2, <2>4, <3>2
    <3>3. CASE i # j /\ k # j
      <4>1. OwnResult(i) /\ jobs'[i] = jobs[i] /\ OwnResult(k) /\ jobs'[k] = jobs[k]
        BY <1>6, <2>1, <2>4, <3>3
      <4>2. QED
        BY <2>4, <4>1 DEF MeshInv, OutputsDistinct
    <3>4. QED
      BY <3>1, <3>2, <3>3
  <2>5. QED
    BY <2>3, <2>4
<1>8. VerdictsMatchQueue'
  <2>1. ASSUME NEW k \in JobIds, OwnResult(k)'
        PROVE  \E x \in Verdicts' : x.subjectId = k /\ x.payload = jobs'[k].result
    <3>1. CASE k = j
      BY <1>2, <1>4, <1>5, <3>1
    <3>2. CASE k # j
      <4>1. \E x \in Verdicts : x.subjectId = k /\ x.payload = jobs[k].result
        BY <1>6, <2>1, <3>2 DEF MeshInv, VerdictsMatchQueue
      <4>2. QED
        BY <1>5, <1>6, <2>1, <3>2, <4>1
    <3>3. QED
      BY <3>1, <3>2
  <2>2. \A x \in Verdicts : x.payload.outputHash \in seenOutputHashes
    BY DEF MeshInv, VerdictsMatchQueue
  <2>3. \A x, y \in Verdicts : x.payload.outputHash = y.payload.outputHash => x = y
    BY DEF MeshInv, VerdictsMatchQueue
  <2>4. e.payload.outputHash = r.outputHash
    BY <1>4
  <2>5. ASSUME NEW x \in Verdicts', NEW y \in Verdicts'
        PROVE  /\ x.payload.outputHash \in seenOutputHashes'
               /\ x.payload.outputHash = y.payload.outputHash => x = y
    BY <1>5, <2>2, <2>3, <2>4
  <2>6. QED
    BY <2>1, <2>5 DEF VerdictsMatchQueue
<1>9. seenOutputHashes' \subseteq OutputHashes
  BY DEF MeshInv, Result
<1>10. QED
  BY <1>2, <1>4, <1>7, <1>8, <1>9 DEF MeshInv

LEMMA AcceptResultStep ==
    ASSUME MeshInv, NEW c \in Callers, NEW r \in Result, NEW wellFormed \in BOOLEAN,
           acceptResult(c, r, wellFormed)
    PROVE  MeshInv'
<1>1. CASE refuse(c, r) /\ seenOutputHashes' \in {seenOutputHashes, seenOutputHashes \cup {r.outputHash}}
  BY <1>1, RefuseStep
<1>2. CASE /\ validateJobResult(r, wellFormed)
           /\ seenOutputHashes' = seenOutputHashes \cup {r.outputHash}
           /\ Queue!complete(r.jobId, r) /\ Ledger!Begin(c, "job.verified", r.jobId, 0, r)
  BY <1>2, AcceptStep DEF validateJobResult
<1>3. QED
  BY <1>1, <1>2 DEF acceptResult

-------------------------------------------------------------------------------
LEMMA InitMeshInv == Init => MeshInv
<1> SUFFICES ASSUME Init
             PROVE  MeshInv
  OBVIOUS
<1>1. /\ clock = 0 /\ jobs = [j \in JobIds |-> NoJob] /\ claims = [j \in JobIds |-> NoClaim]
      /\ enqueued = jobs /\ pending = [c \in Callers |-> Idle] /\ events = {}
      /\ subjectIndex = [s \in JobIds |-> {}] /\ rejectedEvents = {} /\ conflicts = <<>>
      /\ seenOutputHashes = {}
  BY DEF Init, Queue!QueueInit, Ledger!Init
<1>2. Queue!QueueTypeOK
  BY <1>1, MeshAssumption, ClockAssumption DEF Queue!QueueTypeOK
<1>3. AppendedEvents = {}
  BY <1>1 DEF AppendedEvents, Ledger!InFlight
<1>4. LedgerInv
  <2>1. Ledger!TypeOK
    BY <1>1, MeshAssumption, ClockAssumption DEF Ledger!TypeOK
  <2>2. Ledger!IndexMatchesEvents
    BY <1>1 DEF Ledger!IndexMatchesEvents
  <2>3. IsFiniteSet(events)
    BY <1>1, FS_EmptySet
  <2>4. QED
    BY <1>3, <2>1, <2>2, <2>3 DEF LedgerInv
<1>5. \A j \in JobIds : ~Queue!Known(j)
  BY <1>1 DEF Queue!Known
<1>6. OutputsDistinct /\ VerdictsMatchQueue
  BY <1>3, <1>5, VerdictsOfAppended DEF OutputsDistinct, VerdictsMatchQueue, OwnResult
<1>7. QED
  BY <1>1, <1>2, <1>4, <1>6 DEF MeshInv

LEMMA NextMeshInv == MeshInv /\ [Next]_vars => MeshInv'
<1> SUFFICES ASSUME MeshInv, [Next]_vars
             PROVE  MeshInv'
  OBVIOUS
<1>1. CASE Tick \/ UNCHANGED vars
  BY <1>1, QuietStep
<1>2. CASE \E c \in Callers, j \in JobIds, given \in Copies, m \in Models,
              t \in Timeouts, l \in Leases, n \in Retries : enqueue(c, j, given, m, t, l, n)
  BY <1>2, EnqueueStep
<1>3. CASE \E c \in Callers, j \in JobIds, w \in Workers : claim(c, j, w)
  BY <1>3, ClaimStep
<1>4. CASE reapExpiredClaims
  BY <1>4, ReapStep
<1>5. CASE \E c \in Callers, r \in Result, wellFormed \in BOOLEAN : acceptResult(c, r, wellFormed)
  BY <1>5, AcceptResultStep
<1>6. CASE \E c \in Callers : appended(c)
  BY <1>6, AppendedStep
<1>7. QED
  BY <1>1, <1>2, <1>3, <1>4, <1>5, <1>6 DEF Next

LEMMA MeshInvariant == Spec => []MeshInv
BY InitMeshInv, NextMeshInv, PTL DEF Spec

(* The queue, the hashes and the ledger keep their shapes. *)
THEOREM MeshTyped == Spec => []TypeOK
<1>1. MeshInv => TypeOK
  BY DEF MeshInv, LedgerInv, TypeOK
<1>2. QED
  BY <1>1, MeshInvariant, PTL

(* An output is accepted once, for any number of jobs, workers and results   *)
(* that race each other.                                                     *)
THEOREM MeshOutputs == Spec => []OutputsDistinct
<1>1. MeshInv => OutputsDistinct
  BY DEF MeshInv
<1>2. QED
  BY <1>1, MeshInvariant, PTL

(* The ledger has a verdict for every result that a job has got since it was *)
(* enqueued, and no two verdicts about one output, in whatever order the     *)
(* suspended appends resume and whatever the requests bring with them.       *)
THEOREM MeshVerdicts == Spec => []VerdictsMatchQueue
<1>1. MeshInv => VerdictsMatchQueue
  BY DEF MeshInv
<1>2. QED
  BY <1>1, MeshInvariant, PTL

-------------------------------------------------------------------------------
(* A claim in force changes hands in one way only. *)
LEMMA HolderStep ==
    ASSUME MeshInv, [Next]_vars, NEW j \in JobIds, Queue!activeClaim(j), claims'[j] # claims[j]
    PROVE  /\ jobs'[j].status = "completed"
           /\ jobs'[j].result.workerIdentity = claims[j].workerIdentity
<1>1. Queue!QueueTypeOK
  BY DEF MeshInv
<1>2. CASE UNCHANGED claims
  BY <1>2
<1>3. CASE reapExpiredClaims
  BY <1>1, <1>3, QueueReap DEF reapExpiredClaims
<1>4. ASSUME NEW c \in Callers, NEW k \in JobIds, NEW w \in Workers, claim(c, k, w)
      PROVE  FALSE
  <2>1. ~Queue!activeClaim(k) /\ (j # k => claims'[j] = claims[j])
    BY <1>1, <1>4, QueueClaim DEF claim
  <2>2. QED
    BY <2>1
<1>5. ASSUME NEW r \in Result, NEW wellFormed \in BOOLEAN,
             validateJobResult(r, wellFormed), Queue!complete(r.jobId, r)
      PROVE  /\ jobs'[j].status = "completed"
             /\ jobs'[j].result.workerIdentity = claims[j].workerIdentity
  <2>1. PICK k \in JobIds : k = r.jobId
    BY DEF Result
  <2>2. /\ jobs'[k].status = "completed" /\ jobs'[k].result = r
        /\ j # k => claims'[j] = claims[j]
    BY <1>1, <1>5, <2>1, QueueComplete
  <2>3. j = k /\ claims[j] # NoClaim
    BY <2>2 DEF Queue!activeClaim
  <2>4. claims[j].workerIdentity = r.workerIdentity
    BY <1>5, <2>1, <2>3 DEF validateJobResult
  <2>5. QED
    BY <2>2, <2>3, <2>4
<1>6. CASE \E c \in Callers, r \in Result, wellFormed \in BOOLEAN : acceptResult(c, r, wellFormed)
  BY <1>2, <1>5, <1>6 DEF acceptResult, refuse, queueVars
<1>7. CASE \/ Tick \/ UNCHANGED vars
           \/ \E c \in Callers, k \in JobIds, given \in Copies, m \in Models,
                 t \in Timeouts, l \in Leases, n \in Retries : enqueue(c, k, given, m, t, l, n)
           \/ \E c \in Callers : appended(c)
  BY <1>2, <1>7 DEF Tick, Queue!QueueTick, enqueue, Queue!enqueue, appended, vars, queueVars
<1>8. QED
  BY <1>3, <1>4, <1>6, <1>7 DEF Next

(* No other worker's result, claim or re-enqueued job takes the work away    *)
(* from the holder of a claim in force.                                      *)
THEOREM MeshHolder == Spec => HolderKeepsClaim
<1> DEFINE Keeps == \A j \in JobIds :
             Queue!activeClaim(j) /\ claims'[j] # claims[j] =>
                /\ jobs'[j].status = "completed"
                /\ jobs'[j].result.workerIdentity = claims[j].workerIdentity
<1>1. MeshInv /\ [Next]_vars => [Keeps]_vars
  BY HolderStep
<1>2. QED
  BY <1>1, MeshInvariant, PTL DEF Spec, HolderKeepsClaim

-------------------------------------------------------------------------------
(* The mesh runs the job queue and nothing else on its maps: what the        *)
(* theorems of the queue say for every caller, they say of the mesh.         *)
THEOREM MeshRunsQueue == Spec => Queue!QueueSpec
<1>1. Init => Queue!QueueInit
  BY DEF Init
<1>2. [Next]_vars => [Queue!QueueNext]_(Queue!queueVars)
  <2> SUFFICES ASSUME [Next]_vars
               PROVE  Queue!QueueNext \/ UNCHANGED <<clock, jobs, claims, enqueued>>
    BY DEF Queue!queueVars
  <2>1. CASE Tick
    BY <2>1 DEF Tick, Queue!QueueNext
  <2>2. ASSUME NEW c \in Callers, NEW j \in JobIds, NEW given \in Copies, NEW m \in Models,
               NEW t \in Timeouts, NEW l \in Leases, NEW n \in Retries,
               enqueue(c, j, given, m, t, l, n)
        PROVE  Queue!QueueNext
    <3>1. given \in Queue!Given
      BY MeshAssumption
    <3>2. QED
      BY <2>2, <3>1 DEF enqueue, Queue!QueueNext
  <2>3. ASSUME NEW c \in Callers, NEW j \in JobIds, NEW w \in Workers, claim(c, j, w)
        PROVE  Queue!QueueNext
    BY <2>3 DEF claim, Queue!QueueNext
  <2>4. CASE reapExpiredClaims
    BY <2>4 DEF reapExpiredClaims, Queue!QueueNext
  <2>5. ASSUME NEW c \in Callers, NEW r \in Result, NEW wellFormed \in BOOLEAN,
               acceptResult(c, r, wellFormed)
        PROVE  Queue!QueueNext \/ UNCHANGED <<clock, jobs, claims, enqueued>>
    <3>1. CASE refuse(c, r)
      BY <3>1 DEF refuse, queueVars
    <3>2. CASE Queue!complete(r.jobId, r)
      <4>1. r.jobId \in JobIds
        BY DEF Result
      <4>2. QED
        BY <3>2, <4>1 DEF Queue!QueueNext
    <3>3. QED
      BY <2>5, <3>1, <3>2 DEF acceptResult
  <2>6. ASSUME NEW c \in Callers, appended(c)
        PROVE  UNCHANGED <<clock, jobs, claims, enqueued>>
    BY <2>6 DEF appended, Ledger!Finish, queueVars
  <2>7. CASE UNCHANGED vars
    BY <2>7 DEF vars, queueVars
  <2>8. QED
    BY <2>1, <2>2, <2>3, <2>4, <2>5, <2>6, <2>7 DEF Next
<1>3. QED
  BY <1>1, <1>2, PTL DEF Spec, Queue!QueueSpec

(* So it is with the append ledger. *)
THEOREM MeshRunsLedger == Spec => Ledger!Spec
<1>1. Init => Ledger!Init
  BY DEF Init, Queue!QueueInit, Ledger!Init
<1>2. [Next]_vars => [Ledger!Next]_(Ledger!vars)
  <2> SUFFICES ASSUME [Next]_vars
               PROVE  \/ Ledger!Next
                      \/ UNCHANGED <<clock, pending, events, subjectIndex, rejectedEvents, conflicts>>
    BY DEF Ledger!vars
  <2> DEFINE Payloads == Workers \cup Result \cup {Request, Refusal}
  <2>1. ASSUME NEW c \in Callers, NEW type \in EventTypes, NEW j \in JobIds, NEW p \in Payloads,
               Ledger!Begin(c, type, j, 0, p)
        PROVE  Ledger!Next
    BY <2>1 DEF Ledger!Next
  <2>2. CASE Tick
    BY <2>2 DEF Tick, Queue!QueueTick, Ledger!Next, Ledger!Tick, ledgerVars
  <2>3. ASSUME NEW c \in Callers, NEW j \in JobIds, NEW given \in Copies, NEW m \in Models,
               NEW t \in Timeouts, NEW l \in Leases, NEW n \in Retries,
               enqueue(c, j, given, m, t, l, n)
        PROVE  Ledger!Next
    <3>1. "job.requested" \in EventTypes /\ Request \in Payloads
      BY DEF EventTypes
    <3>2. QED
      BY <2>1, <2>3, <3>1 DEF enqueue
  <2>4. ASSUME NEW c \in Callers, NEW j \in JobIds, NEW w \in Workers, claim(c, j, w)
        PROVE  Ledger!Next
    <3>1. "job.claimed" \in EventTypes /\ w \in Payloads
      BY DEF EventTypes
    <3>2. QED
      BY <2>1, <2>4, <3>1 DEF claim
  <2>5. CASE reapExpiredClaims
    BY <2>5 DEF reapExpiredClaims, Queue!reapExpiredClaims, ledgerVars
  <2>6. ASSUME NEW c \in Callers, NEW r \in Result, NEW wellFormed \in BOOLEAN,
               acceptResult(c, r, wellFormed)
        PROVE  Ledger!Next
    <3>1. /\ "job.result.rejected" \in EventTypes /\ Refusal \in Payloads
          /\ "job.verified" \in EventTypes /\ r \in Payloads /\ r.jobId \in JobIds
      BY DEF EventTypes, Result
    <3>2. CASE refuse(c, r)
      BY <2>1, <3>1, <3>2 DEF refuse
    <3>3. CASE Ledger!Begin(c, "job.verified", r.jobId, 0, r)
      BY <2>1, <3>1, <3>3
    <3>4. QED
      BY <2>6, <3>2, <3>3 DEF acceptResult
  <2>7. ASSUME NEW c \in Callers, appended(c)
        PROVE  Ledger!Next
    BY <2>7 DEF appended, Ledger!Next
  <2>8. CASE UNCHANGED vars
    BY <2>8 DEF vars, ledgerVars
  <2>9. QED
    BY <2>2, <2>3, <2>4, <2>5, <2>6, <2>7, <2>8 DEF Next
<1>3. QED
  BY <1>1, <1>2, PTL DEF Spec, Ledger!Spec
===============================================================================

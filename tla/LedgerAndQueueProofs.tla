-------------------------- MODULE LedgerAndQueueProofs --------------------------
(***************************************************************************)
(* The two stores of a mesh, each by itself.                               *)
(*                                                                         *)
(* The append ledger, for every set of callers, subjects, types, phases,   *)
(* terms and payloads, every injective digest and every bound.  The        *)
(* inductive invariant is IInv: the surviving events are at most one per   *)
(* key and beat everything recorded for the key, the index lists exactly   *)
(* them, and no event has a seq ahead of the next one.                     *)
(*                                                                         *)
(* The job queue, for any jobs, workers, timeouts, leases and retry        *)
(* limits.  QueueTypeOK, StatusMatchesClaim and RetryBudget are inductive  *)
(* together: the reaper may assume that a claim belongs to a known job,    *)
(* and a job that fails has used its retries because attempts never        *)
(* overshoots them.                                                        *)
(***************************************************************************)
EXTENDS AppendLedger, JobQueue, FiniteSetTheorems, TLAPS

-------------------------------------------------------------------------------
(* chooseLedgerWinner picks the better of two events by a total order.     *)

LEMMA EventFields ==
    ASSUME NEW e \in Event
    PROVE  /\ e.term \in Int /\ e.signedAt \in Int /\ Digest(e) \in Int
           /\ e.type \in Types /\ e.subjectId \in Subjects
           /\ e.seq \in Int /\ e.seq >= 1
<1>1. e.term \in Terms /\ e.signedAt \in 0..MaxClock /\ e.seq \in 1..MaxAppends
  BY DEF Event
<1>2. e.type \in Types /\ e.subjectId \in Subjects
  BY DEF Event
<1>3. Digest(e) \in Int
  BY DigestAssumption
<1>4. QED
  <2>1. e.signedAt \in Int /\ e.seq \in Int /\ e.seq >= 1
    BY <1>1, BoundsAssumption, ClockAssumption
  <2>2. e.term \in Int
    BY <1>1, TermsAssumption
  <2>3. QED
    BY <1>2, <1>3, <2>1, <2>2

LEMMA WinnerIsOneOfThem ==
    ASSUME NEW a \in Event, NEW b \in Event
    PROVE  chooseLedgerWinner(a, b) = a \/ chooseLedgerWinner(a, b) = b
BY DEF chooseLedgerWinner

LEMMA WinnerReflexive ==
    ASSUME NEW a \in Event
    PROVE  chooseLedgerWinner(a, a) = a
BY DEF chooseLedgerWinner

(* The order of the arguments does not matter: digests tell events apart. *)
LEMMA WinnerSymmetric ==
    ASSUME NEW a \in Event, NEW b \in Event
    PROVE  chooseLedgerWinner(a, b) = chooseLedgerWinner(b, a)
<1>1. Digest(a) = Digest(b) => a = b
  BY DigestAssumption
<1>2. QED
  BY <1>1, EventFields DEF chooseLedgerWinner, EventId

LEMMA WinnerTransitive ==
    ASSUME NEW a \in Event, NEW b \in Event, NEW c \in Event,
           chooseLedgerWinner(a, b) = a, chooseLedgerWinner(b, c) = b
    PROVE  chooseLedgerWinner(a, c) = a
<1>1. /\ a.term \in Int /\ b.term \in Int /\ c.term \in Int
      /\ a.signedAt \in Int /\ b.signedAt \in Int /\ c.signedAt \in Int
      /\ Digest(a) \in Int /\ Digest(b) \in Int /\ Digest(c) \in Int
  BY EventFields
<1>2. /\ Digest(a) = Digest(b) => a = b
      /\ Digest(b) = Digest(c) => b = c
  BY DigestAssumption
<1>3. CASE a = b \/ b = c
  BY <1>3
<1>4. CASE a # b /\ b # c
  BY <1>1, <1>2, <1>4 DEF chooseLedgerWinner, EventId
<1>5. QED
  BY <1>3, <1>4

-------------------------------------------------------------------------------
(* The inductive invariant.                                                *)

(* No recorded or suspended event is ahead of the seq the next append takes. *)
SeqNotAhead ==
    /\ \A e \in Recorded : e.seq <= nextSeq
    /\ \A c \in InFlight : pending[c].seq <= nextSeq

IInv ==
    /\ TypeOK
    /\ IsFiniteSet(events)
    /\ OneSurvivorPerPhase
    /\ SurvivorIsBest
    /\ IndexMatchesEvents
    /\ SeqNotAhead

LEMMA InitIInv == Init => IInv
<1> SUFFICES ASSUME Init PROVE IInv
  OBVIOUS
<1>1. TypeOK
  BY BoundsAssumption, ClockAssumption DEF Init, TypeOK
<1>2. IsFiniteSet(events)
  BY FS_EmptySet DEF Init
<1>3. OneSurvivorPerPhase /\ SurvivorIsBest /\ IndexMatchesEvents
  BY DEF Init, OneSurvivorPerPhase, SurvivorIsBest, IndexMatchesEvents, Recorded
<1>4. SeqNotAhead
  BY DEF Init, SeqNotAhead, Recorded, InFlight
<1>5. QED
  BY <1>1, <1>2, <1>3, <1>4 DEF IInv

(* Which of its two alternatives Finish takes is decided by the survivors: *)
(* the index never hides a conflict and never reports a stale one.         *)
LEMMA FinishAlternatives ==
    ASSUME IInv, NEW c \in Callers, Finish(c)
    PROVE  /\ pending[c] \in Event
           /\ pending' = [pending EXCEPT ![c] = Idle]
           /\ clock' = clock
           /\ \/ /\ \A f \in events : ~Competing(f, pending[c])
                 /\ Insert(pending[c])
              \/ \E f \in events : /\ Competing(f, pending[c])
                                   /\ resolveConflict(pending[c], f)
<1> DEFINE e == pending[c]
<1>1. e \in Event /\ pending' = [pending EXCEPT ![c] = Idle] /\ clock' = clock
  BY DEF Finish, IInv, TypeOK
<1>2. e.subjectId \in Subjects
  BY <1>1, EventFields
<1>3. findConflict(e) = {f \in events : Competing(f, e)}
  BY <1>2 DEF findConflict, IInv, IndexMatchesEvents, Competing
<1>4. CASE findConflict(e) = {} /\ Insert(e)
  BY <1>1, <1>3, <1>4
<1>5. CASE \E f \in findConflict(e) : resolveConflict(e, f)
  BY <1>1, <1>3, <1>5
<1>6. QED
  BY <1>4, <1>5 DEF Finish

(* What the resolution of a conflict does, said without digests: the        *)
(* incoming event replaces the existing one, or is rejected.                *)
LEMMA ResolutionAlternatives ==
    ASSUME NEW e \in Event, NEW f \in Event, resolveConflict(e, f)
    PROVE  \/ /\ chooseLedgerWinner(f, e) = e
              /\ events' = (events \ {f}) \cup {e}
              /\ subjectIndex' = [subjectIndex EXCEPT ![e.subjectId] = (@ \ {f}) \cup {e}]
              /\ rejectedEvents' = rejectedEvents \cup {f}
              /\ conflicts' = Append(conflicts, [acceptedEvent |-> e, rejectedEvent |-> f])
           \/ /\ chooseLedgerWinner(f, e) = f
              /\ e # f
              /\ UNCHANGED <<events, subjectIndex>>
              /\ rejectedEvents' = rejectedEvents \cup {e}
              /\ conflicts' = Append(conflicts, [acceptedEvent |-> f, rejectedEvent |-> e])
<1>1. Digest(e) = Digest(f) => e = f
  BY DigestAssumption
<1>2. CASE chooseLedgerWinner(f, e) = e
  BY <1>1, <1>2 DEF resolveConflict, EventId
<1>3. CASE chooseLedgerWinner(f, e) = f /\ e # f
  BY <1>1, <1>3 DEF resolveConflict, EventId
<1>4. QED
  BY <1>2, <1>3, WinnerIsOneOfThem

LEMMA TypeStep ==
    ASSUME IInv, [Next]_vars
    PROVE  TypeOK'
<1> USE DEF IInv
<1>1. CASE Tick
  BY <1>1, BoundsAssumption, ClockAssumption DEF Tick, TypeOK
<1>2. ASSUME NEW c \in Callers, NEW t \in Types, NEW s \in Subjects,
             NEW n \in Terms, NEW p \in Payloads, Begin(c, t, s, n, p)
      PROVE  TypeOK'
  <2>1. Cardinality(events) \in Nat /\ Cardinality(InFlight) \in Nat /\ Len(conflicts) \in Nat
    <3>1. IsFiniteSet(InFlight)
      BY CallersAssumption, FS_Subset DEF InFlight
    <3>2. Len(conflicts) \in Nat
      BY DEF TypeOK
    <3>3. QED
      BY <3>1, <3>2, FS_CardinalityType
  <2>2. nextSeq \in 1..MaxAppends
    BY <1>2, <2>1, BoundsAssumption, ClockAssumption DEF nextSeq, Begin, Calls
  <2>3. [type |-> t, subjectId |-> s, term |-> n, seq |-> nextSeq,
         payload |-> p, signedAt |-> clock] \in Event
    BY <2>2 DEF Event, TypeOK
  <2>4. QED
    BY <1>2, <2>3 DEF Begin, TypeOK
<1>3. ASSUME NEW c \in Callers, Finish(c)
      PROVE  TypeOK'
  <2> DEFINE e == pending[c]
  <2>1. e \in Event /\ e.subjectId \in Subjects
    BY <1>3, FinishAlternatives, EventFields
  <2>2. clock' \in 0..MaxClock /\ pending' \in [Callers -> Event \cup {Idle}]
    BY <1>3, FinishAlternatives DEF TypeOK
  <2>3. CASE Insert(e)
    BY <2>1, <2>2, <2>3 DEF Insert, TypeOK
  <2>4. ASSUME NEW f \in events, resolveConflict(e, f)
        PROVE  TypeOK'
    <3>1. f \in Event
      BY DEF TypeOK
    <3>2. CASE /\ events' = (events \ {f}) \cup {e}
               /\ subjectIndex' = [subjectIndex EXCEPT ![e.subjectId] = (@ \ {f}) \cup {e}]
               /\ rejectedEvents' = rejectedEvents \cup {f}
               /\ conflicts' = Append(conflicts, [acceptedEvent |-> e, rejectedEvent |-> f])
      BY <2>1, <2>2, <3>1, <3>2 DEF TypeOK, Resolution
    <3>3. CASE /\ UNCHANGED <<events, subjectIndex>>
               /\ rejectedEvents' = rejectedEvents \cup {e}
               /\ conflicts' = Append(conflicts, [acceptedEvent |-> f, rejectedEvent |-> e])
      BY <2>1, <2>2, <3>1, <3>3 DEF TypeOK, Resolution
    <3>4. QED
      BY <2>1, <2>4, <3>1, <3>2, <3>3, ResolutionAlternatives
  <2>5. QED
    BY <1>3, <2>3, <2>4, FinishAlternatives
<1>4. CASE UNCHANGED vars
  BY <1>4 DEF vars, TypeOK
<1>5. QED
  BY <1>1, <1>2, <1>3, <1>4 DEF Next

-------------------------------------------------------------------------------
(* A step of append() after its await, with the stores it leaves behind.   *)

Accepts(e, f) ==
    /\ chooseLedgerWinner(f, e) = e
    /\ events' = (events \ {f}) \cup {e}
    /\ rejectedEvents' = rejectedEvents \cup {f}

Rejects(e, f) ==
    /\ chooseLedgerWinner(f, e) = f
    /\ e # f
    /\ events' = events
    /\ rejectedEvents' = rejectedEvents \cup {e}

LEMMA FinishOutcomes ==
    ASSUME IInv, NEW c \in Callers, Finish(c)
    PROVE  LET e == pending[c] IN
           /\ e \in Event
           /\ \/ /\ \A f \in events : ~Competing(f, e)
                 /\ Insert(e)
              \/ \E f \in events : f \in Event /\ Competing(f, e) /\ Accepts(e, f)
              \/ \E f \in events : f \in Event /\ Competing(f, e) /\ Rejects(e, f)
<1> DEFINE e == pending[c]
<1>1. e \in Event
  BY FinishAlternatives
<1>2. ASSUME NEW f \in events, Competing(f, e), resolveConflict(e, f)
      PROVE  f \in Event /\ (Accepts(e, f) \/ Rejects(e, f))
  <2>1. f \in Event
    BY DEF IInv, TypeOK
  <2>2. QED
    BY <1>1, <1>2, <2>1, ResolutionAlternatives DEF Accepts, Rejects
<1>3. QED
  BY <1>1, <1>2, FinishAlternatives

(* The steps other than Finish leave the four stores alone. *)
LEMMA OtherStepsKeepStores ==
    ASSUME [Next]_vars, \A c \in Callers : ~Finish(c)
    PROVE  UNCHANGED <<events, subjectIndex, rejectedEvents, conflicts>>
BY DEF Next, vars, Tick, Begin

LEMMA CompetingIsEquivalence ==
    /\ \A e \in Event : Competing(e, e)
    /\ \A e, f \in Event : Competing(e, f) => Competing(f, e)
    /\ \A e, f, g \in Event : Competing(e, f) /\ Competing(f, g) => Competing(e, g)
BY DEF Competing, SamePhase

LEMMA OneSurvivorStep ==
    ASSUME IInv, [Next]_vars
    PROVE  OneSurvivorPerPhase'
<1> SUFFICES ASSUME NEW g \in events', NEW h \in events', Competing(g, h)
             PROVE  g = h
  BY DEF OneSurvivorPerPhase, Competing, SamePhase
<1>0. events \subseteq Event /\ events' \subseteq Event
  BY TypeStep DEF IInv, TypeOK
<1>1. \A x, y \in events : Competing(x, y) => x = y
  BY DEF IInv, OneSurvivorPerPhase
<1>2. CASE \A c \in Callers : ~Finish(c)
  BY <1>1, <1>2, OtherStepsKeepStores
<1>3. ASSUME NEW c \in Callers, Finish(c)
      PROVE  g = h
  <2> DEFINE e == pending[c]
  <2>1. e \in Event
    BY <1>3, FinishOutcomes
  <2>2. CASE (\A f \in events : ~Competing(f, e)) /\ Insert(e)
    BY <1>0, <1>1, <2>1, <2>2, CompetingIsEquivalence DEF Insert
  <2>3. ASSUME NEW f \in events, Competing(f, e), Accepts(e, f)
        PROVE  g = h
    BY <1>0, <1>1, <2>1, <2>3, CompetingIsEquivalence DEF Accepts
  <2>4. ASSUME NEW f \in events, Rejects(e, f)
        PROVE  g = h
    BY <1>1, <2>4 DEF Rejects
  <2>5. QED
    BY <1>3, <2>2, <2>3, <2>4, FinishOutcomes
<1>4. QED
  BY <1>2, <1>3

LEMMA SurvivorIsBestStep ==
    ASSUME IInv, [Next]_vars
    PROVE  SurvivorIsBest'
<1> SUFFICES ASSUME NEW r \in Recorded'
             PROVE  \E g \in events' : Competing(g, r) /\ chooseLedgerWinner(g, r) = g
  BY DEF SurvivorIsBest, Competing, SamePhase, chooseLedgerWinner, EventId
<1>0. events \subseteq Event /\ Recorded \subseteq Event
  BY DEF IInv, TypeOK, Recorded
<1>1. \A x \in Recorded : \E g \in events : Competing(g, x) /\ chooseLedgerWinner(g, x) = g
  BY DEF IInv, SurvivorIsBest
<1>2. CASE \A c \in Callers : ~Finish(c)
  BY <1>1, <1>2, OtherStepsKeepStores DEF Recorded
<1>3. ASSUME NEW c \in Callers, Finish(c)
      PROVE  \E g \in events' : Competing(g, r) /\ chooseLedgerWinner(g, r) = g
  <2> DEFINE e == pending[c]
  <2>1. e \in Event /\ Competing(e, e) /\ chooseLedgerWinner(e, e) = e
    BY <1>3, FinishOutcomes, CompetingIsEquivalence, WinnerReflexive
  <2>2. CASE Insert(e)
    BY <1>1, <2>1, <2>2 DEF Insert, Recorded
  <2>3. ASSUME NEW f \in events, f \in Event, Competing(f, e), Accepts(e, f)
        PROVE  \E g \in events' : Competing(g, r) /\ chooseLedgerWinner(g, r) = g
    <3>1. e \in events' /\ Recorded' = Recorded \cup {e}
      BY <2>3 DEF Accepts, Recorded
    <3>2. CASE r = e
      BY <2>1, <3>1, <3>2
    <3>3. CASE r \in Recorded
      <4>1. PICK g \in events : Competing(g, r) /\ chooseLedgerWinner(g, r) = g
        BY <1>1, <3>3
      <4>2. CASE g # f
        BY <2>3, <4>1, <4>2 DEF Accepts
      <4>3. CASE g = f
        <5>1. Competing(e, r)
          BY <1>0, <2>1, <2>3, <3>3, <4>1, <4>3, CompetingIsEquivalence
        <5>2. chooseLedgerWinner(e, f) = e
          BY <2>1, <2>3, WinnerSymmetric DEF Accepts
        <5>3. chooseLedgerWinner(e, r) = e
          BY <1>0, <2>1, <2>3, <3>3, <4>1, <4>3, <5>2, WinnerTransitive
        <5>4. QED
          BY <3>1, <5>1, <5>3
      <4>4. QED
        BY <4>2, <4>3
    <3>4. QED
      BY <3>1, <3>2, <3>3
  <2>4. ASSUME NEW f \in events, Competing(f, e), Rejects(e, f)
        PROVE  \E g \in events' : Competing(g, r) /\ chooseLedgerWinner(g, r) = g
    <3>1. events' = events /\ Recorded' = Recorded \cup {e}
      BY <2>4 DEF Rejects, Recorded
    <3>2. QED
      BY <1>1, <2>4, <3>1 DEF Rejects
  <2>5. QED
    BY <1>3, <2>2, <2>3, <2>4, FinishOutcomes
<1>4. QED
  BY <1>2, <1>3

LEMMA IndexStep ==
    ASSUME IInv, [Next]_vars
    PROVE  IndexMatchesEvents'
<1> SUFFICES ASSUME NEW s \in Subjects
             PROVE  subjectIndex'[s] = {g \in events' : g.subjectId = s}
  BY DEF IndexMatchesEvents
<1>1. subjectIndex[s] = {g \in events : g.subjectId = s}
  BY DEF IInv, IndexMatchesEvents
<1>2. CASE \A c \in Callers : ~Finish(c)
  BY <1>1, <1>2, OtherStepsKeepStores
<1>3. ASSUME NEW c \in Callers, Finish(c)
      PROVE  subjectIndex'[s] = {g \in events' : g.subjectId = s}
  <2> DEFINE e == pending[c]
  <2>1. e \in Event /\ e.subjectId \in Subjects
    BY <1>3, FinishAlternatives, EventFields
  <2>2. subjectIndex \in [Subjects -> SUBSET Event]
    BY DEF IInv, TypeOK
  <2>3. CASE Insert(e)
    BY <1>1, <2>1, <2>2, <2>3 DEF Insert
  <2>4. ASSUME NEW f \in events, Competing(f, e), resolveConflict(e, f)
        PROVE  subjectIndex'[s] = {g \in events' : g.subjectId = s}
    <3>1. f \in Event /\ f.subjectId = e.subjectId
      BY <2>4 DEF IInv, TypeOK, Competing
    <3>2. CASE /\ events' = (events \ {f}) \cup {e}
               /\ subjectIndex' = [subjectIndex EXCEPT ![e.subjectId] = (@ \ {f}) \cup {e}]
      BY <1>1, <2>1, <2>2, <3>1, <3>2
    <3>3. CASE UNCHANGED <<events, subjectIndex>>
      BY <1>1, <3>3
    <3>4. QED
      BY <2>1, <2>4, <3>1, <3>2, <3>3, ResolutionAlternatives
  <2>5. QED
    BY <1>3, <2>3, <2>4, FinishAlternatives
<1>4. QED
  BY <1>2, <1>3

-------------------------------------------------------------------------------
(* The number of survivors, from which seq is computed, never decreases:    *)
(* a rejected event leaves only when its winner takes its place.            *)
LEMMA SizeStep ==
    ASSUME IInv, [Next]_vars
    PROVE  IsFiniteSet(events') /\ nextSeq \in Int /\ nextSeq' \in Int /\ nextSeq <= nextSeq'
<1>1. IsFiniteSet(events) /\ Cardinality(events) \in Nat
  BY FS_CardinalityType DEF IInv
<1>2. SUFFICES IsFiniteSet(events') /\ Cardinality(events) <= Cardinality(events')
  <2>1. IsFiniteSet(events') => Cardinality(events') \in Nat
    BY FS_CardinalityType
  <2>2. QED
    BY <1>1, <1>2, <2>1 DEF nextSeq
<1>3. CASE events' = events
  BY <1>1, <1>3
<1>4. ASSUME NEW e, events' = events \cup {e}
      PROVE  IsFiniteSet(events') /\ Cardinality(events) <= Cardinality(events')
  <2>1. IsFiniteSet(events')
    BY <1>1, <1>4, FS_AddElement
  <2>2. Cardinality(events) <= Cardinality(events')
    BY <1>4, <2>1, FS_Subset
  <2>3. QED
    BY <2>1, <2>2
<1>5. ASSUME NEW e, NEW f \in events, e \notin events, events' = (events \ {f}) \cup {e}
      PROVE  IsFiniteSet(events') /\ Cardinality(events) <= Cardinality(events')
  <2> DEFINE rest == events \ {f}
  <2>1. IsFiniteSet(rest) /\ Cardinality(rest) = Cardinality(events) - 1
    BY <1>1, FS_RemoveElement
  <2>2. IsFiniteSet(rest \cup {e}) /\ Cardinality(rest \cup {e}) = Cardinality(rest) + 1
    <3>1. e \notin rest
      BY <1>5
    <3>2. QED
      BY <2>1, <3>1, FS_AddElement
  <2>3. QED
    BY <1>1, <1>5, <2>1, <2>2
<1>6. CASE \A c \in Callers : ~Finish(c)
  BY <1>3, <1>6, OtherStepsKeepStores
<1>7. ASSUME NEW c \in Callers, Finish(c)
      PROVE  IsFiniteSet(events') /\ Cardinality(events) <= Cardinality(events')
  <2> DEFINE e == pending[c]
  <2>1. CASE Insert(e)
    BY <1>4, <2>1 DEF Insert
  <2>2. ASSUME NEW f \in events, Competing(f, e), Accepts(e, f)
        PROVE  IsFiniteSet(events') /\ Cardinality(events) <= Cardinality(events')
    <3>1. CASE e \in events
      <4>1. e = f
        BY <2>2, <3>1 DEF IInv, OneSurvivorPerPhase
      <4>2. QED
        BY <1>3, <2>2, <4>1 DEF Accepts
    <3>2. CASE e \notin events
      BY <1>5, <2>2, <3>2 DEF Accepts
    <3>3. QED
      BY <3>1, <3>2
  <2>3. ASSUME NEW f \in events, Rejects(e, f)
        PROVE  IsFiniteSet(events') /\ Cardinality(events) <= Cardinality(events')
    BY <1>3, <2>3 DEF Rejects
  <2>4. QED
    BY <1>7, <2>1, <2>2, <2>3, FinishOutcomes
<1>8. QED
  BY <1>6, <1>7

(* A finished append adds its own event to the recorded ones, and no other. *)
LEMMA RecordedStep ==
    ASSUME IInv, [Next]_vars
    PROVE  \/ Recorded' = Recorded /\ \A c \in Callers : ~Finish(c)
           \/ \E c \in Callers : /\ Finish(c)
                                 /\ pending[c] # Idle
                                 /\ pending' = [pending EXCEPT ![c] = Idle]
                                 /\ Recorded' = Recorded \cup {pending[c]}
<1>1. CASE \A c \in Callers : ~Finish(c)
  BY <1>1, OtherStepsKeepStores DEF Recorded
<1>2. ASSUME NEW c \in Callers, Finish(c)
      PROVE  Recorded' = Recorded \cup {pending[c]}
  <2>1. CASE Insert(pending[c])
    BY <2>1 DEF Insert, Recorded
  <2>2. ASSUME NEW f \in events, Accepts(pending[c], f)
        PROVE  Recorded' = Recorded \cup {pending[c]}
    BY <2>2 DEF Accepts, Recorded
  <2>3. ASSUME NEW f \in events, Rejects(pending[c], f)
        PROVE  Recorded' = Recorded \cup {pending[c]}
    BY <2>3 DEF Rejects, Recorded
  <2>4. QED
    BY <1>2, <2>1, <2>2, <2>3, FinishOutcomes
<1>3. ASSUME NEW c \in Callers, Finish(c)
      PROVE  pending[c] # Idle /\ pending' = [pending EXCEPT ![c] = Idle]
  BY <1>3 DEF Finish
<1>4. QED
  BY <1>1, <1>2, <1>3

LEMMA SeqStep ==
    ASSUME IInv, [Next]_vars
    PROVE  SeqNotAhead'
<1>0. nextSeq \in Int /\ nextSeq' \in Int /\ nextSeq <= nextSeq'
  BY SizeStep
<1>1. /\ \A e \in Recorded : e \in Event /\ e.seq <= nextSeq
      /\ \A c \in Callers : pending[c] # Idle => pending[c] \in Event /\ pending[c].seq <= nextSeq
  BY DEF IInv, SeqNotAhead, TypeOK, Recorded, InFlight
<1>2. \A e \in Event : e.seq \in Int
  BY EventFields
<1>3. \A e \in Recorded' : e.seq <= nextSeq'
  BY <1>0, <1>1, <1>2, RecordedStep
<1>4. ASSUME NEW c \in Callers, pending'[c] # Idle
      PROVE  pending'[c].seq <= nextSeq'
  <2>0. pending \in [Callers -> Event \cup {Idle}]
    BY DEF IInv, TypeOK
  <2>1. CASE pending'[c] = pending[c]
    BY <1>0, <1>1, <1>2, <1>4, <2>1
  <2>2. ASSUME NEW d \in Callers, NEW t \in Types, NEW s \in Subjects,
               NEW n \in Terms, NEW p \in Payloads, Begin(d, t, s, n, p), d = c
        PROVE  pending'[c].seq <= nextSeq'
    <3>1. pending'[c].seq = nextSeq
      BY <2>0, <2>2 DEF Begin
    <3>2. QED
      BY <1>0, <3>1
  <2>3. pending'[c] = pending[c] \/ \E t \in Types, s \in Subjects, n \in Terms, p \in Payloads :
                                        Begin(c, t, s, n, p)
    BY <1>4, <2>0, IdleAssumption DEF Next, vars, Tick, Begin, Finish
  <2>4. QED
    BY <2>1, <2>2, <2>3
<1>5. QED
  BY <1>3, <1>4 DEF SeqNotAhead, InFlight

LEMMA StepIInv == IInv /\ [Next]_vars => IInv'
<1> SUFFICES ASSUME IInv, [Next]_vars PROVE IInv'
  OBVIOUS
<1>1. TypeOK' /\ OneSurvivorPerPhase' /\ SurvivorIsBest' /\ IndexMatchesEvents'
  BY TypeStep, OneSurvivorStep, SurvivorIsBestStep, IndexStep
<1>2. IsFiniteSet(events') /\ SeqNotAhead'
  BY SizeStep, SeqStep
<1>3. QED
  BY <1>1, <1>2 DEF IInv

(* The inductive invariant holds in every state of every behaviour. *)
THEOREM LedgerInvariant == Spec => []IInv
<1>1. QED
  BY InitIInv, StepIInv, PTL DEF Spec

(* The fields keep their shapes. *)
THEOREM TypeCorrect == Spec => []TypeOK
<1>1. IInv => TypeOK
  BY DEF IInv
<1>2. QED
  BY <1>1, LedgerInvariant, PTL

(* At most one event survives for a subject and phase (append-ledger.js:29-32, *)
(* 56-62), however many appends overlap.                                       *)
THEOREM LedgerUnique == Spec => []OneSurvivorPerPhase
<1>1. IInv => OneSurvivorPerPhase
  BY DEF IInv
<1>2. QED
  BY <1>1, LedgerInvariant, PTL

(* The survivor of a subject and phase is the best event ever appended for   *)
(* it by chooseLedgerWinner, in whatever order the digests complete.         *)
THEOREM LedgerReconciles == Spec => []SurvivorIsBest
<1>1. IInv => SurvivorIsBest
  BY DEF IInv
<1>2. QED
  BY <1>1, LedgerInvariant, PTL

(* The subject index and the map of events never disagree. *)
THEOREM IndexAgrees == Spec => []IndexMatchesEvents
<1>1. IInv => IndexMatchesEvents
  BY DEF IInv
<1>2. QED
  BY <1>1, LedgerInvariant, PTL

(* The seq of a new append is never below that of a recorded event. *)
THEOREM ReplayOrder == Spec => ReplayNeverGoesBack
<1> DEFINE NoBack == \A c \in Callers : pending[c] = Idle /\ pending'[c] # Idle =>
                        \A e \in Recorded : e.seq <= pending'[c].seq
<1>1. ASSUME IInv, [Next]_vars
      PROVE  [NoBack]_vars
  <2> SUFFICES ASSUME NEW c \in Callers, pending[c] = Idle, pending'[c] # Idle,
                      NEW e \in Recorded
               PROVE  e.seq <= pending'[c].seq
    OBVIOUS
  <2>0. pending \in [Callers -> Event \cup {Idle}]
    BY <1>1 DEF IInv, TypeOK
  <2>1. PICK t \in Types, s \in Subjects, n \in Terms, p \in Payloads : Begin(c, t, s, n, p)
    BY <1>1, <2>0 DEF Next, vars, Tick, Begin, Finish
  <2>2. pending'[c].seq = nextSeq
    BY <2>0, <2>1 DEF Begin
  <2>3. e.seq <= nextSeq
    BY <1>1 DEF IInv, SeqNotAhead
  <2>4. QED
    BY <2>2, <2>3
<1>2. QED
  BY <1>1, LedgerInvariant, PTL DEF Spec, ReplayNeverGoesBack

(* No step forgets a recorded event, and an append that returns has recorded *)
(* its own.                                                                  *)
THEOREM LedgerKeeps == Spec => NothingForgotten
<1> DEFINE Keeps == /\ Recorded \subseteq Recorded'
                    /\ \A c \in Callers : pending[c] # Idle /\ pending'[c] = Idle =>
                          pending[c] \in Recorded'
<1>1. ASSUME IInv, [Next]_vars
      PROVE  [Keeps]_vars
  <2>0. pending \in [Callers -> Event \cup {Idle}]
    BY <1>1 DEF IInv, TypeOK
  <2>1. Recorded \subseteq Recorded'
    BY <1>1, RecordedStep
  <2>2. ASSUME NEW c \in Callers, pending[c] # Idle, pending'[c] = Idle
        PROVE  pending[c] \in Recorded'
    <3>1. CASE \A d \in Callers : ~Finish(d)
      <4>1. pending'[c] = pending[c]
        BY <1>1, <2>0, <2>2, <3>1 DEF Next, vars, Tick, Begin
      <4>2. QED
        BY <2>2, <4>1
    <3>2. ASSUME NEW d \in Callers, Finish(d), Recorded' = Recorded \cup {pending[d]}
          PROVE  pending[c] \in Recorded'
      <4>1. c = d
        BY <2>0, <2>2, <3>2 DEF Finish
      <4>2. QED
        BY <3>2, <4>1
    <3>3. QED
      BY <1>1, <3>1, <3>2, RecordedStep
  <2>3. QED
    BY <2>1, <2>2
<1>2. QED
  BY <1>1, LedgerInvariant, PTL DEF Spec, NothingForgotten

-------------------------------------------------------------------------------
(* The audit trail of conflicts.                                           *)

LEMMA ConflictTrailStep ==
    ASSUME IInv, ConflictTrail, [Next]_vars
    PROVE  ConflictTrail'
<1>0. /\ events \subseteq Event
      /\ conflicts \in Seq(Resolution)
  BY DEF IInv, TypeOK
<1>1. CASE \A c \in Callers : ~Finish(c)
  BY <1>1, OtherStepsKeepStores DEF ConflictTrail, Competing, SamePhase
<1>2. ASSUME NEW c \in Callers, Finish(c)
      PROVE  ConflictTrail'
  <2> DEFINE e == pending[c]
  <2>1. e \in Event
    BY <1>2, FinishAlternatives
  <2>2. CASE Insert(e)
    BY <2>2 DEF Insert, ConflictTrail, Competing, SamePhase
  <2>3. ASSUME NEW f \in events, f \in Event, Competing(f, e), NEW w \in {e, f}, NEW l \in {e, f},
               conflicts' = Append(conflicts, [acceptedEvent |-> w, rejectedEvent |-> l]),
               rejectedEvents' = rejectedEvents \cup {l},
               w \in events', events \ {f} \subseteq events'
        PROVE  ConflictTrail'
    <3> DEFINE n == Len(conflicts) + 1
    <3>1. /\ DOMAIN conflicts = 1..Len(conflicts) /\ DOMAIN conflicts' = 1..n
          /\ \A i \in 1..Len(conflicts) : conflicts'[i] = conflicts[i]
          /\ conflicts'[n].acceptedEvent = w /\ conflicts'[n].rejectedEvent = l
          /\ Len(conflicts) \in Nat
      BY <1>0, <2>3
    <3>2. ASSUME NEW r \in rejectedEvents'
          PROVE  \E i \in DOMAIN conflicts' : conflicts'[i].rejectedEvent = r
      <4>1. CASE r = l
        BY <3>1, <4>1
      <4>2. CASE r \in rejectedEvents
        <5>1. PICK i \in DOMAIN conflicts : conflicts[i].rejectedEvent = r
          BY <4>2 DEF ConflictTrail
        <5>2. QED
          BY <3>1, <5>1
      <4>3. QED
        BY <2>3, <4>1, <4>2
    <3>3. ASSUME NEW i \in DOMAIN conflicts',
                 \A j \in DOMAIN conflicts' : j > i =>
                    ~Competing(conflicts'[j].acceptedEvent, conflicts'[i].acceptedEvent)
          PROVE  conflicts'[i].acceptedEvent \in events'
      <4>1. CASE i = n
        BY <2>3, <3>1, <4>1
      <4>2. CASE i # n
        <5> DEFINE k == conflicts[i].acceptedEvent
        <5>0. i \in 1..Len(conflicts) /\ n > i
          BY <3>1, <4>2
        <5>1. i \in DOMAIN conflicts /\ conflicts'[i].acceptedEvent = k /\ k \in Event /\ n > i
          <6>1. conflicts[i] \in Resolution
            BY <1>0, <5>0
          <6>2. k \in Event
            BY <6>1 DEF Resolution
          <6>3. QED
            BY <3>1, <5>0, <6>2
        <5>2. \A j \in DOMAIN conflicts : j > i => ~Competing(conflicts[j].acceptedEvent, k)
          BY <3>1, <3>3, <5>1
        <5>3. k \in events
          BY <5>1, <5>2 DEF ConflictTrail
        <5>4. ~Competing(w, k)
          BY <3>1, <3>3, <5>1
        <5>5. k # f
          BY <2>1, <2>3, <5>4, CompetingIsEquivalence
        <5>6. QED
          BY <2>3, <5>1, <5>3, <5>5
      <4>3. QED
        BY <4>1, <4>2
    <3>4. QED
      BY <3>2, <3>3 DEF ConflictTrail, Competing, SamePhase
  <2>4. ASSUME NEW f \in events, Competing(f, e), resolveConflict(e, f)
        PROVE  ConflictTrail'
    <3>1. f \in Event
      BY <1>0
    <3>2. CASE /\ events' = (events \ {f}) \cup {e}
               /\ rejectedEvents' = rejectedEvents \cup {f}
               /\ conflicts' = Append(conflicts, [acceptedEvent |-> e, rejectedEvent |-> f])
      <4>1. e \in events' /\ events \ {f} \subseteq events'
        BY <3>2
      <4>2. QED
        BY <2>3, <2>4, <3>1, <3>2, <4>1
    <3>3. CASE /\ events' = events
               /\ rejectedEvents' = rejectedEvents \cup {e}
               /\ conflicts' = Append(conflicts, [acceptedEvent |-> f, rejectedEvent |-> e])
      <4>1. f \in events' /\ events \ {f} \subseteq events'
        BY <3>3
      <4>2. QED
        BY <2>3, <2>4, <3>1, <3>3, <4>1
    <3>4. QED
      BY <2>1, <2>4, <3>1, <3>2, <3>3, ResolutionAlternatives
  <2>5. QED
    BY <1>2, <2>2, <2>4, FinishAlternatives
<1>3. QED
  BY <1>1, <1>2

(* The conflict records name every rejected event, and the last one for a    *)
(* subject and phase names its survivor.                                     *)
THEOREM LedgerAudit == Spec => []ConflictTrail
<1>1. Init => ConflictTrail
  BY DEF Init, ConflictTrail
<1>2. IInv /\ ConflictTrail /\ [Next]_vars => ConflictTrail'
  BY ConflictTrailStep
<1>3. QED
  BY <1>1, <1>2, LedgerInvariant, PTL DEF Spec

-------------------------------------------------------------------------------
(* The ledger implements a register per subject and phase.                 *)

LEMMA HeldValue ==
    ASSUME IInv
    PROVE  /\ DOMAIN Held = Keys
           /\ \A e \in events : KeyOfEvent(e) \in Keys /\ Held[KeyOfEvent(e)] = e
           /\ \A k \in Keys : (\A e \in events : KeyOfEvent(e) # k) => Held[k] = Idle
<1>1. \A e, f \in events : KeyOfEvent(e) = KeyOfEvent(f) => e = f
  BY DEF IInv, OneSurvivorPerPhase, KeyOfEvent, Competing, SamePhase
<1>2. \A e \in events : KeyOfEvent(e) \in Keys
  BY EventFields DEF IInv, TypeOK, KeyOfEvent, Keys, Phases
<1>3. QED
  BY <1>1, <1>2 DEF Held

LEMMA RegisterStep ==
    ASSUME IInv, IInv', [Next]_vars
    PROVE  [Register!Next]_Held
<1>1. CASE events' = events
  BY <1>1 DEF Held
<1>2. ASSUME NEW e \in Event,
             events' = events \cup {e} \/ \E f \in events : events' = (events \ {f}) \cup {e},
             \/ \A f \in events : ~Competing(f, e)
             \/ \E f \in events : /\ Competing(f, e) /\ Beats(e, f)
                                  /\ events' = (events \ {f}) \cup {e},
             \A f \in events : ~Competing(f, e) => f \in events'
      PROVE  Register!Submit(e)
  <2> DEFINE k == KeyOfEvent(e)
  <2>1. k \in Keys /\ e \in events' /\ Held'[k] = e
    <3>1. k \in Keys /\ e \in events'
      BY <1>2, EventFields DEF KeyOfEvent, Keys, Phases
    <3>2. \A g \in events' : KeyOfEvent(g) = k => g = e
      BY <3>1 DEF IInv, OneSurvivorPerPhase, KeyOfEvent, Competing, SamePhase
    <3>3. QED
      BY <3>1, <3>2 DEF Held
  <2>2. Held[k] = Idle \/ Beats(e, Held[k])
    BY <1>2, <2>1, HeldValue DEF KeyOfEvent, Competing, SamePhase
  <2>3. ASSUME NEW j \in Keys, j # k
        PROVE  Held'[j] = Held[j]
    <3>1. \A f \in events : KeyOfEvent(f) = j => f \in events'
      BY <1>2, <2>3 DEF KeyOfEvent, Competing, SamePhase
    <3>2. \A f \in events' : KeyOfEvent(f) = j => f \in events
      BY <1>2, <2>3
    <3>3. QED
      BY <3>1, <3>2, <2>3 DEF Held
  <2>4. DOMAIN Held = Keys /\ DOMAIN Held' = Keys
    BY DEF Held
  <2>5. Held' = [Held EXCEPT ![k] = e]
    BY <2>1, <2>3, <2>4 DEF Held
  <2>6. QED
    BY <2>2, <2>5 DEF Register!Submit
<1>3. CASE \A c \in Callers : ~Finish(c)
  BY <1>1, <1>3, OtherStepsKeepStores
<1>4. ASSUME NEW c \in Callers, Finish(c)
      PROVE  [Register!Next]_Held
  <2> DEFINE e == pending[c]
  <2>1. e \in Event
    BY <1>4, FinishOutcomes
  <2>2. CASE (\A f \in events : ~Competing(f, e)) /\ Insert(e)
    BY <1>2, <2>1, <2>2 DEF Insert, Register!Next
  <2>3. ASSUME NEW f \in events, Competing(f, e), Accepts(e, f)
        PROVE  [Register!Next]_Held
    <3>1. CASE e = f
      BY <1>1, <2>3, <3>1 DEF Accepts
    <3>2. CASE e # f
      <4>1. Beats(e, f) /\ events' = (events \ {f}) \cup {e}
        BY <2>3, <3>2 DEF Accepts, Beats
      <4>2. \A g \in events : ~Competing(g, e) => g \in events'
        BY <2>3, <4>1
      <4>3. Register!Submit(e)
        BY <1>2, <2>1, <2>3, <4>1, <4>2
      <4>4. QED
        BY <2>1, <4>3 DEF Register!Next
    <3>3. QED
      BY <3>1, <3>2
  <2>4. ASSUME NEW f \in events, Rejects(e, f)
        PROVE  [Register!Next]_Held
    BY <1>1, <2>4 DEF Rejects
  <2>5. QED
    BY <1>4, <2>2, <2>3, <2>4, FinishOutcomes
<1>5. QED
  BY <1>3, <1>4

(* append() is a submission to the register of its subject and phase: it     *)
(* takes effect when the digest is ready, and at no other moment.            *)
THEOREM LedgerImplementsRegister == Spec => ImplementsRegister
<1>1. Init => Register!Init
  BY DEF Init, Register!Init, Held
<1>2. IInv /\ IInv' /\ [Next]_vars => [Register!Next]_Held
  BY RegisterStep
<1>3. QED
  BY <1>1, <1>2, LedgerInvariant, PTL DEF Spec, Register!Spec, ImplementsRegister

-------------------------------------------------------------------------------
(* The queue. *)
EnqueuedFirst == \A j \in JobIds : Known(j) => enqueued[j] # NoJob

QueueInv == QueueTypeOK /\ EnqueuedFirst /\ StatusMatchesClaim /\ RetryBudget

LEMMA InitQueueInv == QueueInit => QueueInv
BY ClockAssumption
   DEF QueueInit, QueueInv, QueueTypeOK, EnqueuedFirst, StatusMatchesClaim, RetryBudget, Known

(* What the fields of a known job are, now and as it was enqueued. *)
LEMMA JobFields ==
    ASSUME QueueTypeOK, NEW j \in JobIds, Known(j)
    PROVE  /\ jobs[j] \in Job /\ jobs[j].status \in Statuses
           /\ jobs[j].attempts \in Nat /\ jobs[j].maxRetries \in Nat
           /\ jobs[j].claimLeaseMs \in Nat /\ jobs[j].expiresAt \in Nat
BY DEF QueueTypeOK, Known, Job

LEMMA EnqueuedFields ==
    ASSUME QueueTypeOK, EnqueuedFirst, NEW j \in JobIds, Known(j)
    PROVE  enqueued[j] \in Job /\ enqueued[j].attempts \in Nat
BY DEF QueueTypeOK, EnqueuedFirst, Job

(* What every step has to show of one job. *)
JobInv(j) ==
    /\ Known(j) => enqueued[j] # NoJob
    /\ Known(j) /\ jobs[j].status = "claimed" /\ claims[j] = NoClaim => Untouched(j)
    /\ claims[j] # NoClaim => Known(j) /\ (jobs[j].status = "claimed" \/ Untouched(j))
    /\ Known(j) =>
         /\ jobs[j].attempts >= enqueued[j].attempts
         /\ jobs[j].attempts > enqueued[j].attempts => jobs[j].attempts <= jobs[j].maxRetries
         /\ jobs[j].status = "failed" => Untouched(j) \/ jobs[j].attempts >= jobs[j].maxRetries

LEMMA JobInvs == QueueInv <=> QueueTypeOK /\ \A j \in JobIds : JobInv(j)
BY DEF QueueInv, EnqueuedFirst, StatusMatchesClaim, RetryBudget, JobInv

LEMMA JobInvsNext == QueueTypeOK' /\ (\A j \in JobIds : JobInv(j)') => QueueInv'
BY DEF QueueInv, EnqueuedFirst, StatusMatchesClaim, RetryBudget, JobInv

LEMMA SameJob ==
    ASSUME NEW j \in JobIds, JobInv(j), jobs'[j] = jobs[j], claims'[j] = claims[j],
           enqueued'[j] = enqueued[j]
    PROVE  JobInv(j)'
BY DEF JobInv, Known, Untouched

LEMMA EnqueueStep ==
    ASSUME QueueInv, NEW j \in JobIds, NEW given \in Given, NEW m \in Models, NEW t \in Timeouts,
           NEW l \in Leases, NEW n \in Retries, enqueue(j, given, m, t, l, n)
    PROVE  QueueInv'
<1> DEFINE new == [modelId |-> m, expiresAt |-> clock + t, claimLeaseMs |-> l, maxRetries |-> n,
                   status |-> given.status, attempts |-> given.attempts,
                   result |-> given.result]
<1>0. /\ clock \in Nat /\ t \in Nat /\ n \in Nat /\ l \in Nat
  BY ParameterAssumption, ClockAssumption DEF QueueInv, QueueTypeOK
<1>1a. /\ given.status \in Statuses /\ given.attempts \in Attempts
      /\ given.result \in Results \cup {NoResult}
  BY DEF Given
<1>1b. given.attempts \in Nat
  BY <1>1a, ParameterAssumption
<1>1. new \in Job
  BY <1>0, <1>1a, <1>1b DEF Job
<1>2. /\ jobs' = [jobs EXCEPT ![j] = new] /\ claims' = claims /\ clock' = clock
      /\ enqueued' = [enqueued EXCEPT ![j] = jobs'[j]]
      /\ jobs \in [JobIds -> Job \cup {NoJob}] /\ enqueued \in [JobIds -> Job \cup {NoJob}]
  BY DEF enqueue, QueueInv, QueueTypeOK
<1>3. QueueTypeOK'
  BY <1>1, <1>2 DEF QueueInv, QueueTypeOK
<1>4. JobInv(j)'
  <2>1. jobs'[j] = new /\ enqueued'[j] = new /\ new # NoJob
    BY <1>1, <1>2, AbsentAssumption
  <2>2. new.attempts \in Nat
    BY <1>1 DEF Job
  <2> HIDE DEF new
  <2>3. QED
    BY <2>1, <2>2 DEF JobInv, Known, Untouched
<1>5. \A k \in JobIds \ {j} : JobInv(k)'
  BY <1>2, JobInvs, SameJob
<1>6. QED
  BY <1>3, <1>4, <1>5, JobInvsNext

LEMMA ClaimStep ==
    ASSUME QueueInv, NEW j \in JobIds, NEW w \in Workers, claim(j, w)
    PROVE  QueueInv'
<1> DEFINE new == [workerIdentity |-> w, claimedAt |-> clock,
                   expiresAt |-> clock + jobs[j].claimLeaseMs]
           job == [jobs[j] EXCEPT !.status = "claimed"]
<1>0. /\ jobs[j] \in Job /\ jobs[j].claimLeaseMs \in Nat /\ clock \in Nat
  BY JobFields, ClockAssumption DEF QueueInv, QueueTypeOK, claim
<1>1. new \in Claim /\ job \in Job
  BY <1>0 DEF Claim, Job, Statuses
<1>2. /\ jobs' = [jobs EXCEPT ![j] = job] /\ claims' = [claims EXCEPT ![j] = new]
      /\ clock' = clock /\ enqueued' = enqueued
      /\ jobs \in [JobIds -> Job \cup {NoJob}] /\ claims \in [JobIds -> Claim \cup {NoClaim}]
  BY DEF claim, QueueInv, QueueTypeOK
<1>3. QueueTypeOK'
  BY <1>1, <1>2 DEF QueueInv, QueueTypeOK
<1>4. JobInv(j)'
  <2>1. job.status = "claimed" /\ job.attempts = jobs[j].attempts /\ job.maxRetries = jobs[j].maxRetries
    BY <1>0 DEF Job
  <2>2. jobs'[j] = job /\ claims'[j] = new /\ new # NoClaim /\ job # NoJob
    BY <1>1, <1>2, AbsentAssumption
  <2>3. JobInv(j) /\ Known(j)
    BY JobInvs DEF claim
  <2> HIDE DEF job, new
  <2>4. QED
    BY <1>2, <2>1, <2>2, <2>3 DEF JobInv, Known
<1>5. \A k \in JobIds \ {j} : JobInv(k)'
  BY <1>2, JobInvs, SameJob
<1>6. QED
  BY <1>3, <1>4, <1>5, JobInvsNext

LEMMA ReapStep ==
    ASSUME QueueInv, reapExpiredClaims
    PROVE  QueueInv'
<1>1. /\ clock' = clock /\ enqueued' = enqueued
      /\ \A j \in JobIds : claims'[j] = IF j \in lapsed THEN NoClaim ELSE claims[j]
      /\ \A j \in JobIds : jobs'[j] = IF j \in lapsed /\ Known(j) THEN afterLapse(jobs[j]) ELSE jobs[j]
      /\ claims' = [j \in JobIds |-> IF j \in lapsed THEN NoClaim ELSE claims[j]]
      /\ jobs' = [j \in JobIds |-> IF j \in lapsed /\ Known(j) THEN afterLapse(jobs[j]) ELSE jobs[j]]
  BY DEF reapExpiredClaims
<1>2. ASSUME NEW j \in JobIds, Known(j)
      PROVE  LET a == afterLapse(jobs[j]) IN
             /\ a \in Job /\ a # NoJob /\ a.maxRetries = jobs[j].maxRetries
             /\ \/ /\ a.status = "requeued" /\ a.attempts = jobs[j].attempts + 1
                   /\ jobs[j].attempts < jobs[j].maxRetries
                \/ /\ a.status = "failed" /\ a.attempts = jobs[j].attempts
                   /\ jobs[j].attempts >= jobs[j].maxRetries
  <2>1. jobs[j] \in Job /\ jobs[j].attempts \in Nat /\ jobs[j].maxRetries \in Nat
    BY <1>2, JobFields DEF QueueInv
  <2>2. CASE jobs[j].attempts < jobs[j].maxRetries
    <3> DEFINE a == [jobs[j] EXCEPT !.status = "requeued", !.attempts = jobs[j].attempts + 1]
    <3>1. afterLapse(jobs[j]) = a
      BY <2>2 DEF afterLapse
    <3>2. a \in Job
      <4>1. jobs[j].attempts + 1 \in Nat
        BY <2>1
      <4>2. QED
        BY <2>1, <4>1 DEF Job, Statuses
    <3>3. a.status = "requeued" /\ a.attempts = jobs[j].attempts + 1 /\ a.maxRetries = jobs[j].maxRetries
      BY <2>1 DEF Job
    <3>4. QED
      BY <2>2, <3>1, <3>2, <3>3, AbsentAssumption
  <2>3. CASE ~(jobs[j].attempts < jobs[j].maxRetries)
    <3> DEFINE a == [jobs[j] EXCEPT !.status = "failed"]
    <3>1. afterLapse(jobs[j]) = a
      BY <2>3 DEF afterLapse
    <3>2. a \in Job
      BY <2>1 DEF Job, Statuses
    <3>3. a.status = "failed" /\ a.attempts = jobs[j].attempts /\ a.maxRetries = jobs[j].maxRetries
      BY <2>1 DEF Job
    <3>4. jobs[j].attempts >= jobs[j].maxRetries
      BY <2>1, <2>3
    <3>5. QED
      BY <3>1, <3>2, <3>3, <3>4, AbsentAssumption
  <2>4. QED
    BY <2>2, <2>3
<1>3. QueueTypeOK'
  <2>1. jobs' \in [JobIds -> Job \cup {NoJob}]
    BY <1>1, <1>2 DEF QueueInv, QueueTypeOK
  <2>2. claims' \in [JobIds -> Claim \cup {NoClaim}]
    BY <1>1 DEF QueueInv, QueueTypeOK
  <2>3. QED
    BY <1>1, <2>1, <2>2 DEF QueueInv, QueueTypeOK
<1>4. ASSUME NEW j \in JobIds
      PROVE  JobInv(j)'
  <2>1. JobInv(j) /\ enqueued'[j] = enqueued[j]
    BY <1>1, JobInvs
  <2>2. CASE j \in lapsed
    <3>1. Known(j) /\ claims'[j] = NoClaim /\ jobs'[j] = afterLapse(jobs[j])
      BY <1>1, <2>1, <2>2 DEF lapsed, JobInv
    <3>2. /\ jobs[j].attempts \in Nat /\ jobs[j].maxRetries \in Nat
          /\ enqueued[j].attempts \in Nat
      BY <3>1, JobFields, EnqueuedFields DEF QueueInv
    <3> DEFINE a == afterLapse(jobs[j])
    <3>3. /\ a # NoJob /\ a.maxRetries = jobs[j].maxRetries
          /\ \/ /\ a.status = "requeued" /\ a.attempts = jobs[j].attempts + 1
                /\ jobs[j].attempts < jobs[j].maxRetries
             \/ /\ a.status = "failed" /\ a.attempts = jobs[j].attempts
                /\ jobs[j].attempts >= jobs[j].maxRetries
      BY <1>2, <3>1
    <3> HIDE DEF a
    <3>4. /\ jobs[j].attempts >= enqueued[j].attempts
          /\ jobs[j].attempts > enqueued[j].attempts => jobs[j].attempts <= jobs[j].maxRetries
          /\ enqueued[j] # NoJob
      BY <2>1, <3>1 DEF JobInv
    <3>5. QED
      BY <2>1, <3>1, <3>2, <3>3, <3>4 DEF JobInv, Known, a
  <2>3. CASE j \notin lapsed
    BY <1>1, <2>1, <2>3, SameJob
  <2>4. QED
    BY <2>2, <2>3
<1>5. QED
  BY <1>3, <1>4, JobInvsNext

LEMMA CompleteStep ==
    ASSUME QueueInv, NEW j \in JobIds, NEW r \in Results, complete(j, r)
    PROVE  QueueInv'
<1> DEFINE job == [jobs[j] EXCEPT !.status = "completed", !.result = r]
<1>0. jobs[j] \in Job
  BY JobFields DEF QueueInv, complete
<1>1. job \in Job
  BY <1>0 DEF Job, Statuses
<1>2. /\ jobs' = [jobs EXCEPT ![j] = job] /\ claims' = [claims EXCEPT ![j] = NoClaim]
      /\ clock' = clock /\ enqueued' = enqueued
      /\ jobs \in [JobIds -> Job \cup {NoJob}] /\ claims \in [JobIds -> Claim \cup {NoClaim}]
  BY DEF complete, QueueInv, QueueTypeOK
<1>3. QueueTypeOK'
  BY <1>1, <1>2 DEF QueueInv, QueueTypeOK
<1>4. JobInv(j)'
  <2>1. /\ job.status = "completed" /\ job.attempts = jobs[j].attempts
        /\ job.maxRetries = jobs[j].maxRetries
    BY <1>0 DEF Job
  <2>2. jobs'[j] = job /\ claims'[j] = NoClaim /\ job # NoJob
    BY <1>1, <1>2, AbsentAssumption
  <2>3. JobInv(j) /\ Known(j)
    BY JobInvs DEF complete
  <2> HIDE DEF job
  <2>4. QED
    BY <1>2, <2>1, <2>2, <2>3 DEF JobInv, Known
<1>5. \A k \in JobIds \ {j} : JobInv(k)'
  BY <1>2, JobInvs, SameJob
<1>6. QED
  BY <1>3, <1>4, <1>5, JobInvsNext

LEMMA StepQueueInv == QueueInv /\ [QueueNext]_queueVars => QueueInv'
<1> SUFFICES ASSUME QueueInv, [QueueNext]_queueVars PROVE QueueInv'
  OBVIOUS
<1>1. CASE QueueTick
  <2>1. QueueTypeOK'
    BY <1>1, ClockAssumption DEF QueueTick, QueueInv, QueueTypeOK
  <2>2. \A j \in JobIds : JobInv(j)'
    BY <1>1, JobInvs, SameJob DEF QueueTick
  <2>3. QED
    BY <2>1, <2>2, JobInvsNext
<1>2. CASE UNCHANGED queueVars
  <2>1. QueueTypeOK'
    BY <1>2 DEF queueVars, QueueInv, QueueTypeOK
  <2>2. \A j \in JobIds : JobInv(j)'
    BY <1>2, JobInvs, SameJob DEF queueVars
  <2>3. QED
    BY <2>1, <2>2, JobInvsNext
<1>3. QED
  BY <1>1, <1>2, EnqueueStep, ClaimStep, ReapStep, CompleteStep DEF QueueNext

(* The inductive invariant of the queue. *)
THEOREM QueueInvariant == QueueSpec => []QueueInv
<1>1. QED
  BY InitQueueInv, StepQueueInv, PTL DEF QueueSpec

(* The maps keep their shapes. *)
THEOREM QueueTypeCorrect == QueueSpec => []QueueTypeOK
<1>1. QueueInv => QueueTypeOK
  BY DEF QueueInv
<1>2. QED
  BY <1>1, QueueInvariant, PTL

(* job.status and this.claims agree on every job that was touched since it   *)
(* was enqueued, whatever status it came with (job-queue.js:16, 29-30,       *)
(* 39-47, 56-58).                                                            *)
THEOREM QueueStatus == QueueSpec => []StatusMatchesClaim
<1>1. QueueInv => StatusMatchesClaim
  BY DEF QueueInv
<1>2. QED
  BY <1>1, QueueInvariant, PTL

(* A job is requeued only while it has retries left of those that were left  *)
(* when it was enqueued, and the reaper fails it only when none is.          *)
THEOREM QueueRetries == QueueSpec => []RetryBudget
<1>1. QueueInv => RetryBudget
  BY DEF QueueInv
<1>2. QED
  BY <1>1, QueueInvariant, PTL

-------------------------------------------------------------------------------
(* The claims map implements a lease table.                                *)

LEMMA LeaseMapValue ==
    ASSUME QueueTypeOK, NEW j \in JobIds
    PROVE  /\ claims[j] = NoClaim <=> LeaseMap[j] = NoClaim
           /\ claims[j] # NoClaim =>
                /\ claims[j] \in Claim /\ claims[j].expiresAt \in Nat
                /\ LeaseMap[j] = [owner |-> claims[j].workerIdentity, until |-> claims[j].expiresAt]
                /\ LeaseMap[j].until = claims[j].expiresAt
<1>1. ASSUME claims[j] # NoClaim
      PROVE  /\ claims[j] \in Claim /\ claims[j].expiresAt \in Nat
             /\ LeaseMap[j] = [owner |-> claims[j].workerIdentity, until |-> claims[j].expiresAt]
             /\ LeaseMap[j] # NoClaim
  <2>1. claims[j] \in Claim
    BY <1>1 DEF QueueTypeOK
  <2>2. claims[j].workerIdentity \in Workers /\ claims[j].expiresAt \in Nat
    BY <2>1 DEF Claim
  <2>3. LeaseMap[j] = [owner |-> claims[j].workerIdentity, until |-> claims[j].expiresAt]
    BY <1>1 DEF LeaseMap, LeaseOf
  <2>4. LeaseMap[j] \in [owner: Workers, until: Nat]
    BY <2>2, <2>3
  <2>5. QED
    BY <2>1, <2>2, <2>3, <2>4, AbsentAssumption
<1>2. claims[j] = NoClaim => LeaseMap[j] = NoClaim
  BY DEF LeaseMap
<1>3. QED
  BY <1>1, <1>2

LEMMA TableStep ==
    ASSUME QueueInv, QueueInv', [QueueNext]_queueVars
    PROVE  [Table!Next]_(Table!vars)
<1> USE DEF Table!vars
<1>0. QueueTypeOK /\ QueueTypeOK' /\ DOMAIN LeaseMap = JobIds /\ DOMAIN LeaseMap' = JobIds
  BY DEF QueueInv, LeaseMap
<1>1. CASE QueueTick
  BY <1>1 DEF QueueTick, LeaseMap, Table!Next, Table!Tick
<1>2. ASSUME NEW j \in JobIds, NEW given \in Given, NEW m \in Models, NEW t \in Timeouts,
             NEW l \in Leases, NEW n \in Retries, enqueue(j, given, m, t, l, n)
      PROVE  UNCHANGED <<clock, LeaseMap>>
  BY <1>2 DEF enqueue, LeaseMap
<1>3. ASSUME NEW j \in JobIds, NEW w \in Workers, claim(j, w)
      PROVE  Table!Grant(j)
  <2> DEFINE new == [workerIdentity |-> w, claimedAt |-> clock,
                     expiresAt |-> clock + jobs[j].claimLeaseMs]
             l == [owner |-> w, until |-> clock + jobs[j].claimLeaseMs]
  <2>0. clock \in Nat /\ jobs[j].claimLeaseMs \in Nat
    BY <1>0, <1>3, JobFields, ClockAssumption DEF QueueTypeOK, claim
  <2>1. ~Table!InForce(j)
    BY <1>0, <1>3, <2>0, LeaseMapValue DEF claim, activeClaim, Expired, Table!InForce
  <2>2. new \in Claim /\ new # NoClaim
    BY <2>0, AbsentAssumption DEF Claim
  <2>3. claims' = [claims EXCEPT ![j] = new] /\ claims \in [JobIds -> Claim \cup {NoClaim}]
    BY <1>0, <1>3 DEF claim, QueueTypeOK
  <2>4. LeaseMap'[j] = l
    BY <2>2, <2>3 DEF LeaseMap, LeaseOf
  <2>5. \A k \in JobIds : k # j => LeaseMap'[k] = LeaseMap[k]
    BY <2>3 DEF LeaseMap
  <2>6. LeaseMap' = [LeaseMap EXCEPT ![j] = LeaseMap'[j]]
    BY <2>5 DEF LeaseMap
  <2>7. l \in Table!Lease /\ l.until >= clock
    BY <2>0 DEF Table!Lease
  <2>8. clock' = clock
    BY <1>3 DEF claim
  <2>9. QED
    BY <2>1, <2>4, <2>6, <2>7, <2>8 DEF Table!Grant
<1>4. CASE reapExpiredClaims
  <2>1. \A j \in lapsed : LeaseMap[j] # NoClaim /\ ~Table!InForce(j)
    <3> SUFFICES ASSUME NEW j \in lapsed
                 PROVE  LeaseMap[j] # NoClaim /\ ~Table!InForce(j)
      OBVIOUS
    <3>1. j \in JobIds /\ claims[j] # NoClaim /\ claims[j].expiresAt < clock /\ clock \in Nat
      BY <1>0, ClockAssumption DEF lapsed, Expired, QueueTypeOK
    <3>2. QED
      BY <1>0, <3>1, LeaseMapValue DEF Table!InForce
  <2>2. LeaseMap' = [j \in JobIds |-> IF j \in lapsed THEN NoClaim ELSE LeaseMap[j]]
    <3>1. \A j \in JobIds : claims'[j] = IF j \in lapsed THEN NoClaim ELSE claims[j]
      BY <1>4 DEF reapExpiredClaims
    <3>2. \A j \in JobIds : LeaseMap'[j] = IF j \in lapsed THEN NoClaim ELSE LeaseMap[j]
      BY <3>1 DEF LeaseMap, LeaseOf
    <3>3. QED
      BY <3>2 DEF LeaseMap
  <2>3. clock' = clock /\ lapsed \in SUBSET JobIds
    BY <1>4 DEF reapExpiredClaims, lapsed
  <2>4. Table!Lapse(lapsed)
    BY <2>1, <2>2, <2>3 DEF Table!Lapse
  <2>5. QED
    BY <2>3, <2>4 DEF Table!Next
<1>5. ASSUME NEW j \in JobIds, NEW r \in Results, complete(j, r)
      PROVE  Table!Release(j)
  <2>1. claims' = [claims EXCEPT ![j] = NoClaim] /\ claims \in [JobIds -> Claim \cup {NoClaim}]
    BY <1>0, <1>5 DEF complete, QueueTypeOK
  <2>2. LeaseMap' = [LeaseMap EXCEPT ![j] = NoClaim]
    <3>1. \A k \in JobIds : LeaseMap'[k] = IF k = j THEN NoClaim ELSE LeaseMap[k]
      BY <2>1 DEF LeaseMap, LeaseOf
    <3>2. QED
      BY <3>1 DEF LeaseMap
  <2>3. QED
    BY <1>5, <2>2 DEF complete, Table!Release
<1>6. CASE UNCHANGED queueVars
  BY <1>6 DEF queueVars, LeaseMap
<1>7. QED
  BY <1>1, <1>2, <1>3, <1>4, <1>5, <1>6 DEF QueueNext, Table!Next

(* The claims map implements a lease table: no claim in force is replaced or *)
(* reaped, for any number of workers and any timing of the reaper.           *)
THEOREM QueueImplementsLeaseTable == QueueSpec => ImplementsLeaseTable
<1>1. QueueInit => Table!Init
  BY DEF QueueInit, Table!Init, LeaseMap
<1>2. QueueInv /\ QueueInv' /\ [QueueNext]_queueVars => [Table!Next]_(Table!vars)
  BY TableStep
<1>3. QED
  BY <1>1, <1>2, QueueInvariant, PTL DEF QueueSpec, Table!Spec, ImplementsLeaseTable
================================================================================

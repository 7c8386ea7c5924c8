----------------------------- MODULE AppendLedger -----------------------------
(***************************************************************************)
(* The append ledger of shared/append-ledger/append-ledger.js.             *)
(*                                                                         *)
(* append() runs in two steps around its one await: the body, with its     *)
(* seq and signedAt, is built at the call (Begin); when the SHA-256 digest *)
(* is ready the conflict search, the resolution and the index update run   *)
(* without a further suspension (Finish).  Several calls may be suspended  *)
(* at once, one per member of Callers, and resume in any order.            *)
(*                                                                         *)
(* An event is its body; EventId(e) is its digest, an injective number, so *)
(* that the Map keyed by eventId is a set of bodies.  roomId and signedBy  *)
(* are the same for every event of a ledger, and prev is [] in every call  *)
(* of the repository: they are left out.                                   *)
(***************************************************************************)
EXTENDS Clock, Sequences, FiniteSets

CONSTANTS
    Callers,        \* concurrent calls of append()
    Subjects,       \* subjectId values
    Types,          \* event types, "job.claimed", "route.failed", ...
    PhaseOf(_),     \* the last dot-separated part of a type
    Terms,          \* election terms; 0 is the default
    Payloads,       \* payload values
    Digest(_),      \* sha256Ref of a body, compared as a string
    Idle,           \* a caller that is not suspended in append()
    MaxAppends      \* bound: calls of append() in a behaviour

VARIABLES
    pending,        \* [Callers -> the body being hashed, or Idle]
    events,         \* this.events, the surviving events
    subjectIndex,   \* this.subjectIndex: the indexed events of each subject
    rejectedEvents, \* this.rejectedEvents
    conflicts       \* this.conflicts, in order

vars == <<clock, pending, events, subjectIndex, rejectedEvents, conflicts>>

Event == [type: Types, subjectId: Subjects, term: Terms, seq: 1..MaxAppends,
          payload: Payloads, signedAt: 0..MaxClock]

(* A conflict record; its type, subject and reason are fixed by the events. *)
Resolution == [acceptedEvent: Event, rejectedEvent: Event]

ASSUME BoundsAssumption == MaxAppends \in Nat
ASSUME CallersAssumption == IsFiniteSet(Callers)
ASSUME TermsAssumption == Terms \subseteq Int
ASSUME IdleAssumption == Idle \notin Event
ASSUME DigestAssumption ==
    /\ \A e \in Event : Digest(e) \in Int
    /\ \A e, f \in Event : Digest(e) = Digest(f) => e = f

EventId(e) == Digest(e)

SamePhase(e, f) == PhaseOf(e.type) = PhaseOf(f.type)

Competing(e, f) == e.subjectId = f.subjectId /\ SamePhase(e, f)

chooseLedgerWinner(a, b) ==
    IF a.term # b.term THEN IF a.term > b.term THEN a ELSE b
    ELSE IF a.signedAt # b.signedAt THEN IF a.signedAt < b.signedAt THEN a ELSE b
    ELSE IF EventId(a) < EventId(b) THEN a ELSE b

Recorded == events \cup rejectedEvents

InFlight == {c \in Callers : pending[c] # Idle}

(* Every finished call either adds an event or a conflict. *)
Calls == Cardinality(events) + Len(conflicts) + Cardinality(InFlight)

-------------------------------------------------------------------------------
Init ==
    /\ clock = 0
    /\ pending = [c \in Callers |-> Idle]
    /\ events = {}
    /\ subjectIndex = [s \in Subjects |-> {}]
    /\ rejectedEvents = {}
    /\ conflicts = <<>>

Tick ==
    /\ clock < MaxClock
    /\ clock' = clock + 1
    /\ UNCHANGED <<pending, events, subjectIndex, rejectedEvents, conflicts>>

(* A definition with "Mutant:" in its comment is not the code's: it is the   *)
(* next definition with a bug put in, for checking that a property sees it.  *)

nextSeq == Cardinality(events) + 1

(* Mutant: numbers the events of each phase by themselves. *)
BeginPerPhase(c, type, subject, term, payload) ==
    /\ pending[c] = Idle /\ Calls < MaxAppends
    /\ pending' = [pending EXCEPT ![c] =
         [type |-> type, subjectId |-> subject, term |-> term, payload |-> payload,
          seq |-> Cardinality({e \in Recorded : PhaseOf(e.type) = PhaseOf(type)}) + 1,
          signedAt |-> clock]]
    /\ UNCHANGED <<clock, events, subjectIndex, rejectedEvents, conflicts>>

(* append() up to the await: seq and signedAt are read now. *)
Begin(c, type, subject, term, payload) ==
    /\ pending[c] = Idle
    /\ Calls < MaxAppends
    /\ pending' = [pending EXCEPT ![c] =
         [type |-> type, subjectId |-> subject, term |-> term, seq |-> nextSeq,
          payload |-> payload, signedAt |-> clock]]
    /\ UNCHANGED <<clock, events, subjectIndex, rejectedEvents, conflicts>>

(* Mutant: compares whole types. *)
findConflictOfType(e) == {f \in subjectIndex[e.subjectId] : f.type = e.type}

(* The candidates `find` may return.  The list is searched front to back;   *)
(* which of several matches it meets first is left open.                    *)
findConflict(e) == {f \in subjectIndex[e.subjectId] : SamePhase(f, e)}

Insert(e) ==
    /\ events' = events \cup {e}
    /\ subjectIndex' = [subjectIndex EXCEPT ![e.subjectId] = @ \cup {e}]
    /\ UNCHANGED <<rejectedEvents, conflicts>>

Lost(winner, loser) ==
    /\ rejectedEvents' = rejectedEvents \cup {loser}
    /\ conflicts' = Append(conflicts, [acceptedEvent |-> winner, rejectedEvent |-> loser])

(* Mutants: the first event of a phase wins; the last one does; the index is *)
(* left as it was.                                                           *)
firstWins(incoming, existing) ==
    Lost(existing, incoming) /\ UNCHANGED <<events, subjectIndex>>

lastWins(incoming, existing) ==
    /\ Lost(incoming, existing)
    /\ events' = (events \ {existing}) \cup {incoming}
    /\ subjectIndex' = [subjectIndex EXCEPT ![incoming.subjectId] =
                          (@ \ {existing}) \cup {incoming}]

indexLeft(incoming, existing) ==
    IF chooseLedgerWinner(existing, incoming) = existing
      THEN firstWins(incoming, existing)
      ELSE /\ Lost(incoming, existing)
           /\ events' = (events \ {existing}) \cup {incoming}
           /\ UNCHANGED subjectIndex

resolveConflict(incoming, existing) ==
    LET accepted == chooseLedgerWinner(existing, incoming)
        rejected == IF EventId(accepted) = EventId(existing) THEN incoming ELSE existing
        replaces == EventId(accepted) = EventId(incoming)
    IN /\ rejectedEvents' = rejectedEvents \cup {rejected}
       /\ conflicts' = Append(conflicts, [acceptedEvent |-> accepted, rejectedEvent |-> rejected])
       /\ IF replaces
            THEN /\ events' = (events \ {existing}) \cup {incoming}
                 /\ subjectIndex' = [subjectIndex EXCEPT ![incoming.subjectId] =
                                       (@ \ {existing}) \cup {incoming}]
            ELSE UNCHANGED <<events, subjectIndex>>

(* append() after the await. *)
Finish(c) ==
    LET e == pending[c]
    IN /\ e # Idle
       /\ pending' = [pending EXCEPT ![c] = Idle]
       /\ UNCHANGED clock
       /\ \/ findConflict(e) = {} /\ Insert(e)
          \/ \E f \in findConflict(e) : resolveConflict(e, f)

Next ==
    \/ Tick
    \/ \E c \in Callers, t \in Types, s \in Subjects, n \in Terms, p \in Payloads :
          Begin(c, t, s, n, p)
    \/ \E c \in Callers : Finish(c)

Spec == Init /\ [][Next]_vars

-------------------------------------------------------------------------------
(* The variables have the shapes the class gives its fields. *)
TypeOK ==
    /\ clock \in 0..MaxClock
    /\ pending \in [Callers -> Event \cup {Idle}]
    /\ events \subseteq Event
    /\ subjectIndex \in [Subjects -> SUBSET Event]
    /\ rejectedEvents \subseteq Event
    /\ conflicts \in Seq(Resolution)

(* A ledger keeps at most one event for each subject and phase, in whatever *)
(* order the suspended appends resume ("same-subject-same-phase").          *)
OneSurvivorPerPhase ==
    \A e, f \in events : Competing(e, f) => e = f

(* Reconciliation does not depend on arrival order: every event ever        *)
(* appended either survives or has lost, directly or through a chain of      *)
(* replacements, to the survivor of its subject and phase, which is the best *)
(* of them all by term, timestamp and event ID.                              *)
SurvivorIsBest ==
    \A r \in Recorded : \E e \in events :
        Competing(e, r) /\ chooseLedgerWinner(e, r) = e

(* The two stores agree: the index of a subject, which decides what the next *)
(* append conflicts with, lists exactly the surviving events of the subject. *)
IndexMatchesEvents ==
    \A s \in Subjects : subjectIndex[s] = {e \in events : e.subjectId = s}

(* The audit trail is complete and current: every rejected event is named by *)
(* a conflict record, and the last record about a subject and phase names    *)
(* the event that survives for it.                                           *)
ConflictTrail ==
    /\ \A r \in rejectedEvents : \E i \in DOMAIN conflicts : conflicts[i].rejectedEvent = r
    /\ \A i \in DOMAIN conflicts :
          LET k == conflicts[i].acceptedEvent
          IN (\A j \in DOMAIN conflicts : j > i => ~Competing(conflicts[j].acceptedEvent, k))
                => k \in events

(* replay() sorts by seq and then by event ID.  An event whose append began  *)
(* when another was already recorded never gets a smaller seq than that one, *)
(* although replacements and overlapping appends do give out equal ones.     *)
ReplayNeverGoesBack ==
    [][\A c \in Callers : pending[c] = Idle /\ pending'[c] # Idle =>
          \A e \in Recorded : e.seq <= pending'[c].seq]_vars

(* Nothing that was recorded is forgotten, and an append that returns has    *)
(* recorded its event among the survivors or the rejected.                   *)
NothingForgotten ==
    [][/\ Recorded \subseteq Recorded'
       /\ \A c \in Callers : pending[c] # Idle /\ pending'[c] = Idle =>
             pending[c] \in Recorded']_vars

(* Refinement: the ledger is a register per subject and phase that holds the *)
(* best event appended for it.                                               *)
Phases == {PhaseOf(t) : t \in Types}
KeyOfEvent(e) == <<e.subjectId, PhaseOf(e.type)>>
Beats(e, f) == e # f /\ chooseLedgerWinner(f, e) = e

(* The contents of the registers: the survivor of each subject and phase. *)
Keys == Subjects \X Phases
Held == [k \in Keys |-> IF \E e \in events : KeyOfEvent(e) = k
                          THEN CHOOSE e \in events : KeyOfEvent(e) = k
                          ELSE Idle]

Register == INSTANCE KeyedRegister WITH
    Proposals <- Event, KeyOf <- KeyOfEvent, Wins <- Beats, None <- Idle, held <- Held

ImplementsRegister == Register!Spec
===============================================================================

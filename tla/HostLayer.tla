-------------------------------- MODULE HostLayer --------------------------------
(***************************************************************************)
(* The host layer of peerjs-hostlayer-kit/src: the route table, findRoute  *)
(* and the negotiation of a direct link down the fallback ladder.  c is a  *)
(* caller that finds a route and opens a link along it; it is suspended in *)
(* each append to the ledger and in each attempt of the transport.         *)
(*                                                                         *)
(* The ledger holds the best event of a trace and a phase, as AppendLedger *)
(* is shown to: the one signed first, and of two signed at one time the    *)
(* one with the smaller hash, which may be either.  A trace id is fresh,   *)
(* so a caller stands for its trace.  route.selected has a fresh subject   *)
(* and cannot lose; it is left out.                                        *)
(***************************************************************************)
EXTENDS Clock, Sequences, FiniteSets

CONSTANTS
    Rooms, parentRoom,
    Callers, Models,
    AnyModel, None, Idle,
    Requests,           \* what the callers ask for
    Costs,              \* what the score of a summary takes off: queue depth and latency
    Trusts,             \* ranks of trust: 0 is public, 3 is self
    Ladder,             \* FALLBACK_LADDER
    routeTtl            \* 15000 in the code

VARIABLES
    rooms,      \* this.routeTable.rooms
    calls,      \* [Callers -> where the caller is, or Idle]
    ledger      \* this.ledger, by caller and phase

hostVars == <<rooms, calls, ledger>>

Summary == [warmModels: SUBSET Models, trust: Trusts, cost: Costs, expiresAt: Nat]
Request == [modelId: Models \cup {AnyModel}, trust: Trusts]

(* `at` is where the caller waits: for its route to be recorded, with a     *)
(* route, for an attempt of the transport, for an event to be recorded, or  *)
(* no longer, with a link or none.                                          *)
Call == [at: {"selected", "routed", "trying", "opened", "modeFailed", "unreachable", "linked", "closed"},
         request: Request, room: Rooms, expiresAt: Nat, mode: 0..Len(Ladder), signedAt: Nat]

(* An event is told by the mode it is about; 0 stands for route.failed.     *)
Phases == {"opened", "failed"}
Event == [mode: 0..Len(Ladder), signedAt: Nat]

-------------------------------------------------------------------------------
HostInit ==
    /\ clock = 0
    /\ rooms = [r \in Rooms |-> None]
    /\ calls = [c \in Callers |-> Idle]
    /\ ledger = [k \in Callers \X Phases |-> None]

HostTick ==
    /\ clock < MaxClock
    /\ clock' = clock + 1
    /\ UNCHANGED hostVars

(* What the caller says of the room is taken for true.  ttlMs is the        *)
(* summary's own, or summaryTtlMs of the table.                             *)
upsertSummary(r, warmModels, trust, cost, ttlMs) ==
    /\ rooms' = [rooms EXCEPT ![r] =
         [warmModels |-> warmModels, trust |-> trust, cost |-> cost, expiresAt |-> clock + ttlMs]]
    /\ UNCHANGED <<calls, ledger>>

(* listFresh drops what has expired. *)
listFresh == [r \in Rooms |-> IF rooms[r] # None /\ rooms[r].expiresAt < clock THEN None ELSE rooms[r]]

findCandidates(request) ==
    {r \in Rooms : /\ listFresh[r] # None
                   /\ request.modelId = AnyModel \/ request.modelId \in listFresh[r].warmModels
                   /\ listFresh[r].trust >= request.trust}

(* The bonus for a warm model is the same for every candidate.  Between     *)
(* equal scores the order of the map decides, which the model leaves open.  *)
selectBestRouteSummary(request) ==
    {r \in findCandidates(request) :
        \A s \in findCandidates(request) : listFresh[r].cost <= listFresh[s].cost}

(* The path from the parent room to r has no cycle. *)
validateRoutePath(r) == r # parentRoom

(* findRoute up to its append.  A route to the parent room itself is a path *)
(* with a cycle: findRoute throws, as it returns null with no candidate.    *)
findRoute(c, request) ==
    /\ calls[c] = Idle
    /\ rooms' = listFresh
    /\ \/ \E r \in selectBestRouteSummary(request) :
             /\ validateRoutePath(r)
             /\ calls' = [calls EXCEPT ![c] =
                  [at |-> "selected", request |-> request, room |-> r,
                   expiresAt |-> clock + routeTtl, mode |-> 0, signedAt |-> 0]]
       \/ /\ \/ selectBestRouteSummary(request) = {}
             \/ \E r \in selectBestRouteSummary(request) : ~validateRoutePath(r)
          /\ UNCHANGED calls
    /\ UNCHANGED <<clock, ledger>>

at(c, place) == calls[c] # Idle /\ calls[c].at = place
move(c, place) == calls' = [calls EXCEPT ![c].at = place]
append(c, place) == calls' = [calls EXCEPT ![c].at = place, ![c].signedAt = clock]

(* The append of route.selected is done, and findRoute returns the route.   *)
routeRecorded(c) ==
    /\ at(c, "selected")
    /\ move(c, "routed")
    /\ UNCHANGED <<clock, rooms, ledger>>

(* A definition with "Mutant:" in its comment is not the code's: it is the   *)
(* next definition with a bug put in, for checking that a property sees it.  *)

(* Mutant: an offer has no end. *)
validForever(call) == validateRoutePath(call.room)

(* validateRouteOffer of a route findRoute made: what can change is time.   *)
validateRouteOffer(call) == call.expiresAt >= clock

(* openDirectLink starts down the ladder, or throws and the route is lost.  *)
openDirectLink(c) ==
    /\ at(c, "routed")
    /\ \/ /\ validateRouteOffer(calls[c])
          /\ calls' = [calls EXCEPT ![c].at = "trying", ![c].mode = 1]
       \/ /\ ~validateRouteOffer(calls[c])
          /\ calls' = [calls EXCEPT ![c] = Idle]
    /\ UNCHANGED <<clock, rooms, ledger>>

(* The transport answers the attempt; the time it takes is its own.         *)
tryMode(c) ==
    /\ at(c, "trying")
    /\ append(c, "opened") \/ append(c, "modeFailed")
    /\ UNCHANGED <<clock, rooms, ledger>>

(* The append of e in a phase: the event signed first stays.                *)
survivors(held, e) ==
    IF held = None THEN {e}
    ELSE {x \in {held, e} : x.signedAt <= held.signedAt /\ x.signedAt <= e.signedAt}

record(c, phase, e) ==
    \E survivor \in survivors(ledger[<<c, phase>>], e) :
        ledger' = [ledger EXCEPT ![<<c, phase>>] = survivor]

event(c) == [mode |-> calls[c].mode, signedAt |-> calls[c].signedAt]

(* open() resumes after the append of direct-link.opened and returns.       *)
openedRecorded(c) ==
    /\ at(c, "opened")
    /\ record(c, "opened", event(c))
    /\ move(c, "linked")
    /\ UNCHANGED <<clock, rooms>>

(* Mutants: the ladder has a step more; after a mode that failed the call    *)
(* goes on without an event.                                                 *)
failureOneModeMore(c) ==
    /\ at(c, "modeFailed")
    /\ record(c, "failed", event(c))
    /\ calls' = [calls EXCEPT ![c].at = "trying", ![c].mode = @ + 1]
    /\ UNCHANGED <<clock, rooms>>

failureLost(c) ==
    /\ at(c, "modeFailed")
    /\ IF calls[c].mode < Len(Ladder)
         THEN calls' = [calls EXCEPT ![c].at = "trying", ![c].mode = @ + 1]
         ELSE calls' = [calls EXCEPT ![c].at = "unreachable", ![c].mode = 0, ![c].signedAt = clock]
    /\ UNCHANGED <<clock, rooms, ledger>>

(* It resumes after the append of route.mode.failed: the next mode, or, at  *)
(* the foot of the ladder, the append of route.failed.                      *)
failureRecorded(c) ==
    /\ at(c, "modeFailed")
    /\ record(c, "failed", event(c))
    /\ IF calls[c].mode < Len(Ladder)
         THEN calls' = [calls EXCEPT ![c].at = "trying", ![c].mode = @ + 1]
         ELSE calls' = [calls EXCEPT ![c].at = "unreachable", ![c].mode = 0, ![c].signedAt = clock]
    /\ UNCHANGED <<clock, rooms>>

(* open() fails closed. *)
unreachableRecorded(c) ==
    /\ at(c, "unreachable")
    /\ record(c, "failed", event(c))
    /\ move(c, "closed")
    /\ UNCHANGED <<clock, rooms>>

HostStep(c) ==
    \/ \E request \in Requests : findRoute(c, request)
    \/ routeRecorded(c)
    \/ openDirectLink(c)
    \/ tryMode(c)
    \/ openedRecorded(c)
    \/ failureRecorded(c)
    \/ unreachableRecorded(c)

-------------------------------------------------------------------------------
HostTypeOK ==
    /\ clock \in 0..MaxClock
    /\ rooms \in [Rooms -> Summary \cup {None}]
    /\ calls \in [Callers -> Call \cup {Idle}]
    /\ ledger \in [Callers \X Phases -> Event \cup {None}]

(* "Host layers chain rooms together and create auditable routes"            *)
(* (kits/peerjs-hostlayer-kit/README.md:3): what a negotiation comes to can  *)
(* be read from the ledger.  A link that was opened is recorded with the     *)
(* mode it was opened by, and with a failure above it on the ladder exactly  *)
(* if there was one; a route that was unreachable has a failure and no link. *)
(* Which failure the ledger keeps is another matter: route.failed is of the  *)
(* phase of route.mode.failed, and loses to it.                              *)
OutcomeOnRecord ==
    \A c \in Callers :
        LET opened == ledger[<<c, "opened">>]
            failed == ledger[<<c, "failed">>]
        IN /\ at(c, "linked") =>
                /\ opened # None /\ opened.mode = calls[c].mode
                /\ failed # None <=> calls[c].mode > 1
                /\ failed # None => failed.mode \in 1..(opened.mode - 1)
           /\ at(c, "closed") => opened = None /\ failed # None
           /\ opened # None => at(c, "linked")
=================================================================================

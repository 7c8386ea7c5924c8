---------------------------------- MODULE Fabric ----------------------------------
(***************************************************************************)
(* The meshes and the host layer of one fabric, as the fabric lab sets     *)
(* them up (apps/fabric-lab/src/main.js).  Nothing in the code takes a     *)
(* room's summary from a mesh: the lab announces a room with models it has *)
(* written down, before its mesh has even joined, and the table believes   *)
(* whoever calls it.  So an announcement comes at any time and says what   *)
(* it likes; what a caller can rely on is what had been announced, and how *)
(* long ago.                                                               *)
(***************************************************************************)
EXTENDS StartupModels, Clock

CONSTANTS
    Rooms, parentRoom, Callers, AnyModel, None, Idle, Requests, Costs, Trusts, Ladder, routeTtl,
    Announcements       \* the summaries that may be announced

VARIABLES
    rooms, calls, ledger,
    announced   \* history: when each announcement was last made, or None

Host == INSTANCE HostLayer WITH Models <- ModelIds

vars == <<clock, startupVars, rooms, calls, ledger, announced>>

Announcement == [room: Rooms, warmModels: SUBSET ModelIds, trust: Trusts, cost: Costs, ttlMs: Nat]

ASSUME FabricAssumption ==
    /\ Requests \subseteq Host!Request /\ Announcements \subseteq Announcement /\ Trusts \subseteq Nat
    /\ Ladder \in Seq(STRING) /\ Ladder # <<>> /\ routeTtl \in Nat
ASSUME NoneAssumption ==
    None \notin Nat \cup Host!Summary \cup Host!Event /\ Idle \notin Host!Call

Init ==
    /\ StartupInit
    /\ Host!HostInit
    /\ announced = [a \in Announcements |-> None]

Tick == Host!HostTick /\ UNCHANGED <<startupVars, announced>>

startup(w) ==
    /\ StartupStep(w)
    /\ UNCHANGED <<clock, rooms, calls, ledger, announced>>

(* upsertRouteSummary of a host layer.                                      *)
announce(a) ==
    /\ Host!upsertSummary(a.room, a.warmModels, a.trust, a.cost, a.ttlMs)
    /\ announced' = [announced EXCEPT ![a] = clock]
    /\ UNCHANGED <<clock, startupVars>>

host(c) == Host!HostStep(c) /\ UNCHANGED <<startupVars, announced>>

Next ==
    \/ Tick
    \/ \E w \in Workers : startup(w)
    \/ \E a \in Announcements : announce(a)
    \/ \E c \in Callers : host(c)

Spec == Init /\ [][Next]_vars

-------------------------------------------------------------------------------
(* The meshes, the table, the callers and the ledger keep their shapes.      *)
TypeOK ==
    /\ StartupTypeOK
    /\ Host!HostTypeOK
    /\ announced \in [Announcements -> Nat \cup {None}]

(* See HostLayer. *)
OutcomeOnRecord == Host!OutcomeOnRecord

isMade(a) == announced[a] # None

(* A caller that sets out to link with a room for a model does so on an      *)
(* announcement of that room, with the model and the trust it asked for, of  *)
(* no longer ago than the announcement and a route may last together.  If    *)
(* the room has been announced otherwise since, that was no longer ago than  *)
(* a route lasts.  It is never led back to the parent room.                  *)
LinkAsAnnounced ==
    [][\A c \in Callers :
         Host!at(c, "routed") /\ Host!at(c, "trying")' =>
            LET call == calls[c]
            IN /\ call.room # parentRoom
               /\ \E a \in Announcements :
                    /\ a.room = call.room /\ isMade(a)
                    /\ a.trust >= call.request.trust
                    /\ call.request.modelId \in a.warmModels \cup {AnyModel}
                    /\ clock <= announced[a] + a.ttlMs + routeTtl
                    /\ \A b \in Announcements :
                         b.room = a.room /\ isMade(b) /\ announced[b] > announced[a] =>
                             clock <= announced[b] + routeTtl]_vars
=================================================================================

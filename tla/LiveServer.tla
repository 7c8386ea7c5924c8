------------------------------- MODULE LiveServer -------------------------------
(***************************************************************************)
(* The live mirror of live-server-kit/src/live-server.js over the store of *)
(* in-memory-live-store.js.  A POST is two steps, because its handler      *)
(* waits for the body; every other operation, the subscriptions included,  *)
(* runs in one turn of the event loop.  Events, leases, route summaries    *)
(* and relay packets are the numbers of the operations that brought them:  *)
(* nothing the server calls compares their times.                          *)
(*                                                                         *)
(* handleRequest returns the promise of a POST handler without awaiting    *)
(* it, so what the handler throws passes its catch block by; the rejection *)
(* is handled nowhere and ends the process (`fail`).                       *)
(***************************************************************************)
EXTENDS Integers, Sequences, FiniteSets

CONSTANTS
    Rooms,                  \* room ids; not the empty one, whose clients hear every room
    Identities,             \* of which no two have one roomId:identityKey in two rooms
    Requests,               \* POST requests being read
    Clients,                \* SSE responses and WebSocket connections
    None,
    Kinds,                  \* the kinds of operation: a subset of AllKinds
    requireSignedPackets,   \* security.requireSignedPackets
    maxEventsPerRoom,       \* 5000 in the code
    MaxOperations, MaxRestarts    \* bounds

AllKinds == {"event", "presence", "summary", "relay"}

VARIABLES
    listening,      \* the process serves requests
    restarts,       \* how often it was started again
    operations,     \* how many events, leases and packets have been sent to it
    events,         \* store.rooms: the events of each room
    heads,          \* store.rooms: the heads of each room
    presence,       \* store.presence: roomId:identityKey -> the lease, or None
    routeSummaries, \* store.routeSummaries: the summary of each room, or None
    mailboxes,      \* store.relayMailboxes
    requests,       \* [Requests -> the POST whose body is being read, or None]
    clients,        \* sseClients and wsClients: the room, and what the client has of it
    relayed         \* history: what was put in and taken out of each mailbox, in order

storeVars == <<events, heads, presence, routeSummaries, mailboxes>>
vars == <<listening, restarts, operations, storeVars, requests, clients, relayed>>

ASSUME ServerAssumption ==
    /\ Kinds \subseteq AllKinds /\ requireSignedPackets \in BOOLEAN
    /\ maxEventsPerRoom \in Nat \ {0}
    /\ MaxOperations \in Nat /\ MaxRestarts \in Nat

(* What a body may turn out to be: `usable` says that it arrives, parses,   *)
(* and has the target a relay needs; `signed`, that it has a signature.     *)
Body == [kind: Kinds, id: 1..MaxOperations, roomId: Rooms, identity: Identities,
         usable: BOOLEAN, signed: BOOLEAN]

OperationOrNone == 1..MaxOperations \cup {None}

Client == [socket: {"sse", "ws"}, roomId: Rooms \cup {None}, mirrored: Seq(1..MaxOperations),
           presence: [Identities -> OperationOrNone], summary: OperationOrNone]

Newest(s, n) == IF Len(s) > n THEN SubSeq(s, Len(s) - n + 1, Len(s)) ELSE s

-------------------------------------------------------------------------------
noEvents == [r \in Rooms |-> <<>>]
noPresence == [k \in Rooms \X Identities |-> None]
noSummaries == [r \in Rooms |-> None]
noRelays == [i \in Identities |-> <<>>]

Init ==
    /\ listening = TRUE /\ restarts = 0 /\ operations = 0
    /\ events = noEvents /\ heads = noEvents /\ presence = noPresence
    /\ routeSummaries = noSummaries /\ mailboxes = noRelays
    /\ requests = [q \in Requests |-> None]
    /\ clients = [c \in Clients |-> None]
    /\ relayed = [i \in Identities |-> [enqueued |-> <<>>, drained |-> <<>>]]

(* A definition with "Mutant:" in its comment is not the code's: it is the   *)
(* next definition with a bug put in, for checking that a property sees it.  *)

hears(c, room) == clients[c] # None /\ clients[c].roomId \in {room, None}

(* What a client makes of 'event.appended', 'presence.updated' and           *)
(* 'route-summary.updated'.  It has no use for 'relay.enqueued'.             *)
take(client, message) ==
    IF message.type = "event" THEN [client EXCEPT !.mirrored = Append(@, message.id)]
    ELSE IF message.type = "presence"
      THEN [client EXCEPT !.presence[message.identity] = message.id]
    ELSE [client EXCEPT !.summary = message.id]

(* Every client of the room gets the message, and so does a WebSocket that   *)
(* has not subscribed yet.                                                   *)
broadcast(room, message) ==
    clients' = [c \in Clients |-> IF hears(c, room) THEN take(clients[c], message) ELSE clients[c]]

(* Mutant: the heads are never reset. *)
appendEventKeepsHeads(room, id) ==
    /\ events' = [events EXCEPT ![room] = Newest(Append(@, id), maxEventsPerRoom)]
    /\ heads' = [heads EXCEPT ![room] = Append(@, id)]
    /\ broadcast(room, [type |-> "event", id |-> id])
    /\ UNCHANGED <<presence, routeSummaries, mailboxes>>

(* appendEvent and its broadcast. *)
appendEvent(room, id) ==
    /\ events' = [events EXCEPT ![room] = Newest(Append(@, id), maxEventsPerRoom)]
    /\ heads' = [heads EXCEPT ![room] = <<id>>]
    /\ broadcast(room, [type |-> "event", id |-> id])
    /\ UNCHANGED <<presence, routeSummaries, mailboxes>>

(* upsertPresence and its broadcast. *)
upsertPresence(room, identity, id) ==
    /\ presence' = [presence EXCEPT ![<<room, identity>>] = id]
    /\ broadcast(room, [type |-> "presence", identity |-> identity, id |-> id])
    /\ UNCHANGED <<events, heads, routeSummaries, mailboxes>>

(* Mutant: nobody is told. *)
upsertRouteSummarySilently(room, id) ==
    /\ routeSummaries' = [routeSummaries EXCEPT ![room] = id]
    /\ UNCHANGED <<events, heads, presence, mailboxes, clients>>

(* upsertRouteSummary and its broadcast. *)
upsertRouteSummary(room, id) ==
    /\ routeSummaries' = [routeSummaries EXCEPT ![room] = id]
    /\ broadcast(room, [type |-> "summary", id |-> id])
    /\ UNCHANGED <<events, heads, presence, mailboxes>>

enqueueRelay(identity, id) ==
    /\ mailboxes' = [mailboxes EXCEPT ![identity] = Append(@, id)]
    /\ relayed' = [relayed EXCEPT ![identity].enqueued = Append(@, id)]
    /\ UNCHANGED <<events, heads, presence, routeSummaries, clients>>

(* The process ends; its connections and its memory go with it. *)
fail ==
    /\ listening' = FALSE
    /\ requests' = [q \in Requests |-> None]
    /\ clients' = [c \in Clients |-> None]

(* validateAppend, and the rest of what a handler may throw on. *)
refused(body) ==
    \/ ~body.usable
    \/ body.kind = "event" /\ requireSignedPackets /\ ~body.signed

(* A POST arrives; the handler waits for the rest of its body. *)
post(q, body) ==
    /\ listening /\ requests[q] = None
    /\ operations < MaxOperations /\ body.id = operations + 1
    /\ operations' = body.id
    /\ requests' = [requests EXCEPT ![q] = body]
    /\ UNCHANGED <<listening, restarts, storeVars, clients, relayed>>

(* handlePostEvent, -Presence, -RouteSummary and -Relay after their await. *)
handlePost(q) ==
    LET body == requests[q]
    IN /\ body # None /\ ~refused(body)
       /\ requests' = [requests EXCEPT ![q] = None]
       /\ \/ /\ body.kind = "event"
             /\ appendEvent(body.roomId, body.id)
             /\ UNCHANGED relayed
          \/ /\ body.kind = "presence"
             /\ upsertPresence(body.roomId, body.identity, body.id)
             /\ UNCHANGED relayed
          \/ /\ body.kind = "summary"
             /\ upsertRouteSummary(body.roomId, body.id)
             /\ UNCHANGED relayed
          \/ /\ body.kind = "relay"
             /\ enqueueRelay(body.identity, body.id)
       /\ UNCHANGED <<listening, restarts, operations>>

(* The handler throws outside the reach of handleRequest's catch block. *)
handlerRejects(q) ==
    /\ requests[q] # None /\ refused(requests[q])
    /\ fail
    /\ UNCHANGED <<restarts, operations, storeVars, relayed>>

(* Mutant: the mailbox is read and left as it is. *)
peekRelay(i) ==
    /\ listening
    /\ relayed' = [relayed EXCEPT ![i].drained = @ \o mailboxes[i]]
    /\ UNCHANGED <<listening, restarts, operations, storeVars, requests, clients>>

(* GET /relay/:targetIdentity hands over the mailbox and empties it. *)
drainRelay(i) ==
    /\ listening
    /\ relayed' = [relayed EXCEPT ![i].drained = @ \o mailboxes[i]]
    /\ mailboxes' = [mailboxes EXCEPT ![i] = <<>>]
    /\ UNCHANGED <<listening, restarts, operations, events, heads, presence,
                   routeSummaries, requests, clients>>

setClient(c, client) ==
    /\ clients' = [clients EXCEPT ![c] = client]
    /\ UNCHANGED <<listening, restarts, operations, storeVars, requests, relayed>>

(* getSnapshot, as a client takes it. *)
snapshot(socket, room) ==
    [socket |-> socket, roomId |-> room, mirrored |-> events[room],
     presence |-> [i \in Identities |-> presence[<<room, i>>]], summary |-> routeSummaries[room]]

(* GET /events/stream: the snapshot is written and the response is added to *)
(* the clients in the same turn.                                            *)
handleSse(c, room) ==
    /\ listening /\ clients[c] = None
    /\ setClient(c, snapshot("sse", room))

handleUpgrade(c) ==
    /\ listening /\ clients[c] = None
    /\ setClient(c, [socket |-> "ws", roomId |-> None, mirrored |-> <<>>,
                    presence |-> [i \in Identities |-> None], summary |-> None])

(* The snapshot replaces what the client had. *)
subscribe(c, room) ==
    /\ clients[c] # None /\ clients[c].socket = "ws"
    /\ setClient(c, snapshot("ws", room))

(* A frame other than 'subscribe': an 'event.append' is not acknowledged,   *)
(* and what it throws is thrown out of the socket's 'data' listener, as is  *)
(* the TypeError on a frame that is JSON's null.                            *)
wsAppend(c, room, usable, signed) ==
    /\ clients[c] # None /\ clients[c].socket = "ws" /\ "event" \in Kinds
    /\ operations < MaxOperations
    /\ operations' = operations + 1
    /\ \/ /\ refused([kind |-> "event", usable |-> usable, signed |-> signed])
          /\ fail
          /\ UNCHANGED storeVars
       \/ /\ ~refused([kind |-> "event", usable |-> usable, signed |-> signed])
          /\ appendEvent(room, operations + 1)
          /\ UNCHANGED <<listening, requests>>
    /\ UNCHANGED <<restarts, relayed>>

disconnect(c) ==
    /\ clients[c] # None
    /\ setClient(c, None)

(* stop() from the runner's signal handler, which then exits. *)
stop ==
    /\ listening
    /\ fail
    /\ UNCHANGED <<restarts, operations, storeVars, relayed>>

(* The runner is started again: a new server over a new store. *)
start ==
    /\ ~listening /\ restarts < MaxRestarts
    /\ restarts' = restarts + 1
    /\ listening' = TRUE
    /\ events' = noEvents /\ heads' = noEvents
    /\ presence' = noPresence /\ routeSummaries' = noSummaries /\ mailboxes' = noRelays
    /\ relayed' = [i \in Identities |-> [enqueued |-> <<>>, drained |-> <<>>]]
    /\ UNCHANGED <<operations, requests, clients>>

Next ==
    \/ \E q \in Requests, b \in Body : post(q, b)
    \/ \E q \in Requests : handlePost(q) \/ handlerRejects(q)
    \/ \E i \in Identities : drainRelay(i)
    \/ \E c \in Clients, r \in Rooms : handleSse(c, r) \/ subscribe(c, r)
    \/ \E c \in Clients : handleUpgrade(c) \/ disconnect(c)
    \/ \E c \in Clients, r \in Rooms, usable, signed \in BOOLEAN : wsAppend(c, r, usable, signed)
    \/ stop
    \/ start

Spec == Init /\ [][Next]_vars

-------------------------------------------------------------------------------
(* The server, its store and its clients keep their shapes: no room outgrows *)
(* its bound, and its one head is its last event.                            *)
TypeOK ==
    /\ listening \in BOOLEAN
    /\ restarts \in 0..MaxRestarts /\ operations \in 0..MaxOperations
    /\ events \in [Rooms -> Seq(1..MaxOperations)]
    /\ \A r \in Rooms : Len(events[r]) <= maxEventsPerRoom
    /\ heads = [r \in Rooms |-> Newest(events[r], 1)]
    /\ presence \in [Rooms \X Identities -> OperationOrNone]
    /\ routeSummaries \in [Rooms -> OperationOrNone]
    /\ mailboxes \in [Identities -> Seq(1..MaxOperations)]
    /\ requests \in [Requests -> Body \cup {None}]
    /\ clients \in [Clients -> Client \cup {None}]
    /\ relayed \in [Identities -> [enqueued: Seq(1..MaxOperations), drained: Seq(1..MaxOperations)]]

IsSuffixOf(s, t) ==
    /\ Len(s) <= Len(t)
    /\ \A i \in DOMAIN s : s[i] = t[Len(t) - Len(s) + i]

(* What a client of a room has: the newest events of the store at the end of *)
(* what it mirrors, all of them while the store drops none, each of them     *)
(* once, and the leases and the route summary of the store.                  *)
HasRoom(client, room) ==
    /\ IsSuffixOf(events[room], client.mirrored)
    /\ Len(client.mirrored) > Len(events[room]) => Len(events[room]) = maxEventsPerRoom
    /\ \A i, j \in DOMAIN client.mirrored : i # j => client.mirrored[i] # client.mirrored[j]
    /\ client.presence = [i \in Identities |-> presence[<<room, i>>]]
    /\ client.summary = routeSummaries[room]

(* A client that follows a room has the room: its snapshot and the events    *)
(* streamed after it join without a gap, without a duplicate and in the      *)
(* order of the store, which keeps the newest of them; so it does whenever   *)
(* it subscribes, and after it changes rooms.  It has the leases and the     *)
(* route summary of the store, too, in whatever order overlapping requests   *)
(* are handled.                                                              *)
ClientsFollowRoom ==
    \A c \in Clients : clients[c] # None /\ clients[c].roomId # None =>
        HasRoom(clients[c], clients[c].roomId)

(* While the server runs, what was put into a mailbox has been handed out    *)
(* once or waits in it, in the order it came.                                *)
RelayedOnceInOrder ==
    \A i \in Identities : relayed[i].drained \o mailboxes[i] = relayed[i].enqueued
=================================================================================

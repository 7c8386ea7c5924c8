---------------------------- MODULE LiveServerProofs ----------------------------
(***************************************************************************)
(* The live server for any rooms, identities, clients, requests and bound. *)
(* That a client has the room it follows is inductive only together with   *)
(* where the numbers of the operations are: an event that is handled has a *)
(* number that no room and no client has seen, because the requests whose  *)
(* bodies are still read have numbers of their own (PendingFresh).         *)
(***************************************************************************)
EXTENDS LiveServer, SequenceTheorems, TLAPS

Unused(id) ==
    /\ \A r \in Rooms : \A i \in DOMAIN events[r] : events[r][i] # id
    /\ \A c \in Clients : clients[c] # None =>
          \A i \in DOMAIN clients[c].mirrored : clients[c].mirrored[i] # id

(* Nothing has the number of an operation that has not been sent. *)
SentSoFar ==
    /\ \A id \in 1..MaxOperations : id > operations => Unused(id)
    /\ \A q \in Requests : requests[q] # None => requests[q].id <= operations

(* A request that is still read has a number of its own. *)
PendingFresh ==
    \A q \in Requests : requests[q] # None =>
        /\ Unused(requests[q].id)
        /\ \A p \in Requests : p # q /\ requests[p] # None => requests[p].id # requests[q].id

(* A process that has ended has neither requests nor clients. *)
DownIsEmpty ==
    ~listening => /\ \A q \in Requests : requests[q] = None
                  /\ \A c \in Clients : clients[c] = None

(* No event is twice in its room: what a snapshot hands out. *)
EventsDistinct ==
    \A r \in Rooms : \A i, j \in DOMAIN events[r] : i # j => events[r][i] # events[r][j]

(* What TypeOK says of the store and of the clients, and of the rest. *)
StoreTypeOK ==
    /\ events \in [Rooms -> Seq(1..MaxOperations)]
    /\ \A r \in Rooms : Len(events[r]) <= maxEventsPerRoom
    /\ heads = [r \in Rooms |-> Newest(events[r], 1)]
    /\ presence \in [Rooms \X Identities -> OperationOrNone]
    /\ routeSummaries \in [Rooms -> OperationOrNone]
    /\ mailboxes \in [Identities -> Seq(1..MaxOperations)]
    /\ clients \in [Clients -> Client \cup {None}]

ServerTypeOK ==
    /\ listening \in BOOLEAN
    /\ restarts \in 0..MaxRestarts /\ operations \in 0..MaxOperations
    /\ requests \in [Requests -> Body \cup {None}]
    /\ relayed \in [Identities -> [enqueued: Seq(1..MaxOperations), drained: Seq(1..MaxOperations)]]

MirrorInv == StoreTypeOK /\ EventsDistinct /\ ClientsFollowRoom

ServerInv == MirrorInv /\ ServerTypeOK /\ SentSoFar /\ PendingFresh /\ DownIsEmpty

-------------------------------------------------------------------------------
(* The newest n elements of a sequence are its last n, or all of it. *)
LEMMA NewestProperties ==
    ASSUME NEW S, NEW s \in Seq(S), NEW n \in Nat
    PROVE  /\ Newest(s, n) \in Seq(S)
           /\ Len(Newest(s, n)) = IF Len(s) > n THEN n ELSE Len(s)
           /\ \A i \in 1..Len(Newest(s, n)) :
                 Newest(s, n)[i] = s[Len(s) - Len(Newest(s, n)) + i]
<1>1. Len(s) \in Nat /\ DOMAIN s = 1..Len(s)
  BY LenProperties
<1>2. CASE Len(s) > n
  <2> DEFINE m == Len(s) - n + 1
  <2>1. Newest(s, n) = SubSeq(s, m, Len(s))
    BY <1>2 DEF Newest
  <2>2. m \in Int /\ Len(s) \in Int /\ m <= Len(s) + 1
    BY <1>1, <1>2
  <2>3. /\ SubSeq(s, m, Len(s)) \in Seq(S)
        /\ Len(SubSeq(s, m, Len(s))) = IF m <= Len(s) THEN Len(s) - m + 1 ELSE 0
        /\ \A i \in 1..(Len(s) - m + 1) : SubSeq(s, m, Len(s))[i] = s[m + i - 1]
    <3>1. \A i \in m..Len(s) : s[i] \in S
      BY <1>1, <1>2
    <3> HIDE DEF m
    <3>2. QED
      BY <2>2, <3>1, SubSeqProperties
  <2>4. Len(SubSeq(s, m, Len(s))) = n
    BY <1>1, <1>2, <2>3
  <2>5. ASSUME NEW i \in 1..n
        PROVE  SubSeq(s, m, Len(s))[i] = s[Len(s) - n + i]
    <3>1. i \in 1..(Len(s) - m + 1) /\ m + i - 1 = Len(s) - n + i
      BY <1>1
    <3>2. QED
      BY <2>3, <3>1
  <2>6. QED
    BY <1>2, <2>1, <2>3, <2>4, <2>5
<1>3. CASE ~(Len(s) > n)
  BY <1>1, <1>3 DEF Newest
<1>4. QED
  BY <1>2, <1>3

LEMMA SuffixSelf ==
    ASSUME NEW S, NEW s \in Seq(S)
    PROVE  IsSuffixOf(s, s)
BY DEF IsSuffixOf

(* One more event at the end of both keeps the one a suffix of the other, *)
(* and so does forgetting the oldest.                                     *)
LEMMA SuffixAppend ==
    ASSUME NEW S, NEW s \in Seq(S), NEW t \in Seq(S), NEW x \in S, IsSuffixOf(s, t)
    PROVE  IsSuffixOf(Append(s, x), Append(t, x))
BY DEF IsSuffixOf

LEMMA SuffixNewest ==
    ASSUME NEW S, NEW s \in Seq(S), NEW t \in Seq(S), NEW n \in Nat, IsSuffixOf(s, t)
    PROVE  IsSuffixOf(Newest(s, n), t)
<1> DEFINE u == Newest(s, n)
<1>1. /\ u \in Seq(S) /\ Len(u) = (IF Len(s) > n THEN n ELSE Len(s))
      /\ \A i \in 1..Len(u) : u[i] = s[Len(s) - Len(u) + i]
  BY NewestProperties
<1>2. Len(s) \in Nat /\ Len(t) \in Nat /\ Len(u) \in Nat /\ Len(u) <= Len(s)
  BY <1>1
<1>3. Len(s) <= Len(t) /\ \A i \in 1..Len(s) : s[i] = t[Len(t) - Len(s) + i]
  BY DEF IsSuffixOf
<1>4. ASSUME NEW i \in 1..Len(u)
      PROVE  u[i] = t[Len(t) - Len(u) + i]
  <2> DEFINE k == Len(s) - Len(u) + i
  <2>1. k \in 1..Len(s) /\ Len(t) - Len(s) + k = Len(t) - Len(u) + i
    BY <1>2
  <2>2. s[k] = t[Len(t) - Len(s) + k]
    BY <1>3, <2>1
  <2>3. QED
    BY <1>1, <2>1, <2>2
<1>5. DOMAIN u = 1..Len(u)
  BY <1>1
<1> HIDE DEF u
<1>6. IsSuffixOf(u, t)
  BY <1>2, <1>3, <1>4, <1>5 DEF IsSuffixOf
<1>7. QED
  BY <1>6 DEF u

(* No element is twice in a sequence to which a new one is appended, nor in *)
(* the newest of it.                                                        *)
LEMMA DistinctAppend ==
    ASSUME NEW S, NEW s \in Seq(S), NEW x \in S,
           \A i, j \in DOMAIN s : i # j => s[i] # s[j],
           \A i \in DOMAIN s : s[i] # x
    PROVE  LET t == Append(s, x) IN \A i, j \in DOMAIN t : i # j => t[i] # t[j]
OBVIOUS

LEMMA DistinctNewest ==
    ASSUME NEW S, NEW s \in Seq(S), NEW n \in Nat,
           \A i, j \in DOMAIN s : i # j => s[i] # s[j]
    PROVE  LET t == Newest(s, n) IN \A i, j \in DOMAIN t : i # j => t[i] # t[j]
<1> DEFINE t == Newest(s, n)
           d == Len(s) - Len(t)
<1>1. /\ t \in Seq(S) /\ Len(t) = (IF Len(s) > n THEN n ELSE Len(s))
      /\ \A i \in 1..Len(t) : t[i] = s[d + i]
  BY NewestProperties
<1>2. Len(s) \in Nat /\ DOMAIN s = 1..Len(s) /\ DOMAIN t = 1..Len(t) /\ Len(t) \in Nat
  BY <1>1
<1>3. d \in Nat /\ d + Len(t) = Len(s)
  BY <1>1, <1>2
<1> HIDE DEF t, d
<1>4. \A i, j \in DOMAIN t : i # j => t[i] # t[j]
  <2> SUFFICES ASSUME NEW i \in 1..Len(t), NEW j \in 1..Len(t), i # j
               PROVE  t[i] # t[j]
    BY <1>2
  <2>1. d + i \in DOMAIN s /\ d + j \in DOMAIN s /\ d + i # d + j
    BY <1>2, <1>3
  <2>2. QED
    BY <1>1, <2>1
<1>5. QED
  BY <1>4 DEF t

-------------------------------------------------------------------------------
LEMMA ClientFields ==
    ASSUME StoreTypeOK, NEW c \in Clients, clients[c] # None
    PROVE  /\ clients[c] \in Client
           /\ clients[c].roomId \in Rooms \cup {None}
           /\ clients[c].mirrored \in Seq(1..MaxOperations)
           /\ DOMAIN clients[c].mirrored = 1..Len(clients[c].mirrored)
<1>1. clients[c] \in Client
  BY DEF StoreTypeOK
<1>2. clients[c].roomId \in Rooms \cup {None} /\ clients[c].mirrored \in Seq(1..MaxOperations)
  BY <1>1 DEF Client
<1>3. QED
  BY <1>1, <1>2, LenProperties

(* What a client makes of a message changes one part of what it has. *)
LEMMA TakeEvent ==
    ASSUME NEW client \in Client, NEW id \in 1..MaxOperations
    PROVE  LET t == take(client, [type |-> "event", id |-> id]) IN
           /\ t \in Client /\ t.roomId = client.roomId
           /\ t.mirrored = Append(client.mirrored, id)
           /\ t.presence = client.presence /\ t.summary = client.summary
<1> DEFINE message == [type |-> "event", id |-> id]
<1>1. message.type = "event" /\ message.id = id
  OBVIOUS
<1>2. take(client, message) = [client EXCEPT !.mirrored = Append(@, id)]
  BY <1>1 DEF take
<1>3. client.mirrored \in Seq(1..MaxOperations)
  BY DEF Client
<1>4. Append(client.mirrored, id) \in Seq(1..MaxOperations)
  BY <1>3
<1>5. QED
  BY <1>2, <1>4 DEF Client

LEMMA TakePresence ==
    ASSUME NEW client \in Client, NEW identity \in Identities, NEW id \in 1..MaxOperations
    PROVE  LET t == take(client, [type |-> "presence", identity |-> identity, id |-> id]) IN
           /\ t \in Client /\ t.roomId = client.roomId /\ t.mirrored = client.mirrored
           /\ t.presence = [client.presence EXCEPT ![identity] = id]
           /\ t.summary = client.summary
<1> DEFINE message == [type |-> "presence", identity |-> identity, id |-> id]
<1>1. message.type = "presence" /\ message.id = id /\ message.identity = identity
  OBVIOUS
<1>2. take(client, message) = [client EXCEPT !.presence[identity] = id]
  BY <1>1 DEF take
<1>3. client.presence \in [Identities -> OperationOrNone] /\ id \in OperationOrNone
  BY DEF Client, OperationOrNone
<1>4. [client.presence EXCEPT ![identity] = id] \in [Identities -> OperationOrNone]
  BY <1>3
<1>5. QED
  BY <1>2, <1>4 DEF Client

LEMMA TakeSummary ==
    ASSUME NEW client \in Client, NEW id \in 1..MaxOperations
    PROVE  LET t == take(client, [type |-> "summary", id |-> id]) IN
           /\ t \in Client /\ t.roomId = client.roomId /\ t.mirrored = client.mirrored
           /\ t.presence = client.presence /\ t.summary = id
<1> DEFINE message == [type |-> "summary", id |-> id]
<1>1. message.type = "summary" /\ message.id = id
  OBVIOUS
<1>2. take(client, message) = [client EXCEPT !.summary = id]
  BY <1>1 DEF take
<1>3. id \in OperationOrNone
  BY DEF OperationOrNone
<1>4. QED
  BY <1>2, <1>3 DEF Client

(* Who hears a broadcast: the clients of its room, and those of none. *)
LEMMA BroadcastClients ==
    ASSUME NEW room \in Rooms, NEW message, broadcast(room, message), NEW c \in Clients
    PROVE  /\ clients'[c] # None => clients[c] # None
           /\ clients[c] # None /\ clients[c].roomId \in {room, None}
                 => clients'[c] = take(clients[c], message)
           /\ clients[c] # None /\ clients[c].roomId \notin {room, None}
                 => clients'[c] = clients[c]
BY DEF broadcast, hears

-------------------------------------------------------------------------------
(* An event with an unused number is appended, and its clients are told. *)
LEMMA AppendEventStep ==
    ASSUME MirrorInv, NEW room \in Rooms, NEW id \in 1..MaxOperations, Unused(id),
           appendEvent(room, id)
    PROVE  /\ MirrorInv'
           /\ \A other \in 1..MaxOperations : other # id /\ Unused(other) => Unused(other)'
           /\ \A c \in Clients : clients'[c] # None => clients[c] # None
<1> DEFINE message == [type |-> "event", id |-> id]
           appended == Newest(Append(events[room], id), maxEventsPerRoom)
<1>1. /\ events' = [events EXCEPT ![room] = appended]
      /\ heads' = [heads EXCEPT ![room] = <<id>>]
      /\ presence' = presence /\ routeSummaries' = routeSummaries /\ mailboxes' = mailboxes
      /\ broadcast(room, message)
      /\ clients' = [c \in Clients |->
                       IF hears(c, room) THEN take(clients[c], message) ELSE clients[c]]
  BY DEF appendEvent, broadcast
<1>2. /\ events \in [Rooms -> Seq(1..MaxOperations)]
      /\ maxEventsPerRoom \in Nat \ {0}
      /\ \A r \in Rooms : Len(events[r]) <= maxEventsPerRoom
      /\ StoreTypeOK
  BY ServerAssumption DEF MirrorInv, StoreTypeOK
<1> DEFINE before == events[room]
           longer == Append(before, id)
<1>3. /\ before \in Seq(1..MaxOperations) /\ Len(before) \in Nat
      /\ DOMAIN before = 1..Len(before) /\ Len(before) <= maxEventsPerRoom
  BY <1>2
<1>4. /\ longer \in Seq(1..MaxOperations) /\ Len(longer) = Len(before) + 1
      /\ DOMAIN longer = 1..(Len(before) + 1)
      /\ \A i \in 1..Len(before) : longer[i] = before[i]
      /\ longer[Len(before) + 1] = id
  BY <1>3
<1>5. /\ appended \in Seq(1..MaxOperations)
      /\ Len(appended) = (IF Len(longer) > maxEventsPerRoom THEN maxEventsPerRoom ELSE Len(longer))
      /\ \A i \in 1..Len(appended) : appended[i] = longer[Len(longer) - Len(appended) + i]
  BY <1>2, <1>4, NewestProperties
<1>6. /\ Len(appended) \in Nat /\ Len(appended) >= 1 /\ Len(appended) <= maxEventsPerRoom
      /\ DOMAIN appended = 1..Len(appended)
      /\ appended[Len(appended)] = id
  <2> HIDE DEF appended, longer, before
  <2>1. Len(longer) \in Nat /\ Len(longer) >= 1
    BY <1>3, <1>4
  <2>2. Len(appended) \in Nat /\ Len(appended) >= 1 /\ Len(appended) <= maxEventsPerRoom
    BY <1>2, <1>5, <2>1
  <2>3. appended[Len(appended)] = longer[Len(longer)]
    <3>1. Len(appended) \in 1..Len(appended) /\ Len(longer) - Len(appended) + Len(appended) = Len(longer)
      BY <2>1, <2>2
    <3>2. QED
      BY <1>5, <3>1
  <2>4. DOMAIN appended = 1..Len(appended)
    BY <1>5
  <2>5. QED
    BY <1>4, <2>2, <2>3, <2>4
<1>7. Newest(appended, 1) = <<id>>
  <2> HIDE DEF appended, longer, before
  <2> DEFINE last == Newest(appended, 1)
  <2>1. /\ last \in Seq(1..MaxOperations)
        /\ Len(last) = (IF Len(appended) > 1 THEN 1 ELSE Len(appended))
        /\ \A i \in 1..Len(last) : last[i] = appended[Len(appended) - Len(last) + i]
    <3>1. appended \in Seq(1..MaxOperations) /\ 1 \in Nat
      BY <1>5
    <3>2. QED
      BY <3>1, NewestProperties, Zenon
  <2> HIDE DEF last
  <2>2. Len(last) = 1 /\ last[1] = id
    <3>1. Len(last) = 1
      BY <1>6, <2>1
    <3>2. 1 \in 1..Len(last) /\ Len(appended) - Len(last) + 1 = Len(appended)
      BY <1>6, <3>1
    <3>3. QED
      BY <1>6, <2>1, <3>1, <3>2
  <2>3. <<id>> \in Seq(1..MaxOperations) /\ Len(<<id>>) = 1 /\ <<id>>[1] = id
    OBVIOUS
  <2>4. last = <<id>>
    BY <2>1, <2>2, <2>3, SeqEqual
  <2>5. QED
    BY <2>4 DEF last
<1>8. ASSUME NEW r \in Rooms
      PROVE  events'[r] = IF r = room THEN appended ELSE events[r]
  BY <1>1, <1>2
<1>9. ASSUME NEW c \in Clients, clients'[c] # None
      PROVE  /\ clients[c] # None /\ clients[c] \in Client /\ clients'[c] \in Client
             /\ clients'[c].roomId = clients[c].roomId
             /\ clients'[c].presence = clients[c].presence
             /\ clients'[c].summary = clients[c].summary
             /\ clients'[c].mirrored = IF clients[c].roomId \in {room, None}
                                         THEN Append(clients[c].mirrored, id)
                                         ELSE clients[c].mirrored
  <2>1. clients[c] # None
    BY <1>1, <1>9, BroadcastClients
  <2>2. clients[c] \in Client
    BY <1>2, <2>1, ClientFields
  <2>3. CASE clients[c].roomId \in {room, None}
    <3>1. clients'[c] = take(clients[c], message)
      BY <1>1, <2>1, <2>3, BroadcastClients
    <3>2. QED
      BY <2>1, <2>2, <2>3, <3>1, TakeEvent
  <2>4. CASE clients[c].roomId \notin {room, None}
    <3>1. clients'[c] = clients[c]
      BY <1>1, <2>1, <2>4, BroadcastClients
    <3>2. QED
      BY <2>1, <2>2, <2>4, <3>1
  <2>5. QED
    BY <2>3, <2>4
<1> HIDE DEF appended, longer, before, message
<1>10. StoreTypeOK'
  <2>1. /\ events' \in [Rooms -> Seq(1..MaxOperations)]
        /\ \A r \in Rooms : Len(events'[r]) <= maxEventsPerRoom
    BY <1>1, <1>2, <1>5, <1>6
  <2>2. heads' = [r \in Rooms |-> Newest(events'[r], 1)]
    <3>1. heads = [r \in Rooms |-> Newest(events[r], 1)]
      BY <1>2 DEF StoreTypeOK
    <3>2. QED
      BY <1>1, <1>7, <1>8, <3>1
  <2>3. clients' \in [Clients -> Client \cup {None}]
    <3>1. \A c \in Clients : clients'[c] \in Client \cup {None}
      BY <1>9
    <3>2. clients' = [c \in Clients |-> clients'[c]]
      BY <1>1
    <3>3. QED
      BY <3>1, <3>2
  <2>4. /\ presence' \in [Rooms \X Identities -> OperationOrNone]
        /\ routeSummaries' \in [Rooms -> OperationOrNone]
        /\ mailboxes' \in [Identities -> Seq(1..MaxOperations)]
    BY <1>1, <1>2 DEF StoreTypeOK
  <2>5. QED
    BY <2>1, <2>2, <2>3, <2>4 DEF StoreTypeOK
<1>11. \A i \in DOMAIN before : before[i] # id
  BY DEF Unused, before
<1>12. EventsDistinct'
  <2>1. \A i, j \in DOMAIN before : i # j => before[i] # before[j]
    BY DEF MirrorInv, EventsDistinct, before
  <2>2. \A i, j \in DOMAIN longer : i # j => longer[i] # longer[j]
    BY <1>3, <1>11, <2>1, DistinctAppend DEF longer
  <2>3. \A i, j \in DOMAIN appended : i # j => appended[i] # appended[j]
    <3>1. longer \in Seq(1..MaxOperations) /\ maxEventsPerRoom \in Nat
      BY <1>2, <1>4
    <3>2. QED
      BY <2>2, <3>1, DistinctNewest DEF appended, longer, before
  <2>4. QED
    BY <1>8, <2>3 DEF MirrorInv, EventsDistinct
<1>13. ClientsFollowRoom'
  <2> SUFFICES ASSUME NEW c \in Clients, clients'[c] # None, clients'[c].roomId # None
               PROVE  HasRoom(clients[c], clients[c].roomId)'
    BY DEF ClientsFollowRoom
  <2> DEFINE m == clients[c].mirrored
             r == clients[c].roomId
  <2>1. /\ clients[c] # None /\ r # None /\ r \in Rooms
        /\ clients'[c].roomId = r /\ clients'[c].presence = clients[c].presence
        /\ clients'[c].summary = clients[c].summary
    BY <1>2, <1>9, ClientFields
  <2>2. /\ IsSuffixOf(events[r], m)
        /\ Len(m) > Len(events[r]) => Len(events[r]) = maxEventsPerRoom
        /\ \A i, j \in DOMAIN m : i # j => m[i] # m[j]
        /\ clients[c].presence = [i \in Identities |-> presence[<<r, i>>]]
        /\ clients[c].summary = routeSummaries[r]
    BY <2>1 DEF MirrorInv, ClientsFollowRoom, HasRoom
  <2>3. /\ clients'[c].presence = [i \in Identities |-> presence'[<<r, i>>]]
        /\ clients'[c].summary = routeSummaries'[r]
    BY <1>1, <2>1, <2>2
  <2>4. m \in Seq(1..MaxOperations) /\ \A i \in DOMAIN m : m[i] # id
    BY <1>2, <2>1, ClientFields DEF Unused
  <2>5. CASE r = room
    <3>1. clients'[c].mirrored = Append(m, id) /\ events'[r] = appended
      BY <1>8, <1>9, <2>1, <2>5
    <3>2. IsSuffixOf(before, m) /\ (Len(m) > Len(before) => Len(before) = maxEventsPerRoom)
      BY <2>2, <2>5 DEF before
    <3> HIDE DEF m
    <3>3. Append(m, id) \in Seq(1..MaxOperations) /\ Len(Append(m, id)) = Len(m) + 1 /\ Len(m) \in Nat
      BY <2>4
    <3>4. IsSuffixOf(longer, Append(m, id))
      BY <1>3, <2>4, <3>2, SuffixAppend DEF longer
    <3>5. IsSuffixOf(appended, Append(m, id))
      <4>1. appended = Newest(longer, maxEventsPerRoom) /\ maxEventsPerRoom \in Nat
        BY <1>2 DEF appended, longer, before
      <4>2. QED
        BY <1>4, <3>3, <3>4, <4>1, SuffixNewest
    <3>6. Len(Append(m, id)) > Len(appended) => Len(appended) = maxEventsPerRoom
      <4>1. Len(before) <= Len(m)
        BY <3>2 DEF IsSuffixOf
      <4>2. Len(longer) = Len(before) + 1 /\ Len(before) \in Nat
        BY <1>3, <1>4
      <4>3. Len(appended) = IF Len(longer) > maxEventsPerRoom THEN maxEventsPerRoom ELSE Len(longer)
        BY <1>5
      <4>4. Len(before) <= maxEventsPerRoom /\ maxEventsPerRoom \in Nat
        BY <1>2, <1>3
      <4>5. QED
        BY <3>2, <3>3, <4>1, <4>2, <4>3, <4>4
    <3>7. \A i, j \in DOMAIN Append(m, id) : i # j => Append(m, id)[i] # Append(m, id)[j]
      <4>1. \A i, j \in DOMAIN m : i # j => m[i] # m[j]
        BY <2>2 DEF m
      <4>2. QED
        BY <2>4, <4>1, DistinctAppend
    <3>8. QED
      BY <2>1, <2>3, <3>1, <3>5, <3>6, <3>7 DEF HasRoom
  <2>6. CASE r # room
    <3>1. clients'[c].mirrored = m /\ events'[r] = events[r]
      BY <1>8, <1>9, <2>1, <2>6
    <3>2. QED
      BY <2>1, <2>2, <2>3, <3>1 DEF HasRoom
  <2>7. QED
    BY <2>5, <2>6
<1>14. ASSUME NEW other \in 1..MaxOperations, other # id, Unused(other)
       PROVE  Unused(other)'
  <2>1. ASSUME NEW r \in Rooms, NEW i \in DOMAIN events'[r]
        PROVE  events'[r][i] # other
    <3>1. CASE r = room
      <4>1. events'[r] = appended
        BY <1>8, <3>1
      <4>2. i \in 1..Len(appended)
        BY <1>6, <2>1, <4>1
      <4> DEFINE k == Len(longer) - Len(appended) + i
      <4>3. k \in 1..(Len(before) + 1) /\ appended[i] = longer[k]
        BY <1>3, <1>4, <1>5, <1>6, <4>2
      <4>4. longer[k] \in {id} \cup {before[n] : n \in 1..Len(before)}
        BY <1>3, <1>4, <4>3
      <4>5. \A n \in 1..Len(before) : before[n] # other
        BY <1>3, <1>14 DEF Unused, before
      <4>6. QED
        BY <1>14, <4>1, <4>3, <4>4, <4>5
    <3>2. CASE r # room
      BY <1>8, <1>14, <2>1, <3>2 DEF Unused
    <3>3. QED
      BY <3>1, <3>2
  <2>2. ASSUME NEW c \in Clients, clients'[c] # None, NEW i \in DOMAIN clients'[c].mirrored
        PROVE  clients'[c].mirrored[i] # other
    <3> DEFINE m == clients[c].mirrored
    <3>1. /\ clients[c] # None /\ m \in Seq(1..MaxOperations)
          /\ \A n \in DOMAIN m : m[n] # other
          /\ clients'[c].mirrored = Append(m, id) \/ clients'[c].mirrored = m
      BY <1>2, <1>9, <1>14, <2>2, ClientFields DEF Unused
    <3> HIDE DEF m
    <3>2. \A n \in DOMAIN Append(m, id) : Append(m, id)[n] # other
      BY <1>14, <3>1
    <3>3. QED
      BY <2>2, <3>1, <3>2
  <2>3. QED
    BY <2>1, <2>2 DEF Unused
<1>15. QED
  BY <1>9, <1>10, <1>12, <1>13, <1>14 DEF MirrorInv

(* Where the store has the same events, and the clients the same of them, *)
(* what was unused is unused.                                             *)
LEMMA UnusedKept ==
    ASSUME events' = events,
           \A c \in Clients : clients'[c] # None =>
              clients[c] # None /\ clients'[c].mirrored = clients[c].mirrored,
           NEW id, Unused(id)
    PROVE  Unused(id)'
BY DEF Unused

(* A lease is stored, and its clients are told. *)
LEMMA UpsertPresenceStep ==
    ASSUME MirrorInv, NEW room \in Rooms, NEW identity \in Identities,
           NEW id \in 1..MaxOperations, upsertPresence(room, identity, id)
    PROVE  /\ MirrorInv'
           /\ \A other \in 1..MaxOperations : Unused(other) => Unused(other)'
           /\ \A c \in Clients : clients'[c] # None => clients[c] # None
<1> DEFINE message == [type |-> "presence", identity |-> identity, id |-> id]
<1>1. /\ presence' = [presence EXCEPT ![<<room, identity>>] = id]
      /\ events' = events /\ heads' = heads /\ routeSummaries' = routeSummaries
      /\ mailboxes' = mailboxes /\ broadcast(room, message)
      /\ clients' = [c \in Clients |->
                       IF hears(c, room) THEN take(clients[c], message) ELSE clients[c]]
  BY DEF upsertPresence, broadcast
<1>2. StoreTypeOK /\ presence \in [Rooms \X Identities -> OperationOrNone]
  BY DEF MirrorInv, StoreTypeOK
<1>3. ASSUME NEW c \in Clients, clients'[c] # None
      PROVE  /\ clients[c] # None /\ clients[c] \in Client /\ clients'[c] \in Client
             /\ clients'[c].roomId = clients[c].roomId
             /\ clients'[c].mirrored = clients[c].mirrored
             /\ clients'[c].summary = clients[c].summary
             /\ clients'[c].presence = IF clients[c].roomId \in {room, None}
                                         THEN [clients[c].presence EXCEPT ![identity] = id]
                                         ELSE clients[c].presence
  <2>1. clients[c] # None
    BY <1>1, <1>3, BroadcastClients
  <2>2. clients[c] \in Client
    BY <1>2, <2>1, ClientFields
  <2>3. CASE clients[c].roomId \in {room, None}
    <3>1. clients'[c] = take(clients[c], message)
      BY <1>1, <2>1, <2>3, BroadcastClients
    <3>2. QED
      BY <2>1, <2>2, <2>3, <3>1, TakePresence
  <2>4. CASE clients[c].roomId \notin {room, None}
    <3>1. clients'[c] = clients[c]
      BY <1>1, <2>1, <2>4, BroadcastClients
    <3>2. QED
      BY <2>1, <2>2, <2>4, <3>1
  <2>5. QED
    BY <2>3, <2>4
<1> HIDE DEF message
<1>4. StoreTypeOK'
  <2>1. \A c \in Clients : clients'[c] \in Client \cup {None}
    BY <1>3
  <2>2. clients' \in [Clients -> Client \cup {None}]
    BY <1>1, <2>1
  <2>3. presence' \in [Rooms \X Identities -> OperationOrNone]
    BY <1>1, <1>2 DEF OperationOrNone
  <2>4. QED
    BY <1>1, <1>2, <2>2, <2>3 DEF StoreTypeOK
<1>5. EventsDistinct'
  BY <1>1 DEF MirrorInv, EventsDistinct
<1>6. ASSUME NEW r \in Rooms, NEW i \in Identities
      PROVE  presence'[<<r, i>>] = IF r = room /\ i = identity THEN id ELSE presence[<<r, i>>]
  BY <1>1, <1>2
<1>7. ClientsFollowRoom'
  <2> SUFFICES ASSUME NEW c \in Clients, clients'[c] # None, clients'[c].roomId # None
               PROVE  HasRoom(clients[c], clients[c].roomId)'
    BY DEF ClientsFollowRoom
  <2> DEFINE r == clients[c].roomId
  <2>1. /\ clients[c] # None /\ r # None /\ r \in Rooms
        /\ clients'[c].roomId = r /\ clients'[c].mirrored = clients[c].mirrored
        /\ clients'[c].summary = clients[c].summary
    BY <1>2, <1>3, ClientFields
  <2>2. /\ IsSuffixOf(events[r], clients[c].mirrored)
        /\ Len(clients[c].mirrored) > Len(events[r]) => Len(events[r]) = maxEventsPerRoom
        /\ \A i, j \in DOMAIN clients[c].mirrored :
              i # j => clients[c].mirrored[i] # clients[c].mirrored[j]
        /\ clients[c].presence = [i \in Identities |-> presence[<<r, i>>]]
        /\ clients[c].summary = routeSummaries[r]
    BY <2>1 DEF MirrorInv, ClientsFollowRoom, HasRoom
  <2>3. clients'[c].presence = [i \in Identities |-> presence'[<<r, i>>]]
    <3>1. CASE r = room
      <4>1. clients'[c].presence = [clients[c].presence EXCEPT ![identity] = id]
        BY <1>3, <3>1
      <4>2. clients[c].presence = [i \in Identities |-> presence[<<r, i>>]]
        BY <2>2
      <4>3. clients'[c].presence =
              [i \in Identities |-> IF i = identity THEN id ELSE presence[<<r, i>>]]
        BY <4>1, <4>2
      <4>4. \A i \in Identities :
              presence'[<<r, i>>] = IF i = identity THEN id ELSE presence[<<r, i>>]
        BY <1>6, <2>1, <3>1
      <4>5. QED
        BY <4>3, <4>4
    <3>2. CASE r # room
      <4>1. clients'[c].presence = [i \in Identities |-> presence[<<r, i>>]]
        BY <1>3, <2>1, <2>2, <3>2
      <4>2. \A i \in Identities : presence'[<<r, i>>] = presence[<<r, i>>]
        BY <1>6, <2>1, <3>2
      <4>3. QED
        BY <4>1, <4>2
    <3>3. QED
      BY <3>1, <3>2
  <2> DEFINE mirrored == clients'[c].mirrored
  <2>4. /\ IsSuffixOf(events'[r], mirrored)
        /\ Len(mirrored) > Len(events'[r]) => Len(events'[r]) = maxEventsPerRoom
        /\ \A i, j \in DOMAIN mirrored : i # j => mirrored[i] # mirrored[j]
    BY <1>1, <2>1, <2>2
  <2>5. clients'[c].summary = routeSummaries'[r]
    BY <1>1, <2>1, <2>2
  <2> HIDE DEF r
  <2>6. QED
    BY <2>1, <2>3, <2>4, <2>5 DEF HasRoom
<1>8. QED
  BY <1>1, <1>3, <1>4, <1>5, <1>7, UnusedKept DEF MirrorInv

(* A route summary is stored, and its clients are told. *)
LEMMA UpsertRouteSummaryStep ==
    ASSUME MirrorInv, NEW room \in Rooms, NEW id \in 1..MaxOperations,
           upsertRouteSummary(room, id)
    PROVE  /\ MirrorInv'
           /\ \A other \in 1..MaxOperations : Unused(other) => Unused(other)'
           /\ \A c \in Clients : clients'[c] # None => clients[c] # None
<1> DEFINE message == [type |-> "summary", id |-> id]
<1>1. /\ routeSummaries' = [routeSummaries EXCEPT ![room] = id]
      /\ events' = events /\ heads' = heads /\ presence' = presence
      /\ mailboxes' = mailboxes /\ broadcast(room, message)
      /\ clients' = [c \in Clients |->
                       IF hears(c, room) THEN take(clients[c], message) ELSE clients[c]]
  BY DEF upsertRouteSummary, broadcast
<1>2. StoreTypeOK /\ routeSummaries \in [Rooms -> OperationOrNone]
  BY DEF MirrorInv, StoreTypeOK
<1>3. ASSUME NEW c \in Clients, clients'[c] # None
      PROVE  /\ clients[c] # None /\ clients[c] \in Client /\ clients'[c] \in Client
             /\ clients'[c].roomId = clients[c].roomId
             /\ clients'[c].mirrored = clients[c].mirrored
             /\ clients'[c].presence = clients[c].presence
             /\ clients'[c].summary = IF clients[c].roomId \in {room, None}
                                        THEN id ELSE clients[c].summary
  <2>1. clients[c] # None
    BY <1>1, <1>3, BroadcastClients
  <2>2. clients[c] \in Client
    BY <1>2, <2>1, ClientFields
  <2>3. CASE clients[c].roomId \in {room, None}
    <3>1. clients'[c] = take(clients[c], message)
      BY <1>1, <2>1, <2>3, BroadcastClients
    <3>2. QED
      BY <2>1, <2>2, <2>3, <3>1, TakeSummary
  <2>4. CASE clients[c].roomId \notin {room, None}
    <3>1. clients'[c] = clients[c]
      BY <1>1, <2>1, <2>4, BroadcastClients
    <3>2. QED
      BY <2>1, <2>2, <2>4, <3>1
  <2>5. QED
    BY <2>3, <2>4
<1> HIDE DEF message
<1>4. StoreTypeOK'
  <2>1. \A c \in Clients : clients'[c] \in Client \cup {None}
    BY <1>3
  <2>2. clients' \in [Clients -> Client \cup {None}]
    BY <1>1, <2>1
  <2>3. routeSummaries' \in [Rooms -> OperationOrNone]
    BY <1>1, <1>2 DEF OperationOrNone
  <2>4. QED
    BY <1>1, <1>2, <2>2, <2>3 DEF StoreTypeOK
<1>5. EventsDistinct'
  BY <1>1 DEF MirrorInv, EventsDistinct
<1>6. ASSUME NEW r \in Rooms
      PROVE  routeSummaries'[r] = IF r = room THEN id ELSE routeSummaries[r]
  BY <1>1, <1>2
<1>7. ClientsFollowRoom'
  <2> SUFFICES ASSUME NEW c \in Clients, clients'[c] # None, clients'[c].roomId # None
               PROVE  HasRoom(clients[c], clients[c].roomId)'
    BY DEF ClientsFollowRoom
  <2> DEFINE r == clients[c].roomId
  <2>1. /\ clients[c] # None /\ r # None /\ r \in Rooms
        /\ clients'[c].roomId = r /\ clients'[c].mirrored = clients[c].mirrored
        /\ clients'[c].presence = clients[c].presence
    BY <1>2, <1>3, ClientFields
  <2>2. /\ IsSuffixOf(events[r], clients[c].mirrored)
        /\ Len(clients[c].mirrored) > Len(events[r]) => Len(events[r]) = maxEventsPerRoom
        /\ \A i, j \in DOMAIN clients[c].mirrored :
              i # j => clients[c].mirrored[i] # clients[c].mirrored[j]
        /\ clients[c].presence = [i \in Identities |-> presence[<<r, i>>]]
        /\ clients[c].summary = routeSummaries[r]
    BY <2>1 DEF MirrorInv, ClientsFollowRoom, HasRoom
  <2>3. clients'[c].summary = routeSummaries'[r]
    BY <1>3, <1>6, <2>1, <2>2
  <2>4. clients'[c].presence = [i \in Identities |-> presence'[<<r, i>>]]
    BY <1>1, <2>1, <2>2
  <2> DEFINE mirrored == clients'[c].mirrored
  <2>5. /\ IsSuffixOf(events'[r], mirrored)
        /\ Len(mirrored) > Len(events'[r]) => Len(events'[r]) = maxEventsPerRoom
        /\ \A i, j \in DOMAIN mirrored : i # j => mirrored[i] # mirrored[j]
    BY <1>1, <2>1, <2>2
  <2> HIDE DEF r
  <2>6. QED
    BY <2>1, <2>3, <2>4, <2>5 DEF HasRoom
<1>8. QED
  BY <1>1, <1>3, <1>4, <1>5, <1>7, UnusedKept DEF MirrorInv

(* A client is given the snapshot of a room, connects, or goes. *)
LEMMA SnapshotIsRoom ==
    ASSUME MirrorInv, NEW socket \in {"sse", "ws"}, NEW room \in Rooms
    PROVE  /\ snapshot(socket, room) \in Client
           /\ snapshot(socket, room).roomId = room
           /\ snapshot(socket, room).mirrored = events[room]
           /\ HasRoom(snapshot(socket, room), room)
<1> DEFINE s == snapshot(socket, room)
<1>1. /\ s.socket = socket /\ s.roomId = room /\ s.mirrored = events[room]
      /\ s.presence = [i \in Identities |-> presence[<<room, i>>]]
      /\ s.summary = routeSummaries[room]
  BY DEF snapshot
<1>2. /\ events[room] \in Seq(1..MaxOperations)
      /\ routeSummaries[room] \in OperationOrNone
      /\ presence \in [Rooms \X Identities -> OperationOrNone]
  BY DEF MirrorInv, StoreTypeOK
<1>3. [i \in Identities |-> presence[<<room, i>>]] \in [Identities -> OperationOrNone]
  BY <1>2
<1>4. s \in Client
  BY <1>2, <1>3 DEF snapshot, Client
<1>5. \A i, j \in DOMAIN events[room] : i # j => events[room][i] # events[room][j]
  BY DEF MirrorInv, EventsDistinct
<1>6. IsSuffixOf(events[room], events[room]) /\ ~(Len(events[room]) > Len(events[room]))
  BY <1>2, SuffixSelf
<1> HIDE DEF s
<1>7. HasRoom(s, room)
  BY <1>1, <1>5, <1>6 DEF HasRoom
<1>8. QED
  BY <1>1, <1>4, <1>7 DEF s

(* A step that changes one client only. *)
LEMMA ClientStep ==
    ASSUME ServerInv, listening, NEW c \in Clients, NEW client, setClient(c, client),
           client # None => /\ client \in Client
                            /\ client.roomId # None => HasRoom(client, client.roomId)
                            /\ \A id : Unused(id) =>
                                  \A i \in DOMAIN client.mirrored : client.mirrored[i] # id
    PROVE  ServerInv'
<1>1. /\ clients' = [clients EXCEPT ![c] = client]
      /\ listening' = listening /\ restarts' = restarts /\ operations' = operations
      /\ events' = events /\ heads' = heads /\ presence' = presence
      /\ routeSummaries' = routeSummaries /\ mailboxes' = mailboxes
      /\ requests' = requests /\ relayed' = relayed
      /\ clients \in [Clients -> Client \cup {None}]
  BY DEF setClient, storeVars, ServerInv, MirrorInv, StoreTypeOK
<1>2. \A d \in Clients : clients'[d] = IF d = c THEN client ELSE clients[d]
  BY <1>1
<1>3. \A id : Unused(id) => Unused(id)'
  BY <1>1, <1>2 DEF Unused
<1>4. StoreTypeOK'
  BY <1>1 DEF ServerInv, MirrorInv, StoreTypeOK
<1>5. ClientsFollowRoom'
  <2> SUFFICES ASSUME NEW d \in Clients, clients'[d] # None, clients'[d].roomId # None
               PROVE  HasRoom(clients[d], clients[d].roomId)'
    BY DEF ClientsFollowRoom
  <2>1. HasRoom(clients'[d], clients'[d].roomId)
    BY <1>2 DEF ServerInv, MirrorInv, ClientsFollowRoom
  <2>2. QED
    BY <1>1, <2>1 DEF HasRoom
<1>6. EventsDistinct'
  BY <1>1 DEF ServerInv, MirrorInv, EventsDistinct
<1>7. ServerTypeOK' /\ DownIsEmpty'
  BY <1>1 DEF ServerInv, ServerTypeOK, DownIsEmpty
<1>8. SentSoFar'
  BY <1>1, <1>3 DEF ServerInv, SentSoFar
<1>9. PendingFresh'
  <2> SUFFICES ASSUME NEW q \in Requests, requests[q] # None
               PROVE  /\ Unused(requests[q].id)'
                      /\ \A p \in Requests : p # q /\ requests[p] # None => requests[p].id # requests[q].id
    BY <1>1 DEF PendingFresh
  <2>1. PICK id : id = requests[q].id
    OBVIOUS
  <2>2. Unused(id)'
    BY <1>3, <2>1 DEF ServerInv, PendingFresh
  <2>3. Unused(requests[q].id)'
    BY <1>1, <2>1, <2>2 DEF Unused
  <2>4. QED
    BY <2>3 DEF ServerInv, PendingFresh
<1>10. QED
  BY <1>4, <1>5, <1>6, <1>7, <1>8, <1>9 DEF ServerInv, MirrorInv

(* A client that exists is a client of a process that runs. *)
LEMMA ClientsOfRunning ==
    ASSUME ServerInv
    PROVE  /\ \A c \in Clients : clients[c] # None => listening
           /\ \A q \in Requests : requests[q] # None => listening
BY DEF ServerInv, DownIsEmpty

LEMMA SubscriptionStep ==
    ASSUME ServerInv, NEW c \in Clients, NEW room \in Rooms,
           handleSse(c, room) \/ subscribe(c, room)
    PROVE  ServerInv'
<1>1. PICK socket \in {"sse", "ws"} : setClient(c, snapshot(socket, room))
  BY DEF handleSse, subscribe
<1>2. listening
  BY ClientsOfRunning DEF handleSse, subscribe
<1>3. /\ snapshot(socket, room) \in Client
      /\ snapshot(socket, room).roomId = room
      /\ snapshot(socket, room).mirrored = events[room]
      /\ HasRoom(snapshot(socket, room), room)
  BY SnapshotIsRoom DEF ServerInv
<1>4. \A id : Unused(id) => \A i \in DOMAIN events[room] : events[room][i] # id
  BY DEF Unused
<1>5. QED
  BY <1>1, <1>2, <1>3, <1>4, ClientStep

LEMMA UpgradeStep ==
    ASSUME ServerInv, NEW c \in Clients, handleUpgrade(c)
    PROVE  ServerInv'
<1> DEFINE client == [socket |-> "ws", roomId |-> None, mirrored |-> <<>>,
                      presence |-> [i \in Identities |-> None], summary |-> None]
<1>1. setClient(c, client) /\ listening
  BY DEF handleUpgrade
<1>2. client \in Client
  BY DEF Client, OperationOrNone
<1>3. client.roomId = None /\ DOMAIN client.mirrored = {}
  OBVIOUS
<1> HIDE DEF client
<1>4. QED
  BY <1>1, <1>2, <1>3, ClientStep

LEMMA DisconnectStep ==
    ASSUME ServerInv, NEW c \in Clients, disconnect(c)
    PROVE  ServerInv'
<1>1. setClient(c, None) /\ listening
  BY ClientsOfRunning DEF disconnect
<1>2. QED
  BY <1>1, ClientStep

(* What the other parts of the invariant need of a step that keeps the store, *)
(* or adds the event numbered `id` to it.                                     *)
LEMMA BodyFields ==
    ASSUME ServerInv, NEW q \in Requests, requests[q] # None
    PROVE  /\ requests[q] \in Body /\ requests[q].id \in 1..MaxOperations
           /\ requests[q].id \in Nat /\ operations \in Nat
           /\ requests[q].roomId \in Rooms /\ requests[q].identity \in Identities
           /\ requests[q].id <= operations /\ Unused(requests[q].id)
<1>1. requests[q] \in Body /\ operations \in Nat
  BY ServerAssumption DEF ServerInv, ServerTypeOK
<1>2. requests[q].id \in 1..MaxOperations /\ MaxOperations \in Nat
      /\ requests[q].roomId \in Rooms /\ requests[q].identity \in Identities
  BY <1>1, ServerAssumption DEF Body
<1>3. requests[q].id <= operations /\ Unused(requests[q].id)
  BY DEF ServerInv, SentSoFar, PendingFresh
<1>4. QED
  BY <1>1, <1>2, <1>3

LEMMA PostStep ==
    ASSUME ServerInv, NEW q \in Requests, NEW body \in Body, post(q, body)
    PROVE  ServerInv'
<1>1. /\ listening /\ requests[q] = None /\ operations < MaxOperations
      /\ body.id = operations + 1 /\ operations' = operations + 1
      /\ requests' = [requests EXCEPT ![q] = body]
      /\ listening' = listening /\ restarts' = restarts /\ clients' = clients
      /\ events' = events /\ heads' = heads /\ presence' = presence
      /\ routeSummaries' = routeSummaries /\ mailboxes' = mailboxes /\ relayed' = relayed
  BY DEF post, storeVars
<1>2. /\ operations \in Nat /\ MaxOperations \in Nat /\ operations + 1 \in 1..MaxOperations
      /\ requests \in [Requests -> Body \cup {None}]
  BY <1>1, ServerAssumption DEF ServerInv, ServerTypeOK
<1>3. \A p \in Requests : requests'[p] = IF p = q THEN body ELSE requests[p]
  BY <1>1, <1>2
<1>4. \A id : Unused(id) => Unused(id)'
  BY <1>1 DEF Unused
<1>5. MirrorInv'
  BY <1>1 DEF ServerInv, MirrorInv, StoreTypeOK, EventsDistinct, ClientsFollowRoom, HasRoom
<1>6. ServerTypeOK'
  BY <1>1, <1>2 DEF ServerInv, ServerTypeOK
<1>7. DownIsEmpty'
  BY <1>1 DEF DownIsEmpty
<1>8. ASSUME NEW p \in Requests, requests[p] # None
      PROVE  requests[p].id \in Nat /\ requests[p].id <= operations /\ Unused(requests[p].id)
  BY <1>8, BodyFields
<1>9. SentSoFar'
  <2>1. ASSUME NEW id \in 1..MaxOperations, id > operations'
        PROVE  Unused(id)'
    <3>1. Unused(id)
      BY <1>1, <1>2, <2>1 DEF ServerInv, SentSoFar
    <3>2. QED
      BY <1>4, <3>1
  <2>2. ASSUME NEW p \in Requests, requests'[p] # None
        PROVE  requests'[p].id <= operations'
    BY <1>1, <1>2, <1>3, <1>8, <2>2
  <2>3. QED
    BY <2>1, <2>2 DEF SentSoFar
<1>10. PendingFresh'
  <2> SUFFICES ASSUME NEW p \in Requests, requests'[p] # None
               PROVE  /\ Unused(requests[p].id)'
                      /\ \A o \in Requests : o # p /\ requests'[o] # None => requests'[o].id # requests'[p].id
    BY DEF PendingFresh
  <2>1. PICK id : id = requests'[p].id
    OBVIOUS
  <2>2. Unused(id)
    <3>1. CASE p = q
      BY <1>1, <1>2, <1>3, <2>1, <3>1 DEF ServerInv, SentSoFar
    <3>2. CASE p # q
      BY <1>3, <1>8, <2>1, <3>2
    <3>3. QED
      BY <3>1, <3>2
  <2>3. Unused(requests[p].id)'
    BY <1>4, <2>1, <2>2 DEF Unused
  <2>4. ASSUME NEW o \in Requests, o # p, requests'[o] # None
        PROVE  requests'[o].id # requests'[p].id
    <3>1. CASE p = q
      BY <1>1, <1>2, <1>3, <1>8, <2>4, <3>1
    <3>2. CASE o = q
      BY <1>1, <1>2, <1>3, <1>8, <2>4, <3>2
    <3>3. CASE p # q /\ o # q
      BY <1>3, <2>4, <3>3 DEF ServerInv, PendingFresh
    <3>4. QED
      BY <3>1, <3>2, <3>3
  <2>5. QED
    BY <2>3, <2>4
<1>11. QED
  BY <1>5, <1>6, <1>7, <1>9, <1>10 DEF ServerInv

(* A process that ends keeps nothing but its store, which nobody reads. *)
LEMMA FailStep ==
    ASSUME ServerInv, fail, restarts' = restarts, relayed' = relayed,
           operations' \in 0..MaxOperations, operations' >= operations,
           UNCHANGED storeVars
    PROVE  ServerInv'
<1>1. /\ listening' = FALSE /\ requests' = [q \in Requests |-> None]
      /\ clients' = [c \in Clients |-> None]
      /\ events' = events /\ heads' = heads /\ presence' = presence
      /\ routeSummaries' = routeSummaries /\ mailboxes' = mailboxes
  BY DEF fail, storeVars
<1>2. \A q \in Requests : requests'[q] = None
  BY <1>1
<1>3. \A c \in Clients : clients'[c] = None
  BY <1>1
<1>4. MirrorInv'
  BY <1>1, <1>3 DEF ServerInv, MirrorInv, StoreTypeOK, EventsDistinct, ClientsFollowRoom
<1>5. ServerTypeOK'
  BY <1>1 DEF ServerInv, ServerTypeOK
<1>6. SentSoFar'
  <2>1. ASSUME NEW id \in 1..MaxOperations, id > operations'
        PROVE  Unused(id)'
    <3>1. operations \in Nat /\ operations' \in Nat /\ id \in Nat
      BY ServerAssumption DEF ServerInv, ServerTypeOK
    <3>2. Unused(id)
      BY <2>1, <3>1 DEF ServerInv, SentSoFar
    <3>3. QED
      BY <1>1, <1>3, <3>2 DEF Unused
  <2>2. QED
    BY <1>2, <2>1 DEF SentSoFar
<1>7. PendingFresh' /\ DownIsEmpty'
  BY <1>2, <1>3 DEF PendingFresh, DownIsEmpty
<1>8. QED
  BY <1>4, <1>5, <1>6, <1>7 DEF ServerInv

LEMMA StopStep ==
    ASSUME ServerInv, stop \/ \E q \in Requests : handlerRejects(q)
    PROVE  ServerInv'
<1>1. /\ fail /\ restarts' = restarts /\ relayed' = relayed /\ operations' = operations
      /\ UNCHANGED storeVars
  BY DEF stop, handlerRejects
<1>2. operations' \in 0..MaxOperations /\ operations' >= operations
  BY <1>1, ServerAssumption DEF ServerInv, ServerTypeOK
<1>3. QED
  BY <1>1, <1>2, FailStep

LEMMA StartStep ==
    ASSUME ServerInv, start
    PROVE  ServerInv'
<1>1. /\ ~listening /\ restarts < MaxRestarts /\ restarts' = restarts + 1 /\ listening' = TRUE
      /\ events' = noEvents /\ heads' = noEvents /\ presence' = noPresence
      /\ routeSummaries' = noSummaries /\ mailboxes' = noRelays
      /\ relayed' = [i \in Identities |-> [enqueued |-> <<>>, drained |-> <<>>]]
      /\ operations' = operations /\ requests' = requests /\ clients' = clients
  BY DEF start
<1>2. /\ \A q \in Requests : requests'[q] = None
      /\ \A c \in Clients : clients'[c] = None
  BY <1>1 DEF ServerInv, DownIsEmpty
<1>3. \A r \in Rooms : events'[r] = <<>>
  BY <1>1 DEF noEvents
<1>4. StoreTypeOK'
  <2>1. /\ events' \in [Rooms -> Seq(1..MaxOperations)]
        /\ \A r \in Rooms : Len(events'[r]) <= maxEventsPerRoom
    BY <1>1, <1>3, ServerAssumption DEF noEvents
  <2>2. heads' = [r \in Rooms |-> Newest(events'[r], 1)]
    BY <1>1, <1>3 DEF noEvents, Newest
  <2>3. /\ presence' \in [Rooms \X Identities -> OperationOrNone]
        /\ routeSummaries' \in [Rooms -> OperationOrNone]
        /\ mailboxes' \in [Identities -> Seq(1..MaxOperations)]
    BY <1>1 DEF noPresence, noSummaries, noRelays, OperationOrNone
  <2>4. clients' \in [Clients -> Client \cup {None}]
    BY <1>1 DEF ServerInv, MirrorInv, StoreTypeOK
  <2>5. QED
    BY <2>1, <2>2, <2>3, <2>4 DEF StoreTypeOK
<1>5. MirrorInv'
  BY <1>2, <1>3, <1>4 DEF MirrorInv, EventsDistinct, ClientsFollowRoom
<1>6. ServerTypeOK'
  <2>1. restarts' \in 0..MaxRestarts
    BY <1>1, ServerAssumption DEF ServerInv, ServerTypeOK
  <2>2. relayed' \in [Identities -> [enqueued: Seq(1..MaxOperations), drained: Seq(1..MaxOperations)]]
    BY <1>1
  <2>3. QED
    BY <1>1, <2>1, <2>2 DEF ServerInv, ServerTypeOK
<1>7. SentSoFar' /\ PendingFresh' /\ DownIsEmpty'
  BY <1>1, <1>2, <1>3 DEF SentSoFar, PendingFresh, DownIsEmpty, Unused
<1>8. QED
  BY <1>5, <1>6, <1>7 DEF ServerInv

(* A mailbox is filled or emptied; no client and no other part of the store *)
(* has a share in it.                                                       *)
LEMMA RelayKeeps ==
    ASSUME ServerInv, mailboxes' \in [Identities -> Seq(1..MaxOperations)],
           UNCHANGED <<events, heads, presence, routeSummaries, clients>>
    PROVE  MirrorInv' /\ \A id : Unused(id) => Unused(id)'
<1>1. StoreTypeOK'
  BY DEF ServerInv, MirrorInv, StoreTypeOK
<1>2. EventsDistinct' /\ ClientsFollowRoom'
  BY DEF ServerInv, MirrorInv, EventsDistinct, ClientsFollowRoom, HasRoom
<1>3. QED
  BY <1>1, <1>2 DEF MirrorInv, Unused

LEMMA EnqueueRelay ==
    ASSUME ServerInv, NEW identity \in Identities, NEW id \in 1..MaxOperations,
           enqueueRelay(identity, id)
    PROVE  /\ mailboxes' \in [Identities -> Seq(1..MaxOperations)]
           /\ relayed' \in [Identities -> [enqueued: Seq(1..MaxOperations), drained: Seq(1..MaxOperations)]]
           /\ UNCHANGED <<events, heads, presence, routeSummaries, clients>>
<1>1. /\ mailboxes' = [mailboxes EXCEPT ![identity] = Append(@, id)]
      /\ relayed' = [relayed EXCEPT ![identity].enqueued = Append(@, id)]
      /\ UNCHANGED <<events, heads, presence, routeSummaries, clients>>
  BY DEF enqueueRelay
<1>2. /\ mailboxes \in [Identities -> Seq(1..MaxOperations)]
      /\ relayed \in [Identities -> [enqueued: Seq(1..MaxOperations), drained: Seq(1..MaxOperations)]]
  BY DEF ServerInv, MirrorInv, StoreTypeOK, ServerTypeOK
<1>3. Append(mailboxes[identity], id) \in Seq(1..MaxOperations)
  BY <1>2
<1>4. Append(relayed[identity].enqueued, id) \in Seq(1..MaxOperations)
  BY <1>2
<1>5. QED
  BY <1>1, <1>2, <1>3, <1>4

LEMMA DrainRelayStep ==
    ASSUME ServerInv, NEW i \in Identities, drainRelay(i)
    PROVE  ServerInv'
<1>1. /\ relayed' = [relayed EXCEPT ![i].drained = @ \o mailboxes[i]]
      /\ mailboxes' = [mailboxes EXCEPT ![i] = <<>>]
      /\ UNCHANGED <<events, heads, presence, routeSummaries, clients>>
      /\ listening' = listening /\ restarts' = restarts /\ operations' = operations
      /\ requests' = requests /\ clients' = clients
  BY DEF drainRelay
<1>2. /\ mailboxes \in [Identities -> Seq(1..MaxOperations)]
      /\ relayed \in [Identities -> [enqueued: Seq(1..MaxOperations), drained: Seq(1..MaxOperations)]]
  BY DEF ServerInv, MirrorInv, StoreTypeOK, ServerTypeOK
<1>3. mailboxes' \in [Identities -> Seq(1..MaxOperations)]
  BY <1>1, <1>2
<1>4. relayed[i].drained \o mailboxes[i] \in Seq(1..MaxOperations)
  BY <1>2, ConcatProperties
<1>5. MirrorInv' /\ \A id : Unused(id) => Unused(id)'
  BY <1>1, <1>3, RelayKeeps
<1>6. ServerTypeOK'
  <2>1. relayed' \in [Identities -> [enqueued: Seq(1..MaxOperations), drained: Seq(1..MaxOperations)]]
    BY <1>1, <1>2, <1>4
  <2>2. QED
    BY <1>1, <2>1 DEF ServerInv, ServerTypeOK
<1>7. SentSoFar' /\ DownIsEmpty'
  BY <1>1, <1>5 DEF ServerInv, SentSoFar, DownIsEmpty
<1>8. PendingFresh'
  BY <1>1 DEF ServerInv, PendingFresh, Unused
<1>9. QED
  BY <1>5, <1>6, <1>7, <1>8 DEF ServerInv

(* Handling a request: an event takes the number of its request with it. *)
LEMMA HandlePostStep ==
    ASSUME ServerInv, NEW q \in Requests, handlePost(q)
    PROVE  ServerInv'
<1>1. PICK body : body = requests[q]
  OBVIOUS
<1>2. /\ body # None /\ requests[q] # None
      /\ requests' = [requests EXCEPT ![q] = None]
      /\ listening' = listening /\ restarts' = restarts /\ operations' = operations
      /\ \/ appendEvent(body.roomId, body.id) /\ relayed' = relayed
         \/ upsertPresence(body.roomId, body.identity, body.id) /\ relayed' = relayed
         \/ upsertRouteSummary(body.roomId, body.id) /\ relayed' = relayed
         \/ enqueueRelay(body.identity, body.id)
  BY <1>1 DEF handlePost
<1>3. /\ body.id \in 1..MaxOperations /\ body.id \in Nat /\ operations \in Nat
      /\ body.roomId \in Rooms /\ body.identity \in Identities
      /\ body.id <= operations /\ Unused(body.id)
  BY <1>1, <1>2, BodyFields
<1>4. /\ MirrorInv'
      /\ relayed' \in [Identities -> [enqueued: Seq(1..MaxOperations), drained: Seq(1..MaxOperations)]]
      /\ \A other \in 1..MaxOperations : other # body.id /\ Unused(other) => Unused(other)'
      /\ \A c \in Clients : clients'[c] # None => clients[c] # None
  <2>0. /\ MirrorInv
        /\ relayed \in [Identities -> [enqueued: Seq(1..MaxOperations), drained: Seq(1..MaxOperations)]]
    BY DEF ServerInv, ServerTypeOK
  <2>1. CASE appendEvent(body.roomId, body.id) /\ relayed' = relayed
    BY <1>3, <2>0, <2>1, AppendEventStep
  <2>2. CASE upsertPresence(body.roomId, body.identity, body.id) /\ relayed' = relayed
    BY <1>3, <2>0, <2>2, UpsertPresenceStep
  <2>3. CASE upsertRouteSummary(body.roomId, body.id) /\ relayed' = relayed
    BY <1>3, <2>0, <2>3, UpsertRouteSummaryStep
  <2>4. CASE enqueueRelay(body.identity, body.id)
    <3>1. /\ mailboxes' \in [Identities -> Seq(1..MaxOperations)]
          /\ relayed' \in [Identities -> [enqueued: Seq(1..MaxOperations), drained: Seq(1..MaxOperations)]]
          /\ UNCHANGED <<events, heads, presence, routeSummaries, clients>>
      BY <1>3, <2>4, EnqueueRelay
    <3>2. QED
      BY <3>1, RelayKeeps
  <2>5. QED
    BY <1>2, <2>1, <2>2, <2>3, <2>4
<1>5. requests \in [Requests -> Body \cup {None}]
  BY DEF ServerInv, ServerTypeOK
<1>6. \A p \in Requests : requests'[p] = IF p = q THEN None ELSE requests[p]
  BY <1>2, <1>5
<1>7. ServerTypeOK'
  BY <1>2, <1>4, <1>5 DEF ServerInv, ServerTypeOK
<1>8. DownIsEmpty'
  BY <1>2, <1>4, <1>6 DEF ServerInv, DownIsEmpty
<1>9. SentSoFar'
  <2>1. ASSUME NEW id \in 1..MaxOperations, id > operations'
        PROVE  Unused(id)'
    <3>1. Unused(id) /\ id # body.id
      BY <1>2, <1>3, <2>1 DEF ServerInv, SentSoFar
    <3>2. QED
      BY <1>4, <3>1
  <2>2. \A p \in Requests : requests'[p] # None => requests'[p].id <= operations'
    BY <1>2, <1>6 DEF ServerInv, SentSoFar
  <2>3. QED
    BY <2>1, <2>2 DEF SentSoFar
<1>10. PendingFresh'
  <2> SUFFICES ASSUME NEW p \in Requests, requests'[p] # None
               PROVE  /\ Unused(requests[p].id)'
                      /\ \A o \in Requests : o # p /\ requests'[o] # None => requests'[o].id # requests'[p].id
    BY DEF PendingFresh
  <2>1. p # q /\ requests'[p] = requests[p] /\ requests[p] # None
    BY <1>6
  <2>2. PICK id : id = requests[p].id
    OBVIOUS
  <2>3. id \in 1..MaxOperations /\ Unused(id)
    BY <2>1, <2>2, BodyFields
  <2>4. id # body.id
    BY <1>1, <1>2, <2>1, <2>2 DEF ServerInv, PendingFresh
  <2>5. Unused(id)'
    BY <1>4, <2>3, <2>4
  <2>6. Unused(requests[p].id)'
    BY <2>1, <2>2, <2>5 DEF Unused
  <2>7. \A o \in Requests : o # p /\ requests'[o] # None => requests'[o].id # requests'[p].id
    BY <1>6, <2>1 DEF ServerInv, PendingFresh
  <2>8. QED
    BY <2>6, <2>7
<1>11. QED
  BY <1>4, <1>7, <1>8, <1>9, <1>10 DEF ServerInv

LEMMA WsAppendStep ==
    ASSUME ServerInv, NEW c \in Clients, NEW room \in Rooms,
           NEW usable \in BOOLEAN, NEW signed \in BOOLEAN,
           wsAppend(c, room, usable, signed)
    PROVE  ServerInv'
<1>1. /\ clients[c] # None /\ operations < MaxOperations /\ operations' = operations + 1
      /\ restarts' = restarts /\ relayed' = relayed
      /\ \/ fail /\ UNCHANGED storeVars
         \/ /\ appendEvent(room, operations + 1)
            /\ listening' = listening /\ requests' = requests
  BY DEF wsAppend
<1>2. /\ operations \in Nat /\ operations' \in 0..MaxOperations /\ operations' >= operations
      /\ operations + 1 \in 1..MaxOperations
  BY <1>1, ServerAssumption DEF ServerInv, ServerTypeOK
<1>3. CASE fail /\ UNCHANGED storeVars
  BY <1>1, <1>2, <1>3, FailStep
<1>4. CASE /\ appendEvent(room, operations + 1)
           /\ listening' = listening /\ requests' = requests
  <2>1. PICK id : id = operations + 1
    OBVIOUS
  <2>2. id \in 1..MaxOperations /\ id > operations /\ Unused(id) /\ appendEvent(room, id)
    <3>1. id \in 1..MaxOperations /\ id > operations
      BY <1>2, <2>1
    <3>2. QED
      BY <1>4, <2>1, <3>1 DEF ServerInv, SentSoFar
  <2>3. /\ MirrorInv'
        /\ \A other \in 1..MaxOperations : other # id /\ Unused(other) => Unused(other)'
    <3>1. MirrorInv
      BY DEF ServerInv
    <3>2. QED
      BY <2>2, <3>1, AppendEventStep
  <2>4. ServerTypeOK'
    BY <1>1, <1>2, <1>4 DEF ServerInv, ServerTypeOK
  <2>5. listening /\ DownIsEmpty'
    BY <1>1, <1>4, ClientsOfRunning DEF DownIsEmpty
  <2>6. ASSUME NEW p \in Requests, requests[p] # None
        PROVE  /\ requests[p].id \in 1..MaxOperations /\ requests[p].id \in Nat
               /\ requests[p].id <= operations /\ Unused(requests[p].id)
    BY <2>6, BodyFields
  <2>7. SentSoFar'
    <3>1. ASSUME NEW other \in 1..MaxOperations, other > operations'
          PROVE  Unused(other)'
      <4>1. other # id /\ Unused(other)
        BY <1>1, <1>2, <2>1, <3>1 DEF ServerInv, SentSoFar
      <4>2. QED
        BY <2>3, <4>1
    <3>2. \A p \in Requests : requests'[p] # None => requests'[p].id <= operations'
      BY <1>1, <1>2, <1>4, <2>6
    <3>3. QED
      BY <3>1, <3>2 DEF SentSoFar
  <2>8. PendingFresh'
    <3> SUFFICES ASSUME NEW p \in Requests, requests'[p] # None
                 PROVE  /\ Unused(requests[p].id)'
                        /\ \A o \in Requests : o # p /\ requests'[o] # None => requests'[o].id # requests'[p].id
      BY DEF PendingFresh
    <3>1. PICK other : other = requests[p].id
      OBVIOUS
    <3>2. other \in 1..MaxOperations /\ Unused(other) /\ other # id
      BY <1>2, <1>4, <2>1, <2>6, <3>1
    <3>3. Unused(other)'
      BY <2>3, <3>2
    <3>4. Unused(requests[p].id)'
      BY <1>4, <3>1, <3>3 DEF Unused
    <3>5. QED
      BY <1>4, <3>4 DEF ServerInv, PendingFresh
  <2>9. QED
    BY <2>3, <2>4, <2>5, <2>7, <2>8 DEF ServerInv
<1>5. QED
  BY <1>1, <1>3, <1>4

-------------------------------------------------------------------------------
LEMMA InitServerInv == Init => ServerInv
<1> SUFFICES ASSUME Init
             PROVE  ServerInv
  OBVIOUS
<1>1. /\ listening = TRUE /\ restarts = 0 /\ operations = 0
      /\ events = noEvents /\ heads = noEvents /\ presence = noPresence
      /\ routeSummaries = noSummaries /\ mailboxes = noRelays
      /\ requests = [q \in Requests |-> None]
      /\ clients = [c \in Clients |-> None]
      /\ relayed = [i \in Identities |-> [enqueued |-> <<>>, drained |-> <<>>]]
  BY DEF Init
<1>2. /\ \A q \in Requests : requests[q] = None
      /\ \A c \in Clients : clients[c] = None
  BY <1>1
<1>3. \A r \in Rooms : events[r] = <<>>
  BY <1>1 DEF noEvents
<1>4. StoreTypeOK
  <2>1. /\ events \in [Rooms -> Seq(1..MaxOperations)]
        /\ \A r \in Rooms : Len(events[r]) <= maxEventsPerRoom
    BY <1>1, <1>3, ServerAssumption DEF noEvents
  <2>2. heads = [r \in Rooms |-> Newest(events[r], 1)]
    BY <1>1, <1>3 DEF noEvents, Newest
  <2>3. /\ presence \in [Rooms \X Identities -> OperationOrNone]
        /\ routeSummaries \in [Rooms -> OperationOrNone]
        /\ mailboxes \in [Identities -> Seq(1..MaxOperations)]
        /\ clients \in [Clients -> Client \cup {None}]
    BY <1>1 DEF noPresence, noSummaries, noRelays, OperationOrNone
  <2>4. QED
    BY <2>1, <2>2, <2>3 DEF StoreTypeOK
<1>5. MirrorInv
  BY <1>2, <1>3, <1>4 DEF MirrorInv, EventsDistinct, ClientsFollowRoom
<1>6. ServerTypeOK
  BY <1>1, ServerAssumption DEF ServerTypeOK
<1>7. SentSoFar /\ PendingFresh /\ DownIsEmpty
  BY <1>2, <1>3 DEF SentSoFar, PendingFresh, DownIsEmpty, Unused
<1>8. QED
  BY <1>5, <1>6, <1>7 DEF ServerInv

LEMMA NextServerInv == ServerInv /\ [Next]_vars => ServerInv'
<1> SUFFICES ASSUME ServerInv, [Next]_vars
             PROVE  ServerInv'
  OBVIOUS
<1>1. CASE \E q \in Requests, b \in Body : post(q, b)
  BY <1>1, PostStep
<1>2. CASE \E q \in Requests : handlePost(q)
  BY <1>2, HandlePostStep
<1>3. CASE stop \/ \E q \in Requests : handlerRejects(q)
  BY <1>3, StopStep
<1>4. CASE \E i \in Identities : drainRelay(i)
  BY <1>4, DrainRelayStep
<1>5. CASE \E c \in Clients, r \in Rooms : handleSse(c, r) \/ subscribe(c, r)
  BY <1>5, SubscriptionStep
<1>6. CASE \E c \in Clients : handleUpgrade(c)
  BY <1>6, UpgradeStep
<1>7. CASE \E c \in Clients : disconnect(c)
  BY <1>7, DisconnectStep
<1>8. CASE \E c \in Clients, r \in Rooms, usable, signed \in BOOLEAN : wsAppend(c, r, usable, signed)
  BY <1>8, WsAppendStep
<1>9. CASE start
  BY <1>9, StartStep
<1>10. CASE UNCHANGED vars
  BY <1>10
     DEF vars, storeVars, ServerInv, MirrorInv, StoreTypeOK, ServerTypeOK, EventsDistinct,
         ClientsFollowRoom, HasRoom, SentSoFar, PendingFresh, DownIsEmpty, Unused
<1>11. QED
  BY <1>1, <1>2, <1>3, <1>4, <1>5, <1>6, <1>7, <1>8, <1>9, <1>10 DEF Next

LEMMA ServerInvariant == Spec => []ServerInv
BY InitServerInv, NextServerInv, PTL DEF Spec

(* The server, its store and its clients keep their shapes, for any bound of *)
(* the events a room keeps.                                                  *)
THEOREM ServerTyped == Spec => []TypeOK
<1>1. ServerInv => TypeOK
  BY DEF ServerInv, MirrorInv, StoreTypeOK, ServerTypeOK, TypeOK
<1>2. QED
  BY <1>1, ServerInvariant, PTL

(* A client that follows a room has the room, for any number of rooms,       *)
(* requests under way and clients of both kinds: the snapshot joins the      *)
(* stream without a gap and without a duplicate.                             *)
THEOREM ClientsFollow == Spec => []ClientsFollowRoom
<1>1. ServerInv => ClientsFollowRoom
  BY DEF ServerInv, MirrorInv
<1>2. QED
  BY <1>1, ServerInvariant, PTL

-------------------------------------------------------------------------------
LEMMA RelayedStep ==
    ASSUME TypeOK, RelayedOnceInOrder, [Next]_vars
    PROVE  RelayedOnceInOrder'
<1> SUFFICES ASSUME NEW j \in Identities
             PROVE  relayed'[j].drained \o mailboxes'[j] = relayed'[j].enqueued
  BY DEF RelayedOnceInOrder
<1>1. /\ mailboxes \in [Identities -> Seq(1..MaxOperations)]
      /\ relayed \in [Identities -> [enqueued: Seq(1..MaxOperations), drained: Seq(1..MaxOperations)]]
  BY DEF TypeOK
<1>2. /\ relayed[j].drained \in Seq(1..MaxOperations)
      /\ mailboxes[j] \in Seq(1..MaxOperations)
      /\ relayed[j].drained \o mailboxes[j] = relayed[j].enqueued
  BY <1>1 DEF RelayedOnceInOrder
<1>3. CASE UNCHANGED <<mailboxes, relayed>>
  BY <1>2, <1>3
<1>4. CASE start
  <2>1. mailboxes'[j] = <<>> /\ relayed'[j] = [enqueued |-> <<>>, drained |-> <<>>]
    BY <1>4 DEF start, noRelays
  <2>2. <<>> \o <<>> = <<>>
    OBVIOUS
  <2>3. QED
    BY <2>1, <2>2
<1>5. ASSUME NEW i \in Identities, drainRelay(i)
      PROVE  relayed'[j].drained \o mailboxes'[j] = relayed'[j].enqueued
  <2>1. /\ relayed' = [relayed EXCEPT ![i].drained = @ \o mailboxes[i]]
        /\ mailboxes' = [mailboxes EXCEPT ![i] = <<>>]
    BY <1>5 DEF drainRelay
  <2>2. CASE j = i
    <3>1. /\ mailboxes'[j] = <<>>
          /\ relayed'[j].enqueued = relayed[j].enqueued
          /\ relayed'[j].drained = relayed[j].drained \o mailboxes[j]
      BY <1>1, <2>1, <2>2
    <3>2. relayed[j].enqueued \in Seq(1..MaxOperations)
      BY <1>1
    <3>3. relayed[j].enqueued \o <<>> = relayed[j].enqueued
      BY <3>2, ConcatEmptySeq
    <3>4. QED
      BY <1>2, <3>1, <3>3
  <2>3. CASE j # i
    BY <1>1, <1>2, <2>1, <2>3
  <2>4. QED
    BY <2>2, <2>3
<1>6. ASSUME NEW i \in Identities, NEW id \in 1..MaxOperations, enqueueRelay(i, id)
      PROVE  relayed'[j].drained \o mailboxes'[j] = relayed'[j].enqueued
  <2>1. /\ relayed' = [relayed EXCEPT ![i].enqueued = Append(@, id)]
        /\ mailboxes' = [mailboxes EXCEPT ![i] = Append(@, id)]
    BY <1>6 DEF enqueueRelay
  <2>2. CASE j = i
    <3>1. /\ mailboxes'[j] = Append(mailboxes[j], id)
          /\ relayed'[j].enqueued = Append(relayed[j].enqueued, id)
          /\ relayed'[j].drained = relayed[j].drained
      BY <1>1, <2>1, <2>2
    <3> DEFINE d == relayed[j].drained
               m == mailboxes[j]
    <3>2. /\ d \in Seq(1..MaxOperations) /\ m \in Seq(1..MaxOperations)
          /\ <<id>> \in Seq(1..MaxOperations)
      BY <1>2
    <3> HIDE DEF d, m
    <3>3. Append(m, id) = m \o <<id>>
      BY <3>2, AppendIsConcat
    <3>4. d \o m \in Seq(1..MaxOperations)
      BY <3>2, ConcatProperties
    <3>5. Append(d \o m, id) = (d \o m) \o <<id>>
      BY <3>4, AppendIsConcat
    <3>6. (d \o m) \o <<id>> = d \o (m \o <<id>>)
      BY <3>2, ConcatAssociative
    <3>7. d \o Append(m, id) = Append(d \o m, id)
      BY <3>3, <3>5, <3>6
    <3>8. QED
      BY <1>2, <3>1, <3>7 DEF d, m
  <2>3. CASE j # i
    BY <1>1, <1>2, <2>1, <2>3
  <2>4. QED
    BY <2>2, <2>3
<1>7. \/ UNCHANGED <<mailboxes, relayed>>
      \/ start
      \/ \E i \in Identities : drainRelay(i)
      \/ \E i \in Identities, id \in 1..MaxOperations : enqueueRelay(i, id)
  <2>1. CASE \E q \in Requests : handlePost(q)
    <3>1. PICK q \in Requests : handlePost(q)
      BY <2>1
    <3>2. requests[q] \in Body
      BY <3>1 DEF TypeOK, handlePost
    <3>3. requests[q].identity \in Identities /\ requests[q].id \in 1..MaxOperations
      BY <3>2 DEF Body
    <3>4. QED
      BY <3>1, <3>3 DEF handlePost, appendEvent, upsertPresence, upsertRouteSummary
  <2>2. CASE \E c \in Clients, r \in Rooms, usable, signed \in BOOLEAN : wsAppend(c, r, usable, signed)
    BY <2>2 DEF wsAppend, appendEvent, storeVars
  <2>3. CASE \/ stop
             \/ \E q \in Requests, b \in Body : post(q, b)
             \/ \E q \in Requests : handlerRejects(q)
             \/ \E c \in Clients, r \in Rooms : handleSse(c, r) \/ subscribe(c, r)
             \/ \E c \in Clients : handleUpgrade(c) \/ disconnect(c)
             \/ UNCHANGED vars
    BY <2>3
       DEF stop, post, handlerRejects, handleSse, subscribe, handleUpgrade, disconnect,
           setClient, storeVars, vars
  <2>4. QED
    BY <2>1, <2>2, <2>3 DEF Next
<1>8. QED
  BY <1>3, <1>4, <1>5, <1>6, <1>7

(* What was put into a mailbox has been handed out once or waits in it, in   *)
(* the order it came, for any identities.                                    *)
THEOREM RelayedOnce == Spec => []RelayedOnceInOrder
<1>1. Init => RelayedOnceInOrder
  <2>1. <<>> \o <<>> = <<>>
    OBVIOUS
  <2>2. QED
    BY <2>1 DEF Init, RelayedOnceInOrder, noRelays
<1>2. TypeOK /\ RelayedOnceInOrder /\ [Next]_vars => RelayedOnceInOrder'
  BY RelayedStep
<1>3. QED
  BY <1>1, <1>2, ServerTyped, PTL DEF Spec
=================================================================================

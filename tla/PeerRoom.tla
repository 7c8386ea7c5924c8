-------------------------------- MODULE PeerRoom --------------------------------
(***************************************************************************)
(* A room of peerjs-room-kit/src/room.js that receives packets from remote *)
(* peers running the same class.  The peers number, lease and broadcast;   *)
(* the transport delivers what was broadcast in any order, any number of   *)
(* times or never; the room takes each delivery through receive(), which   *)
(* is suspended twice, once in the digest of the payload and once in       *)
(* ledger.append(), while other deliveries run.                            *)
(*                                                                         *)
(* A packet is referred to by its place n in `sent`: its packetId and its  *)
(* nonce are fresh.  All peers read one clock.  Of the ledger the model    *)
(* keeps the subjects that have an event (AppendLedger is the ledger).     *)
(***************************************************************************)
EXTENDS Clock, Sequences, FiniteSets

CONSTANTS
    Peers,              \* remote identities
    Callers,            \* deliveries that receive() is working on
    NoLease, Idle,
    packetTtl,          \* ttlMs of createPacket, 30 s in the code
    clockSkewMs,        \* 120 s in the code
    nonceTtl,           \* 120 s in the code
    nonceEntries,       \* 5000 in the code
    LeaseTimes,         \* leaseMs a peer may ask for
    minLeaseMs, maxLeaseMs,
    MaxPackets, MaxDeliveries, MaxRestarts    \* bounds

VARIABLES
    sequence,       \* [Peers -> this.sequence of the peer]
    restarts,       \* how often a peer has been restarted
    sent,           \* the packets broadcast so far
    deliveries,     \* how many deliveries the transport has made
    nonces,         \* this.nonces of the room
    calls,          \* [Callers -> the delivery receive() is suspended in, or Idle]
    ledger,         \* the subjects with an event in this.ledger
    reaping,        \* the peers whose 'presence.peer-stale' is still in ledger.append()
    presence,       \* this.presence of the room
    received,       \* how often 'packet:received' was emitted for each packet
    heard,          \* history: the latest expiry of the leases of each peer in upsert()
    unrecorded      \* history: the peers that a read of the table has evicted

peerVars == <<sequence, restarts, sent>>
roomVars == <<nonces, calls, ledger, reaping, presence, received, heard, unrecorded>>
vars == <<clock, peerVars, deliveries, roomVars>>

Table == INSTANCE PresenceTable WITH Identities <- Peers
Store == INSTANCE NonceStore WITH
    Nonces <- 1..MaxPackets, ttlMs <- nonceTtl, maxEntries <- nonceEntries,
    MaxCalls <- MaxDeliveries, entries <- nonces, accepted <- <<>>

Lease == [seq: Nat, signedAt: Nat, leaseMs: LeaseTimes]
Packet == [from: Peers, seq: Nat, createdAt: Nat, lease: Lease \cup {NoLease}]
Call == [packet: 1..MaxPackets, hashMatches: BOOLEAN, at: {"digest", "append"}]

ASSUME RoomAssumption ==
    /\ {packetTtl, clockSkewMs, nonceTtl, minLeaseMs, maxLeaseMs} \subseteq Nat
    /\ LeaseTimes \subseteq Nat /\ nonceEntries \in Nat \ {0}
    /\ {MaxPackets, MaxDeliveries, MaxRestarts} \subseteq Nat
    /\ Peers \cap (1..MaxPackets) = {}
    /\ NoLease \notin Lease /\ Idle \notin Call

Max2(a, b) == IF a > b THEN a ELSE b

-------------------------------------------------------------------------------
Init ==
    /\ clock = 0
    /\ sequence = [p \in Peers |-> 0] /\ restarts = 0 /\ sent = <<>>
    /\ deliveries = 0
    /\ nonces = {} /\ calls = [c \in Callers |-> Idle] /\ ledger = {}
    /\ reaping = {} /\ unrecorded = {}
    /\ presence = [p \in Peers |-> NoLease]
    /\ received = [n \in 1..MaxPackets |-> 0]
    /\ heard = [p \in Peers |-> 0]

Tick ==
    /\ clock < MaxClock
    /\ clock' = clock + 1
    /\ UNCHANGED <<peerVars, deliveries, roomVars>>

(* createPacket and broadcast: the packet carries the next number. *)
send(p, seq, lease) ==
    /\ Len(sent) < MaxPackets
    /\ sequence' = [sequence EXCEPT ![p] = seq]
    /\ sent' = Append(sent, [from |-> p, seq |-> seq, createdAt |-> clock, lease |-> lease])
    /\ UNCHANGED <<clock, restarts, deliveries, roomVars>>

broadcast(p) == send(p, sequence[p] + 1, NoLease)

(* heartbeat() numbers a lease, and the packet that carries it to the       *)
(* others takes the number after it.                                        *)
heartbeat(p, leaseMs) ==
    send(p, sequence[p] + 2, [seq |-> sequence[p] + 1, signedAt |-> clock, leaseMs |-> leaseMs])

(* A definition with "Mutant:" in its comment is not the code's: it is the   *)
(* next definition with a bug put in, for checking that a property sees it.  *)

(* Mutant: the number goes back by one. *)
restartOneBack(p) ==
    /\ restarts < MaxRestarts
    /\ restarts' = restarts + 1
    /\ sequence' = [sequence EXCEPT ![p] = @ - 1]
    /\ UNCHANGED <<clock, sent, deliveries, roomVars>>

(* A peer comes back under its identity: a new PeerRoom counts from zero. *)
restart(p) ==
    /\ restarts < MaxRestarts
    /\ restarts' = restarts + 1
    /\ sequence' = [sequence EXCEPT ![p] = 0]
    /\ UNCHANGED <<clock, sent, deliveries, roomVars>>

(* Mutant: the expiry of a packet is not checked. *)
timelyForever(packet) == packet.createdAt <= clock + clockSkewMs

(* The window validatePacketEnvelope accepts a packet in. *)
timely(packet) ==
    /\ packet.createdAt <= clock + clockSkewMs
    /\ packet.createdAt + packetTtl >= clock - clockSkewMs

(* receive() up to the digest of the payload: the window and the nonce are  *)
(* checked, and the nonce is remembered, before anything is awaited.        *)
receive(c, n, hashMatches) ==
    /\ calls[c] = Idle
    /\ deliveries < MaxDeliveries
    /\ deliveries' = deliveries + 1
    /\ \/ /\ timely(sent[n]) /\ Store!fresh(nonces, n, clock)
          /\ calls' = [calls EXCEPT ![c] = [packet |-> n, hashMatches |-> hashMatches, at |-> "digest"]]
       \/ /\ ~(timely(sent[n]) /\ Store!fresh(nonces, n, clock))
          /\ UNCHANGED calls
    /\ nonces' = IF timely(sent[n]) THEN Store!assertFresh(nonces, n, clock, deliveries) ELSE nonces
    /\ UNCHANGED <<clock, peerVars, ledger, reaping, presence, received, heard, unrecorded>>

(* The digest is ready: a copy whose payload does not match is refused, and *)
(* its nonce stays taken.  Otherwise the ledger is appended to.             *)
digestReady(c) ==
    /\ calls[c] # Idle /\ calls[c].at = "digest"
    /\ \/ /\ calls[c].hashMatches
          /\ calls' = [calls EXCEPT ![c].at = "append"]
       \/ /\ ~calls[c].hashMatches
          /\ calls' = [calls EXCEPT ![c] = Idle]
    /\ UNCHANGED <<clock, peerVars, deliveries, nonces, ledger, reaping, presence, received, heard,
                   unrecorded>>

(* The append is done: 'packet:received' is emitted, and a heartbeat goes   *)
(* to the presence table, which throws if the lease is not a valid one.     *)
appendDone(c) ==
    LET n == calls[c].packet
        lease == sent[n].lease
        p == sent[n].from
    IN /\ calls[c] # Idle /\ calls[c].at = "append"
       /\ ledger' = ledger \cup {n}
       /\ received' = [received EXCEPT ![n] = @ + 1]
       /\ calls' = [calls EXCEPT ![c] = Idle]
       /\ \/ /\ lease = NoLease
             /\ UNCHANGED <<presence, heard>>
          \/ /\ lease # NoLease /\ Table!validPresenceLease(lease)
             /\ presence' = Table!upsert(presence, p, lease)
             /\ heard' = [heard EXCEPT ![p] = Max2(@, Table!expiresAt(lease))]
          \/ /\ lease # NoLease /\ ~Table!validPresenceLease(lease)
             /\ UNCHANGED <<presence, heard>>
       /\ UNCHANGED <<clock, peerVars, deliveries, nonces, reaping, unrecorded>>

(* Every read of the table, listActive() and get(), evicts what is stale as  *)
(* it goes, and tells nobody.                                                *)
readPresence ==
    /\ Table!stalePeers(presence, clock) # {}
    /\ presence' = Table!markStale(presence, clock)
    /\ unrecorded' = unrecorded \cup Table!stalePeers(presence, clock)
    /\ UNCHANGED <<clock, peerVars, deliveries, nonces, calls, ledger, reaping, received, heard>>

(* Mutant: the table is listed first, so that nothing is stale any more. *)
reapListed ==
    /\ Table!stalePeers(presence, clock) # {}
    /\ presence' = Table!markStale(presence, clock)
    /\ reaping' = reaping \cup Table!stalePeers(presence', clock)
    /\ UNCHANGED <<clock, peerVars, deliveries, nonces, calls, ledger, received, heard, unrecorded>>

(* reapStalePeers(): what is stale is evicted, and an append begun for each, *)
(* which nobody waits for.                                                   *)
reapStalePeers ==
    /\ Table!stalePeers(presence, clock) # {}
    /\ presence' = Table!markStale(presence, clock)
    /\ reaping' = reaping \cup Table!stalePeers(presence, clock)
    /\ UNCHANGED <<clock, peerVars, deliveries, nonces, calls, ledger, received, heard, unrecorded>>

(* That append ends, whatever has happened to the peer since. *)
peerStale(p) ==
    /\ p \in reaping
    /\ reaping' = reaping \ {p} /\ ledger' = ledger \cup {p}
    /\ UNCHANGED <<clock, peerVars, deliveries, nonces, calls, presence, received, heard, unrecorded>>

Next ==
    \/ Tick
    \/ \E p \in Peers : broadcast(p)
    \/ \E p \in Peers, leaseMs \in LeaseTimes : heartbeat(p, leaseMs)
    \/ \E p \in Peers : restart(p)
    \/ \E c \in Callers, n \in DOMAIN sent, hashMatches \in BOOLEAN : receive(c, n, hashMatches)
    \/ \E c \in Callers : digestReady(c) \/ appendDone(c)
    \/ readPresence \/ reapStalePeers
    \/ \E p \in Peers : peerStale(p)

Spec == Init /\ [][Next]_vars

-------------------------------------------------------------------------------
(* The peers, the transport and the room keep their shapes. *)
TypeOK ==
    /\ clock \in 0..MaxClock /\ restarts \in 0..MaxRestarts /\ deliveries \in 0..MaxDeliveries
    /\ sequence \in [Peers -> Nat]
    /\ sent \in Seq(Packet) /\ Len(sent) <= MaxPackets
    /\ nonces \subseteq Store!Entry
    /\ calls \in [Callers -> Call \cup {Idle}]
    /\ ledger \subseteq (1..MaxPackets) \cup Peers
    /\ reaping \subseteq Peers /\ unrecorded \subseteq Peers
    /\ presence \in [Peers -> Lease \cup {NoLease}]
    /\ received \in [1..MaxPackets -> Nat]
    /\ heard \in [Peers -> Nat]

(* "packet envelope validates hash and rejects nonce replay"                 *)
(* (tests/packet-validation.test.js:7): whatever the transport duplicates,   *)
(* delays or reorders, the room acts on a packet once.                       *)
ReceivedOnce == \A n \in 1..MaxPackets : received[n] <= 1

evicted(p) == presence[p] # NoLease /\ presence'[p] = NoLease

(* "Presence leases evict stale peers" (docs/audit-implementation.md:17): a  *)
(* peer is evicted only when every lease the room has had from it has run    *)
(* out, however the heartbeats were reordered on their way; that is, as long *)
(* as no peer was restarted, whose numbers begin again, and the leases the   *)
(* room takes are of one length, as those of heartbeat() are.                *)
EvictedOnlyWhenStaleInSession ==
    [][\A p \in Peers : evicted(p) /\ restarts = 0 => heard[p] < clock]_vars

(* A valid lease of p, in a packet on record. *)
onRecord(p, lease) ==
    /\ lease.leaseMs \in minLeaseMs..maxLeaseMs
    /\ \E n \in ledger \ Peers : sent[n].from = p /\ sent[n].lease = lease

(* Table and ledger can be held against each other, although a packet is on  *)
(* record before its lease is validated and a stale peer only some time      *)
(* after it was evicted.  A lease in the table is a valid one, and on        *)
(* record.  Whoever is on record as stale had let such a lease run out.  A   *)
(* peer that was heard and is gone is on record, or about to be, unless a    *)
(* read of the table evicted it.                                             *)
PresenceAccountedFor ==
    \A p \in Peers :
        /\ presence[p] # NoLease => onRecord(p, presence[p])
        /\ p \in ledger \cup reaping =>
             \E n \in DOMAIN sent :
                 /\ sent[n].lease # NoLease /\ onRecord(p, sent[n].lease)
                 /\ Table!expiresAt(sent[n].lease) < clock
        /\ heard[p] > 0 /\ presence[p] = NoLease => p \in ledger \cup reaping \cup unrecorded
=================================================================================

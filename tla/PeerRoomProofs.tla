----------------------------- MODULE PeerRoomProofs -----------------------------
(***************************************************************************)
(* A room for any peers, transport, times and bounds.  A packet is acted   *)
(* on a second time only if its nonce was forgotten, by age or by number;  *)
(* the code's defaults allow the first (run RoomReplayDefaults).           *)
(* EvictedOnlyWhenStaleInSession needs leases of one length: that is a     *)
(* hypothesis of its theorem, not an assumption of the modules.            *)
(***************************************************************************)
EXTENDS PeerRoom, FiniteSetTheorems, TLAPS

SentInPast == \A n \in DOMAIN sent : sent[n].createdAt <= clock

CallsOfSent == \A c \in Callers : calls[c] # Idle => calls[c].packet \in DOMAIN sent

RoomInv == TypeOK /\ SentInPast /\ CallsOfSent

-------------------------------------------------------------------------------
(* What a suspended call and its packet are. *)
LEMMA CallFields ==
    ASSUME RoomInv, NEW c \in Callers, calls[c] # Idle
    PROVE  /\ calls[c] \in Call
           /\ calls[c].packet \in 1..MaxPackets /\ calls[c].packet \in DOMAIN sent
           /\ sent[calls[c].packet] \in Packet
BY DEF RoomInv, TypeOK, CallsOfSent, Call

LEMMA SentFields ==
    ASSUME RoomInv, NEW n \in DOMAIN sent
    PROVE  /\ n \in 1..MaxPackets /\ sent[n] \in Packet
           /\ sent[n].createdAt \in Nat /\ sent[n].from \in Peers
           /\ sent[n].lease \in Lease \cup {NoLease}
           /\ clock \in Nat /\ sent[n].createdAt <= clock
<1>1. n \in 1..MaxPackets /\ sent[n] \in Packet
  <2>1. sent \in Seq(Packet) /\ Len(sent) <= MaxPackets /\ MaxPackets \in Nat
    BY RoomAssumption, ClockAssumption DEF RoomInv, TypeOK
  <2>2. DOMAIN sent = 1..Len(sent) /\ Len(sent) \in Nat /\ sent[n] \in Packet
    BY <2>1
  <2>3. QED
    BY <2>1, <2>2
<1>2. clock \in Nat /\ sent[n].createdAt <= clock
  BY RoomAssumption, ClockAssumption DEF RoomInv, TypeOK, SentInPast
<1>3. QED
  BY <1>1, <1>2 DEF Packet

(* An entry that is kept was an entry, or is the new one. *)
LEMMA AssertFreshEntries ==
    ASSUME NEW store, NEW nonce, NEW t, NEW place
    PROVE  /\ Store!assertFresh(store, nonce, t, place)
                \subseteq store \cup {[nonce |-> nonce, seenAt |-> t, place |-> place]}
           /\ Store!prune(store, t) \subseteq store
BY DEF Store!assertFresh, Store!remember, Store!makeRoom, Store!prune

LEMMA RoomInitInv == Init => RoomInv
BY RoomAssumption, ClockAssumption DEF Init, RoomInv, TypeOK, SentInPast, CallsOfSent

LEMMA SendStep ==
    ASSUME RoomInv, NEW p \in Peers, NEW seq \in Nat, NEW lease \in Lease \cup {NoLease},
           send(p, seq, lease)
    PROVE  /\ RoomInv'
           /\ Len(sent) \in Nat /\ Len(sent') = Len(sent) + 1
           /\ DOMAIN sent = 1..Len(sent) /\ DOMAIN sent' = 1..(Len(sent) + 1)
           /\ \A n \in DOMAIN sent : sent'[n] = sent[n]
           /\ sent'[Len(sent) + 1] = [from |-> p, seq |-> seq, createdAt |-> clock, lease |-> lease]
<1> DEFINE packet == [from |-> p, seq |-> seq, createdAt |-> clock, lease |-> lease]
<1>1. /\ clock \in Nat /\ MaxPackets \in Nat /\ sent \in Seq(Packet) /\ Len(sent) < MaxPackets
      /\ sent' = Append(sent, packet) /\ sequence' = [sequence EXCEPT ![p] = seq]
      /\ UNCHANGED <<clock, restarts, deliveries, roomVars>>
  BY RoomAssumption, ClockAssumption DEF send, RoomInv, TypeOK
<1>2. packet \in Packet
  BY <1>1 DEF Packet
<1>3. /\ sent' \in Seq(Packet) /\ Len(sent) \in Nat /\ Len(sent') = Len(sent) + 1
      /\ DOMAIN sent = 1..Len(sent) /\ DOMAIN sent' = 1..(Len(sent) + 1)
      /\ \A n \in DOMAIN sent : sent'[n] = sent[n]
      /\ sent'[Len(sent) + 1] = packet
  BY <1>1, <1>2
<1>4. TypeOK'
  <2>1. sequence' \in [Peers -> Nat]
    BY <1>1 DEF RoomInv, TypeOK
  <2>2. sent' \in Seq(Packet) /\ Len(sent') <= MaxPackets
    BY <1>1, <1>3
  <2>3. UNCHANGED <<clock, restarts, deliveries, nonces, calls, ledger, reaping, presence,
                    received, heard, unrecorded>>
    BY <1>1 DEF roomVars
  <2>4. QED
    BY <2>1, <2>2, <2>3 DEF RoomInv, TypeOK
<1>5. SentInPast'
  <2>1. ASSUME NEW n \in 1..(Len(sent) + 1) PROVE sent'[n].createdAt <= clock'
    <3>1. CASE n = Len(sent) + 1
      BY <1>1, <1>3, <3>1
    <3>2. CASE n \in DOMAIN sent
      BY <1>1, <1>3, <3>2 DEF RoomInv, SentInPast
    <3>3. QED
      BY <1>3, <3>1, <3>2
  <2>2. QED
    BY <1>3, <2>1 DEF SentInPast
<1>6. CallsOfSent'
  BY <1>1, <1>3 DEF RoomInv, CallsOfSent, roomVars
<1>7. QED
  BY <1>3, <1>4, <1>5, <1>6 DEF RoomInv

(* Both ways of sending, as one. *)
LEMMA Sends ==
    ASSUME RoomInv, NEW p \in Peers,
           broadcast(p) \/ \E leaseMs \in LeaseTimes : heartbeat(p, leaseMs)
    PROVE  \E seq \in Nat, lease \in Lease \cup {NoLease} :
             /\ send(p, seq, lease) /\ seq > sequence[p]
             /\ lease # NoLease => /\ lease.signedAt = clock
                                   /\ lease.seq > sequence[p] /\ lease.seq <= seq
<1>1. sequence[p] \in Nat /\ clock \in Nat
  BY RoomAssumption, ClockAssumption DEF RoomInv, TypeOK
<1>2. CASE broadcast(p)
  BY <1>1, <1>2 DEF broadcast
<1>3. CASE \E leaseMs \in LeaseTimes : heartbeat(p, leaseMs)
  <2>1. PICK leaseMs \in LeaseTimes : heartbeat(p, leaseMs)
    BY <1>3
  <2> DEFINE lease == [seq |-> sequence[p] + 1, signedAt |-> clock, leaseMs |-> leaseMs]
  <2>2. lease \in Lease
    BY <1>1 DEF Lease
  <2>3. send(p, sequence[p] + 2, lease)
    BY <2>1 DEF heartbeat
  <2>4. lease.signedAt = clock /\ lease.seq = sequence[p] + 1
    OBVIOUS
  <2>5. sequence[p] + 2 \in Nat /\ sequence[p] + 2 > sequence[p]
        /\ lease.seq > sequence[p] /\ lease.seq <= sequence[p] + 2
    BY <1>1, <2>4
  <2>6. QED
    BY <2>2, <2>3, <2>4, <2>5
<1>4. QED
  BY <1>2, <1>3

LEMMA TickRoomInv == RoomInv /\ Tick => RoomInv'
<1> SUFFICES ASSUME RoomInv, Tick PROVE RoomInv'
  OBVIOUS
<1>1. /\ clock \in Nat /\ clock' = clock + 1 /\ clock' \in 0..MaxClock
      /\ UNCHANGED <<peerVars, deliveries, roomVars>>
  BY RoomAssumption, ClockAssumption DEF Tick, RoomInv, TypeOK
<1>2. \A n \in DOMAIN sent : sent[n].createdAt \in Nat
  <2>1. \A n \in DOMAIN sent : sent[n] \in Packet
    BY DEF RoomInv, TypeOK
  <2>2. QED
    BY <2>1 DEF Packet
<1>3. TypeOK'
  BY <1>1 DEF RoomInv, TypeOK, peerVars, roomVars
<1>4. SentInPast' /\ CallsOfSent'
  BY <1>1, <1>2 DEF RoomInv, SentInPast, CallsOfSent, peerVars, roomVars
<1>5. QED
  BY <1>3, <1>4 DEF RoomInv

LEMMA ReceiveRoomInv ==
    ASSUME RoomInv, NEW c \in Callers, NEW n \in DOMAIN sent, NEW hashMatches \in BOOLEAN,
           receive(c, n, hashMatches)
    PROVE  RoomInv'
<1> DEFINE call == [packet |-> n, hashMatches |-> hashMatches, at |-> "digest"]
<1>1. /\ n \in 1..MaxPackets /\ clock \in 0..MaxClock /\ deliveries \in Nat
      /\ UNCHANGED <<clock, peerVars, ledger, reaping, presence, received, heard, unrecorded>>
      /\ deliveries' = deliveries + 1 /\ deliveries' \in 0..MaxDeliveries
      /\ calls' = [calls EXCEPT ![c] = call] \/ calls' = calls
  BY RoomAssumption, ClockAssumption DEF receive, RoomInv, TypeOK
<1>2. call \in Call
  BY <1>1 DEF Call
<1>3. nonces' \subseteq Store!Entry
  <2>1. [nonce |-> n, seenAt |-> clock, place |-> deliveries] \in Store!Entry
    BY <1>1 DEF Store!Entry
  <2>2. nonces \subseteq Store!Entry
    BY DEF RoomInv, TypeOK
  <2>3. QED
    BY <2>1, <2>2, AssertFreshEntries DEF receive
<1>4. TypeOK'
  BY <1>1, <1>2, <1>3 DEF RoomInv, TypeOK, peerVars
<1>5. CallsOfSent'
  <2>1. calls \in [Callers -> Call \cup {Idle}] /\ sent' = sent /\ call.packet = n
    BY <1>1 DEF RoomInv, TypeOK, peerVars
  <2>2. \A d \in Callers : calls'[d] = calls[d] \/ calls'[d] = call
    BY <1>1, <2>1
  <2>3. QED
    BY <2>1, <2>2 DEF RoomInv, CallsOfSent
<1>6. SentInPast'
  BY <1>1 DEF RoomInv, SentInPast, peerVars
<1>7. QED
  BY <1>4, <1>5, <1>6 DEF RoomInv

LEMMA DigestRoomInv ==
    ASSUME RoomInv, NEW c \in Callers, digestReady(c)
    PROVE  RoomInv'
<1>1. /\ calls[c] \in Call /\ calls[c] # Idle
      /\ UNCHANGED <<clock, peerVars, deliveries, nonces, ledger, reaping, presence, received,
                     heard, unrecorded>>
      /\ calls' = [calls EXCEPT ![c] = [calls[c] EXCEPT !.at = "append"]]
         \/ calls' = [calls EXCEPT ![c] = Idle]
  BY CallFields DEF digestReady
<1>2. [calls[c] EXCEPT !.at = "append"] \in Call
      /\ [calls[c] EXCEPT !.at = "append"].packet = calls[c].packet
  BY <1>1 DEF Call
<1>3. TypeOK'
  BY <1>1, <1>2 DEF RoomInv, TypeOK, peerVars
<1>4. CallsOfSent' /\ SentInPast'
  BY <1>1, <1>2 DEF RoomInv, TypeOK, CallsOfSent, SentInPast, peerVars
<1>5. QED
  BY <1>3, <1>4 DEF RoomInv

(* What appendDone() does to the table: nothing, or an upsert of the lease.  *)
LEMMA AppendDoneTable ==
    ASSUME RoomInv, NEW c \in Callers, appendDone(c)
    PROVE  LET n == calls[c].packet
               p == sent[n].from
               lease == sent[n].lease
           IN  /\ n \in 1..MaxPackets /\ n \in DOMAIN sent /\ p \in Peers
               /\ ledger' = ledger \cup {n}
               /\ \/ UNCHANGED <<presence, heard>>
                  \/ /\ lease \in Lease /\ lease # NoLease
                     /\ Table!validPresenceLease(lease)
                     /\ lease.signedAt \in Nat /\ lease.leaseMs \in LeaseTimes
                     /\ lease.leaseMs \in Nat /\ lease.seq \in Nat
                     /\ Table!expiresAt(lease) \in Nat
                     /\ presence' = IF Table!supersedes(lease, presence[p])
                                      THEN [presence EXCEPT ![p] = lease] ELSE presence
                     /\ heard' = [heard EXCEPT ![p] = Max2(@, Table!expiresAt(lease))]
                     /\ heard'[p] \in Nat /\ heard'[p] >= heard[p]
                     /\ heard'[p] >= Table!expiresAt(lease)
                     /\ heard'[p] = heard[p] \/ heard'[p] = Table!expiresAt(lease)
<1> DEFINE n == calls[c].packet
           p == sent[n].from
           lease == sent[n].lease
<1>1. /\ n \in 1..MaxPackets /\ n \in DOMAIN sent /\ sent[n] \in Packet
  BY CallFields DEF appendDone
<1>2. p \in Peers /\ lease \in Lease \cup {NoLease}
  BY <1>1 DEF Packet
<1>3. ledger' = ledger \cup {n}
  BY DEF appendDone
<1>4. CASE UNCHANGED <<presence, heard>>
  BY <1>1, <1>2, <1>3, <1>4
<1>5. CASE /\ lease # NoLease /\ Table!validPresenceLease(lease)
           /\ presence' = Table!upsert(presence, p, lease)
           /\ heard' = [heard EXCEPT ![p] = Max2(@, Table!expiresAt(lease))]
  <2>1. lease \in Lease
    BY <1>2, <1>5
  <2>2. /\ lease.signedAt \in Nat /\ lease.leaseMs \in LeaseTimes
        /\ lease.leaseMs \in Nat /\ lease.seq \in Nat
    BY <2>1, RoomAssumption, ClockAssumption DEF Lease
  <2>3. Table!expiresAt(lease) \in Nat
    BY <2>2 DEF Table!expiresAt
  <2>4. heard[p] \in Nat /\ heard'[p] = Max2(heard[p], Table!expiresAt(lease))
    BY <1>2, <1>5 DEF RoomInv, TypeOK
  <2>5. /\ heard'[p] \in Nat /\ heard'[p] >= heard[p]
        /\ heard'[p] >= Table!expiresAt(lease)
        /\ heard'[p] = heard[p] \/ heard'[p] = Table!expiresAt(lease)
    BY <2>3, <2>4 DEF Max2
  <2>6. QED
    BY <1>1, <1>2, <1>3, <1>5, <2>1, <2>2, <2>3, <2>5 DEF Table!upsert
<1>6. QED
  BY <1>4, <1>5 DEF appendDone

LEMMA AppendDoneRoomInv ==
    ASSUME RoomInv, NEW c \in Callers, appendDone(c)
    PROVE  RoomInv'
<1> DEFINE n == calls[c].packet
           p == sent[n].from
           lease == sent[n].lease
<1>1. /\ n \in 1..MaxPackets /\ p \in Peers
      /\ received' = [received EXCEPT ![n] = @ + 1] /\ calls' = [calls EXCEPT ![c] = Idle]
      /\ ledger' = ledger \cup {n}
      /\ UNCHANGED <<clock, peerVars, deliveries, nonces, reaping, unrecorded>>
  BY AppendDoneTable DEF appendDone
<1>2. presence' \in [Peers -> Lease \cup {NoLease}] /\ heard' \in [Peers -> Nat]
  <2>1. presence \in [Peers -> Lease \cup {NoLease}] /\ heard \in [Peers -> Nat]
    BY DEF RoomInv, TypeOK
  <2>2. CASE UNCHANGED <<presence, heard>>
    BY <2>1, <2>2
  <2>3. CASE /\ lease \in Lease /\ heard'[p] \in Nat
             /\ presence' = IF Table!supersedes(lease, presence[p])
                              THEN [presence EXCEPT ![p] = lease] ELSE presence
             /\ heard' = [heard EXCEPT ![p] = Max2(@, Table!expiresAt(lease))]
    BY <1>1, <2>1, <2>3
  <2>4. QED
    BY <2>2, <2>3, AppendDoneTable
<1>3. TypeOK'
  <2>1. /\ received \in [1..MaxPackets -> Nat] /\ calls \in [Callers -> Call \cup {Idle}]
        /\ ledger \subseteq (1..MaxPackets) \cup Peers
    BY DEF RoomInv, TypeOK
  <2>2. received' \in [1..MaxPackets -> Nat]
    <3>1. received[n] + 1 \in Nat
      BY <1>1, <2>1
    <3>2. QED
      BY <1>1, <2>1, <3>1
  <2>3. calls' \in [Callers -> Call \cup {Idle}] /\ ledger' \subseteq (1..MaxPackets) \cup Peers
    BY <1>1, <2>1
  <2>4. QED
    BY <1>1, <1>2, <2>2, <2>3 DEF RoomInv, TypeOK, peerVars
<1>4. CallsOfSent' /\ SentInPast'
  BY <1>1 DEF RoomInv, TypeOK, CallsOfSent, SentInPast, peerVars
<1>5. QED
  BY <1>3, <1>4 DEF RoomInv

(* What reading and reaping do to the table. *)
LEMMA Evicts ==
    ASSUME RoomInv, readPresence \/ reapStalePeers
    PROVE  /\ Table!stalePeers(presence, clock) \subseteq Peers
           /\ presence' \in [Peers -> Lease \cup {NoLease}]
           /\ \A p \in Peers :
                presence'[p] = IF p \in Table!stalePeers(presence, clock)
                                 THEN NoLease ELSE presence[p]
           /\ UNCHANGED <<clock, peerVars, deliveries, nonces, calls, ledger, received, heard>>
BY DEF RoomInv, TypeOK, readPresence, reapStalePeers, Table!markStale, Table!stalePeers

LEMMA EvictRoomInv == RoomInv /\ (readPresence \/ reapStalePeers) => RoomInv'
<1> SUFFICES ASSUME RoomInv, readPresence \/ reapStalePeers PROVE RoomInv'
  OBVIOUS
<1>1. reaping' \subseteq Peers /\ unrecorded' \subseteq Peers
  BY Evicts DEF RoomInv, TypeOK, readPresence, reapStalePeers
<1>2. TypeOK'
  BY <1>1, Evicts DEF RoomInv, TypeOK, peerVars
<1>3. CallsOfSent' /\ SentInPast'
  BY Evicts DEF RoomInv, CallsOfSent, SentInPast, peerVars
<1>4. QED
  BY <1>2, <1>3 DEF RoomInv

LEMMA StaleRoomInv ==
    ASSUME RoomInv, NEW p \in Peers, peerStale(p)
    PROVE  RoomInv'
<1>1. reaping' \subseteq Peers /\ ledger' \subseteq (1..MaxPackets) \cup Peers
  BY DEF RoomInv, TypeOK, peerStale
<1>2. TypeOK'
  BY <1>1 DEF RoomInv, TypeOK, peerStale, peerVars
<1>3. CallsOfSent' /\ SentInPast'
  BY DEF RoomInv, CallsOfSent, SentInPast, peerStale, peerVars
<1>4. QED
  BY <1>2, <1>3 DEF RoomInv

LEMMA RestartRoomInv ==
    ASSUME RoomInv, NEW p \in Peers, restart(p)
    PROVE  RoomInv'
<1>1. /\ restarts' = restarts + 1 /\ restarts < MaxRestarts
      /\ sequence' = [sequence EXCEPT ![p] = 0]
      /\ UNCHANGED <<clock, sent, deliveries, nonces, calls, ledger, reaping, presence, received,
                     heard, unrecorded>>
  BY DEF restart, roomVars
<1>2. sequence' \in [Peers -> Nat] /\ restarts' \in 0..MaxRestarts
  <2>1. restarts \in 0..MaxRestarts /\ MaxRestarts \in Nat /\ sequence \in [Peers -> Nat]
    BY RoomAssumption, ClockAssumption DEF RoomInv, TypeOK
  <2>2. QED
    BY <1>1, <2>1
<1>3. TypeOK'
  BY <1>1, <1>2 DEF RoomInv, TypeOK
<1>4. CallsOfSent' /\ SentInPast'
  BY <1>1 DEF RoomInv, CallsOfSent, SentInPast
<1>5. QED
  BY <1>3, <1>4 DEF RoomInv

LEMMA RoomNext == RoomInv /\ [Next]_vars => RoomInv'
<1> SUFFICES ASSUME RoomInv, [Next]_vars PROVE RoomInv'
  OBVIOUS
<1>1. ASSUME NEW p \in Peers, broadcast(p) \/ \E leaseMs \in LeaseTimes : heartbeat(p, leaseMs)
      PROVE  RoomInv'
  BY <1>1, Sends, SendStep
<1>2. CASE UNCHANGED vars
  BY <1>2 DEF vars, RoomInv, TypeOK, CallsOfSent, SentInPast, peerVars, roomVars
<1>3. QED
  BY <1>1, <1>2, TickRoomInv, RestartRoomInv, ReceiveRoomInv, DigestRoomInv, AppendDoneRoomInv,
     EvictRoomInv, StaleRoomInv
     DEF Next

LEMMA RoomInvariant == Spec => []RoomInv
BY RoomInitInv, RoomNext, PTL DEF Spec

(* The peers, the transport and the room keep their types.                   *)
THEOREM RoomTypeCorrect == Spec => []TypeOK
<1>1. RoomInv => TypeOK
  BY DEF RoomInv
<1>2. QED
  BY <1>1, RoomInvariant, PTL

-------------------------------------------------------------------------------
(* The ledger accounts for the table.  A packet on record has been sent, so  *)
(* what it carried does not change.                                          *)
hasLetRunOut(p) ==
    \E n \in DOMAIN sent :
        /\ sent[n].lease # NoLease /\ onRecord(p, sent[n].lease)
        /\ Table!expiresAt(sent[n].lease) < clock

AccountInv ==
    /\ RoomInv
    /\ ledger \ Peers \subseteq DOMAIN sent
    /\ PresenceAccountedFor

LEMMA AccountFor ==
    PresenceAccountedFor <=>
      \A p \in Peers :
        /\ presence[p] # NoLease => onRecord(p, presence[p])
        /\ p \in ledger \cup reaping => hasLetRunOut(p)
        /\ heard[p] > 0 /\ presence[p] = NoLease => p \in ledger \cup reaping \cup unrecorded
BY DEF PresenceAccountedFor, hasLetRunOut

LEMMA AccountForNext ==
    PresenceAccountedFor' <=>
      \A p \in Peers :
        /\ presence'[p] # NoLease => onRecord(p, presence[p])'
        /\ p \in ledger' \cup reaping' => hasLetRunOut(p)'
        /\ heard'[p] > 0 /\ presence'[p] = NoLease => p \in ledger' \cup reaping' \cup unrecorded'
BY DEF PresenceAccountedFor, hasLetRunOut, onRecord

(* What is on record stays on record, and what has run out has run out.      *)
LEMMA RecordsLast ==
    ASSUME RoomInv, ledger \ Peers \subseteq DOMAIN sent,
           ledger \subseteq ledger', clock' \in Nat, clock <= clock',
           DOMAIN sent \subseteq DOMAIN sent', \A n \in DOMAIN sent : sent'[n] = sent[n],
           NEW p \in Peers
    PROVE  /\ \A lease : onRecord(p, lease) =>
                /\ lease.leaseMs \in minLeaseMs..maxLeaseMs
                /\ \E n \in ledger' \ Peers : sent'[n].from = p /\ sent'[n].lease = lease
           /\ hasLetRunOut(p) => hasLetRunOut(p)'
<1>1. ASSUME NEW lease, onRecord(p, lease)
      PROVE  /\ lease.leaseMs \in minLeaseMs..maxLeaseMs
             /\ \E n \in ledger' \ Peers : sent'[n].from = p /\ sent'[n].lease = lease
  BY <1>1 DEF onRecord
<1>2. ASSUME hasLetRunOut(p) PROVE hasLetRunOut(p)'
  <2>1. PICK n \in DOMAIN sent : /\ sent[n].lease # NoLease /\ onRecord(p, sent[n].lease)
                                 /\ Table!expiresAt(sent[n].lease) < clock
    BY <1>2 DEF hasLetRunOut
  <2>2. n \in DOMAIN sent' /\ sent'[n] = sent[n]
    BY <2>1
  <2>3. Table!expiresAt(sent[n].lease) \in Int /\ clock \in Nat
    <3>1. sent[n].lease \in Lease /\ clock \in Nat
      BY <2>1, SentFields
    <3>2. sent[n].lease.signedAt \in Nat /\ sent[n].lease.leaseMs \in Nat
      BY <3>1, RoomAssumption DEF Lease
    <3>3. QED
      BY <3>1, <3>2 DEF Table!expiresAt
  <2>4. Table!expiresAt(sent[n].lease) < clock'
    BY <2>1, <2>3
  <2>5. onRecord(p, sent[n].lease)'
    BY <1>1, <2>1, <2>2 DEF onRecord
  <2>6. sent'[n].lease # NoLease /\ Table!expiresAt(sent'[n].lease) < clock'
    BY <2>1, <2>2, <2>4
  <2>7. QED
    BY <2>2, <2>5, <2>6 DEF hasLetRunOut, Table!expiresAt
<1>3. QED
  BY <1>1, <1>2

LEMMA AccountQuiet ==
    ASSUME AccountInv, RoomInv', clock' \in Nat, clock <= clock',
           DOMAIN sent \subseteq DOMAIN sent', \A n \in DOMAIN sent : sent'[n] = sent[n],
           UNCHANGED <<ledger, reaping, presence, heard, unrecorded>>
    PROVE  AccountInv'
<1>1. RoomInv /\ ledger \ Peers \subseteq DOMAIN sent /\ PresenceAccountedFor
  BY DEF AccountInv
<1>2. ASSUME NEW p \in Peers
      PROVE  /\ presence'[p] # NoLease => onRecord(p, presence[p])'
             /\ p \in ledger' \cup reaping' => hasLetRunOut(p)'
             /\ heard'[p] > 0 /\ presence'[p] = NoLease => p \in ledger' \cup reaping' \cup unrecorded'
  <2>1. presence'[p] # NoLease => onRecord(p, presence[p])'
    BY <1>1, AccountFor, RecordsLast DEF onRecord
  <2>2. p \in ledger' \cup reaping' => hasLetRunOut(p)'
    BY <1>1, AccountFor, RecordsLast
  <2>3. QED
    BY <1>1, <2>1, <2>2, AccountFor
<1>3. QED
  BY <1>1, <1>2, AccountForNext DEF AccountInv

LEMMA AccountSend ==
    ASSUME AccountInv, NEW p \in Peers,
           broadcast(p) \/ \E leaseMs \in LeaseTimes : heartbeat(p, leaseMs)
    PROVE  AccountInv'
<1>1. PICK seq \in Nat, lease \in Lease \cup {NoLease} : send(p, seq, lease)
  BY Sends DEF AccountInv
<1>2. /\ RoomInv' /\ DOMAIN sent \subseteq DOMAIN sent'
      /\ \A n \in DOMAIN sent : sent'[n] = sent[n]
  <2>1. RoomInv
    BY DEF AccountInv
  <2>2. /\ RoomInv' /\ Len(sent) \in Nat
        /\ DOMAIN sent = 1..Len(sent) /\ DOMAIN sent' = 1..(Len(sent) + 1)
        /\ \A n \in DOMAIN sent : sent'[n] = sent[n]
    BY <1>1, <2>1, SendStep
  <2>3. QED
    BY <2>2
<1>3. UNCHANGED <<clock, ledger, reaping, presence, heard, unrecorded>>
  BY <1>1 DEF send, roomVars
<1>4. clock' \in Nat /\ clock <= clock'
  BY <1>3, ClockAssumption DEF AccountInv, RoomInv, TypeOK
<1>5. QED
  BY <1>2, <1>3, <1>4, AccountQuiet

LEMMA AccountAppendDone ==
    ASSUME AccountInv, NEW c \in Callers, appendDone(c)
    PROVE  AccountInv'
<1> DEFINE n == calls[c].packet
           p == sent[n].from
           lease == sent[n].lease
<1>1. /\ n \in 1..MaxPackets /\ n \in DOMAIN sent /\ p \in Peers
      /\ ledger' = ledger \cup {n} /\ sent' = sent /\ n \notin Peers
      /\ reaping' = reaping /\ unrecorded' = unrecorded /\ clock' = clock
  BY RoomAssumption, AppendDoneTable DEF AccountInv, appendDone, peerVars
<1>2. presence \in [Peers -> Lease \cup {NoLease}] /\ heard \in [Peers -> Nat] /\ clock \in Nat
  BY ClockAssumption DEF AccountInv, RoomInv, TypeOK
<1>3. RoomInv /\ ledger \ Peers \subseteq DOMAIN sent /\ PresenceAccountedFor
  BY DEF AccountInv
<1>4. \A q \in Peers :
        /\ \A l : onRecord(q, l) =>
             /\ l.leaseMs \in minLeaseMs..maxLeaseMs
             /\ \E k \in ledger' \ Peers : sent'[k].from = q /\ sent'[k].lease = l
        /\ hasLetRunOut(q) => hasLetRunOut(q)'
  BY <1>1, <1>2, <1>3, RecordsLast
<1>5. \A q \in Peers : q \in ledger' \cup reaping' => hasLetRunOut(q)'
  BY <1>1, <1>3, <1>4, AccountFor
<1>6. ASSUME \A q \in Peers :
               \/ presence'[q] = presence[q] /\ heard'[q] = heard[q]
               \/ /\ q = p /\ presence'[q] # NoLease
                  /\ \/ presence'[q] = presence[q]
                     \/ presence'[q] = lease /\ lease.leaseMs \in minLeaseMs..maxLeaseMs
      PROVE  AccountInv'
  <2>1. ASSUME NEW q \in Peers, presence'[q] # NoLease PROVE onRecord(q, presence[q])'
    <3>1. CASE presence'[q] = presence[q]
      BY <1>3, <1>4, <2>1, <3>1, AccountFor DEF onRecord
    <3>2. CASE q = p /\ presence'[q] = lease /\ lease.leaseMs \in minLeaseMs..maxLeaseMs
      BY <1>1, <3>2 DEF onRecord
    <3>3. QED
      BY <1>6, <3>1, <3>2
  <2>2. \A q \in Peers : heard'[q] > 0 /\ presence'[q] = NoLease =>
                           q \in ledger' \cup reaping' \cup unrecorded'
    BY <1>1, <1>3, <1>6, AccountFor
  <2>3. PresenceAccountedFor'
    BY <1>5, <2>1, <2>2, AccountForNext
  <2>4. QED
    BY <1>1, <1>3, <2>3, AppendDoneRoomInv DEF AccountInv
<1>7. CASE UNCHANGED <<presence, heard>>
  BY <1>6, <1>7
<1>8. CASE /\ lease \in Lease /\ lease # NoLease /\ Table!validPresenceLease(lease)
           /\ presence' = IF Table!supersedes(lease, presence[p])
                            THEN [presence EXCEPT ![p] = lease] ELSE presence
           /\ heard' = [heard EXCEPT ![p] = Max2(@, Table!expiresAt(lease))]
  <2>1. \A q \in Peers : q # p => presence'[q] = presence[q] /\ heard'[q] = heard[q]
    BY <1>1, <1>2, <1>8
  <2>2. presence'[p] # NoLease /\ (presence'[p] = lease \/ presence'[p] = presence[p])
    BY <1>1, <1>2, <1>8 DEF Table!supersedes
  <2>3. lease.leaseMs \in minLeaseMs..maxLeaseMs
    BY <1>8 DEF Table!validPresenceLease
  <2>4. QED
    BY <1>6, <2>1, <2>2, <2>3
<1>9. QED
  BY <1>3, <1>7, <1>8, AppendDoneTable

(* Who is evicted had a lease in the table, on record, that has run out.     *)
LEMMA AccountEvict == AccountInv /\ (readPresence \/ reapStalePeers) => AccountInv'
<1> SUFFICES ASSUME AccountInv, readPresence \/ reapStalePeers PROVE AccountInv'
  OBVIOUS
<1>1. RoomInv /\ ledger \ Peers \subseteq DOMAIN sent /\ PresenceAccountedFor
  BY DEF AccountInv
<1>2. /\ clock' = clock /\ sent' = sent /\ heard' = heard /\ ledger' = ledger
      /\ \A q \in Peers : presence'[q] = IF q \in Table!stalePeers(presence, clock)
                                           THEN NoLease ELSE presence[q]
  BY <1>1, Evicts DEF peerVars
<1>3. /\ reaping \subseteq reaping' /\ unrecorded \subseteq unrecorded'
      /\ reaping' \subseteq reaping \cup Table!stalePeers(presence, clock)
      /\ Table!stalePeers(presence, clock) \subseteq reaping' \cup unrecorded'
  BY DEF readPresence, reapStalePeers
<1>4. ASSUME NEW q \in Table!stalePeers(presence, clock) PROVE hasLetRunOut(q)
  <2>1. q \in Peers /\ presence[q] # NoLease /\ Table!expiresAt(presence[q]) < clock
    BY <1>4 DEF Table!stalePeers, Table!stale
  <2>2. onRecord(q, presence[q])
    BY <1>1, <2>1, AccountFor
  <2>3. PICK n \in ledger \ Peers : sent[n].from = q /\ sent[n].lease = presence[q]
    BY <2>2 DEF onRecord
  <2>4. QED
    BY <1>1, <2>1, <2>2, <2>3 DEF hasLetRunOut
<1>5. \A q : hasLetRunOut(q)' <=> hasLetRunOut(q)
  BY <1>2 DEF hasLetRunOut, onRecord
<1>6. \A q, l : onRecord(q, l) => /\ l.leaseMs \in minLeaseMs..maxLeaseMs
        /\ \E n \in ledger' \ Peers : sent'[n].from = q /\ sent'[n].lease = l
  BY <1>2 DEF onRecord
<1>7. ASSUME NEW q \in Peers
      PROVE  /\ presence'[q] # NoLease => onRecord(q, presence[q])'
             /\ q \in ledger' \cup reaping' => hasLetRunOut(q)'
             /\ heard'[q] > 0 /\ presence'[q] = NoLease => q \in ledger' \cup reaping' \cup unrecorded'
  <2>1. presence'[q] # NoLease => onRecord(q, presence[q])'
    BY <1>1, <1>2, <1>6, AccountFor DEF onRecord
  <2>2. q \in ledger' \cup reaping' => hasLetRunOut(q)'
    BY <1>1, <1>2, <1>3, <1>4, <1>5, AccountFor
  <2>3. heard'[q] > 0 /\ presence'[q] = NoLease => q \in ledger' \cup reaping' \cup unrecorded'
    BY <1>1, <1>2, <1>3, AccountFor
  <2>4. QED
    BY <2>1, <2>2, <2>3
<1>8. QED
  BY <1>1, <1>2, <1>7, AccountForNext, EvictRoomInv DEF AccountInv

LEMMA AccountStale ==
    ASSUME AccountInv, NEW p \in Peers, peerStale(p)
    PROVE  AccountInv'
<1>1. RoomInv /\ ledger \ Peers \subseteq DOMAIN sent /\ PresenceAccountedFor
  BY DEF AccountInv
<1>2. /\ p \in reaping /\ reaping' = reaping \ {p} /\ ledger' = ledger \cup {p}
      /\ UNCHANGED <<clock, sent, presence, heard, unrecorded>>
      /\ ledger' \cup reaping' = ledger \cup reaping /\ ledger' \ Peers = ledger \ Peers
  BY DEF peerStale, peerVars
<1>3. \A q, l : onRecord(q, l) => /\ l.leaseMs \in minLeaseMs..maxLeaseMs
        /\ \E n \in ledger' \ Peers : sent'[n].from = q /\ sent'[n].lease = l
  BY <1>2 DEF onRecord
<1>4. \A q : hasLetRunOut(q)' <=> hasLetRunOut(q)
  BY <1>2 DEF hasLetRunOut, onRecord
<1>5. ASSUME NEW q \in Peers
      PROVE  /\ presence'[q] # NoLease => onRecord(q, presence[q])'
             /\ q \in ledger' \cup reaping' => hasLetRunOut(q)'
             /\ heard'[q] > 0 /\ presence'[q] = NoLease => q \in ledger' \cup reaping' \cup unrecorded'
  <2>1. presence'[q] # NoLease => onRecord(q, presence[q])'
    BY <1>1, <1>2, <1>3, AccountFor DEF onRecord
  <2>2. QED
    BY <1>1, <1>2, <1>4, <2>1, AccountFor
<1>6. QED
  BY <1>1, <1>2, <1>5, AccountForNext, StaleRoomInv DEF AccountInv

LEMMA AccountNext == AccountInv /\ [Next]_vars => AccountInv'
<1> SUFFICES ASSUME AccountInv, [Next]_vars PROVE AccountInv'
  OBVIOUS
<1>0. clock \in Nat
  BY ClockAssumption DEF AccountInv, RoomInv, TypeOK
<1>1. CASE /\ clock' = clock \/ clock' = clock + 1
           /\ UNCHANGED <<sent, ledger, reaping, presence, heard, unrecorded>>
  <2>1. RoomInv'
    BY RoomNext DEF AccountInv
  <2>2. clock' \in Nat /\ clock <= clock'
    BY <1>0, <1>1
  <2>3. QED
    BY <1>1, <2>1, <2>2, AccountQuiet
<1>2. CASE Tick \/ UNCHANGED vars
  BY <1>1, <1>2 DEF Tick, vars, peerVars, roomVars
<1>3. ASSUME NEW p \in Peers, restart(p) PROVE AccountInv'
  BY <1>1, <1>3 DEF restart, roomVars
<1>4. ASSUME NEW c \in Callers, NEW n \in DOMAIN sent, NEW hashMatches \in BOOLEAN,
             receive(c, n, hashMatches)
      PROVE  AccountInv'
  BY <1>1, <1>4 DEF receive, peerVars
<1>5. ASSUME NEW c \in Callers, digestReady(c) PROVE AccountInv'
  BY <1>1, <1>5 DEF digestReady, peerVars
<1>6. QED
  BY <1>2, <1>3, <1>4, <1>5, AccountSend, AccountAppendDone, AccountEvict, AccountStale DEF Next

(* The ledger accounts for the table: a lease in it is valid and on record,  *)
(* whoever is on record as stale had let such a lease run out, and a peer    *)
(* that was heard and is gone is on record or was evicted by a read.         *)
THEOREM TableOnRecord == Spec => []PresenceAccountedFor
<1>1. Init => AccountInv
  <2> SUFFICES ASSUME Init PROVE AccountInv
    OBVIOUS
  <2>1. PresenceAccountedFor /\ ledger \ Peers \subseteq DOMAIN sent
    BY DEF Init, PresenceAccountedFor
  <2>2. QED
    BY <2>1, RoomInitInv DEF AccountInv
<1>2. AccountInv => PresenceAccountedFor
  BY DEF AccountInv
<1>3. QED
  BY <1>1, <1>2, AccountNext, PTL DEF Spec

-------------------------------------------------------------------------------
(* Replay.  A nonce can have been forgotten for two reasons: its age, or the *)
(* number of packets.  A packet that was taken is guarded by its nonce until *)
(* then, and when age is the reason it may still be within its window only   *)
(* if nonces are kept for a shorter time than packets are good for.          *)
aged(n) == clock > sent[n].createdAt + nonceTtl

crowded == Len(sent) > nonceEntries

guarded(n) == n \in DOMAIN sent /\ (Store!has(nonces, n) \/ aged(n) \/ crowded)

forgotten(n) == crowded \/ (aged(n) /\ nonceTtl < packetTtl + clockSkewMs)

OneEntryEach ==
    \A d, e \in nonces : d.nonce = e.nonce => d = e

EntriesOfSent ==
    \A e \in nonces : e.nonce \in DOMAIN sent /\ sent[e.nonce].createdAt <= e.seenAt

CallsGuarded ==
    \A c \in Callers : calls[c] # Idle =>
        /\ guarded(calls[c].packet)
        /\ received[calls[c].packet] = 0 \/ forgotten(calls[c].packet)

OneCallEach ==
    \A c, d \in Callers :
        calls[c] # Idle /\ calls[d] # Idle /\ calls[c].packet = calls[d].packet =>
            c = d \/ forgotten(calls[c].packet)

ReceivedGuarded ==
    \A n \in 1..MaxPackets : received[n] > 0 => guarded(n)

ReceivedOnceUnlessForgotten ==
    \A n \in 1..MaxPackets : received[n] > 1 => n \in DOMAIN sent /\ forgotten(n)

OnceInv ==
    /\ RoomInv /\ OneEntryEach /\ EntriesOfSent /\ CallsGuarded /\ OneCallEach
    /\ ReceivedGuarded /\ ReceivedOnceUnlessForgotten

LEMMA IntervalBut ==
    ASSUME NEW k \in Nat, NEW i \in 1..k
    PROVE  IsFiniteSet((1..k) \ {i}) /\ Cardinality((1..k) \ {i}) = k - 1
<1>1. IsFiniteSet(1..k) /\ Cardinality(1..k) = IF 1 > k THEN 0 ELSE k - 1 + 1
  BY FS_Interval
<1>2. Cardinality(1..k) = k
  BY <1>1
<1>3. QED
  BY <1>1, <1>2, FS_RemoveElement

(* The store has fewer entries than packets were sent while one of them has  *)
(* no entry, so that there is room for one more until they are too many.     *)
LEMMA RoomForOneMore ==
    ASSUME OnceInv, ~crowded, NEW n \in DOMAIN sent,
           Store!fresh(nonces, n, clock)
    PROVE  Store!assertFresh(nonces, n, clock, deliveries)
             = Store!prune(nonces, clock)
                 \cup {[nonce |-> n, seenAt |-> clock, place |-> deliveries]}
<1> DEFINE kept == Store!prune(nonces, clock)
           others == (1..Len(sent)) \ {n}
           nonceOf == [e \in kept |-> e.nonce]
<1>1. /\ Len(sent) \in Nat /\ n \in 1..Len(sent) /\ DOMAIN sent = 1..Len(sent)
      /\ nonceEntries \in Nat /\ nonceEntries >= Len(sent)
  <2>1. sent \in Seq(Packet) /\ nonceEntries \in Nat
    BY RoomAssumption DEF OnceInv, RoomInv, TypeOK
  <2>2. Len(sent) \in Nat /\ DOMAIN sent = 1..Len(sent)
    BY <2>1
  <2>3. QED
    BY <2>1, <2>2 DEF crowded
<1>2. IsFiniteSet(others) /\ Cardinality(others) = Len(sent) - 1
  BY <1>1, IntervalBut
<1>3. nonceOf \in Injection(kept, others)
  <2>1. kept \subseteq nonces
    BY AssertFreshEntries
  <2>2. \A e \in kept : e.nonce \in others
    BY <1>1, <2>1 DEF OnceInv, EntriesOfSent, Store!fresh, Store!has
  <2>3. \A d, e \in kept : d.nonce = e.nonce => d = e
    BY <2>1 DEF OnceInv, OneEntryEach
  <2>4. QED
    BY <2>2, <2>3 DEF Injection, IsInjective
<1>4. IsFiniteSet(kept) /\ Cardinality(kept) <= Len(sent) - 1
  BY <1>2, <1>3, FS_Injection
<1>5. ~(Cardinality(kept) >= nonceEntries)
  BY <1>1, <1>4, FS_CardinalityType
<1>6. Store!makeRoom(kept) = kept
  BY <1>5 DEF Store!makeRoom, Store!Cardinality, Cardinality
<1>7. QED
  BY <1>6 DEF Store!assertFresh, Store!remember

(* The new entry is there in any case. *)
LEMMA NewEntry ==
    ASSUME NEW n, Store!fresh(nonces, n, clock)
    PROVE  Store!has(Store!assertFresh(nonces, n, clock, deliveries), n)
<1> DEFINE entry == [nonce |-> n, seenAt |-> clock, place |-> deliveries]
<1>1. entry \in Store!assertFresh(nonces, n, clock, deliveries)
  BY DEF Store!assertFresh, Store!remember
<1>2. entry.nonce = n
  OBVIOUS
<1>3. QED
  BY <1>1, <1>2 DEF Store!has

(* An entry that is pruned belongs to a packet that is as old as that.       *)
LEMMA PrunedIsAged ==
    ASSUME OnceInv, NEW e \in nonces
    PROVE  e \in Store!prune(nonces, clock) \/ aged(e.nonce)
<1>1. /\ e.nonce \in DOMAIN sent /\ sent[e.nonce].createdAt <= e.seenAt
      /\ e.seenAt \in Nat
  BY DEF OnceInv, EntriesOfSent, RoomInv, TypeOK, Store!Entry
<1>2. sent[e.nonce].createdAt \in Nat /\ clock \in Nat
  BY <1>1, SentFields DEF OnceInv
<1>3. nonceTtl \in Nat
  BY RoomAssumption
<1>4. e \in Store!prune(nonces, clock) \/ e.seenAt < clock - nonceTtl
  BY DEF Store!prune
<1>5. e.seenAt < clock - nonceTtl => aged(e.nonce)
  BY <1>1, <1>2, <1>3 DEF aged
<1>6. QED
  BY <1>4, <1>5

LEMMA GuardedStaysPruned ==
    ASSUME OnceInv, NEW n, guarded(n)
    PROVE  Store!has(Store!prune(nonces, clock), n) \/ aged(n) \/ crowded
BY PrunedIsAged DEF guarded, Store!has

(* A packet that was taken before is taken again only if it was forgotten.   *)
LEMMA TakenIsNew ==
    ASSUME OnceInv, NEW n \in DOMAIN sent,
           timely(sent[n]), Store!fresh(nonces, n, clock), guarded(n)
    PROVE  forgotten(n)
<1>1. /\ sent[n].createdAt \in Nat /\ clock \in Nat
      /\ packetTtl \in Nat /\ clockSkewMs \in Nat /\ nonceTtl \in Nat
  BY RoomAssumption, SentFields DEF OnceInv
<1>2. aged(n) \/ crowded
  BY GuardedStaysPruned DEF Store!fresh
<1>3. aged(n) => nonceTtl < packetTtl + clockSkewMs
  BY <1>1 DEF timely, aged
<1>4. QED
  BY <1>2, <1>3 DEF forgotten

(* What is forgotten stays so while time passes and packets are sent.        *)
LEMMA ForgottenLasts ==
    ASSUME OnceInv, clock' \in Nat, clock <= clock', Len(sent) <= Len(sent'), Len(sent') \in Nat,
           DOMAIN sent \subseteq DOMAIN sent', \A n \in DOMAIN sent : sent'[n] = sent[n]
    PROVE  /\ crowded => crowded'
           /\ \A n \in DOMAIN sent : (aged(n) => aged(n)') /\ (forgotten(n) => forgotten(n)')
<1>1. /\ nonceTtl \in Nat /\ nonceEntries \in Nat /\ Len(sent) \in Nat /\ clock \in Nat
  BY RoomAssumption, ClockAssumption DEF OnceInv, RoomInv, TypeOK
<1>2. crowded => crowded'
  BY <1>1 DEF crowded
<1>3. ASSUME NEW n \in DOMAIN sent, aged(n) PROVE aged(n)'
  <2>1. sent[n].createdAt \in Nat /\ sent'[n] = sent[n]
    BY SentFields DEF OnceInv
  <2>2. QED
    BY <1>1, <1>3, <2>1 DEF aged
<1>4. QED
  BY <1>2, <1>3 DEF forgotten

LEMMA OnceReceive ==
    ASSUME OnceInv,
           NEW c \in Callers, NEW n \in DOMAIN sent, NEW hashMatches \in BOOLEAN,
           receive(c, n, hashMatches)
    PROVE  OnceInv'
<1> DEFINE call == [packet |-> n, hashMatches |-> hashMatches, at |-> "digest"]
           entry == [nonce |-> n, seenAt |-> clock, place |-> deliveries]
           kept == Store!prune(nonces, clock)
           taken == timely(sent[n]) /\ Store!fresh(nonces, n, clock)
<1>1. RoomInv'
  BY ReceiveRoomInv DEF OnceInv
<1>2. /\ sent' = sent /\ clock' = clock /\ received' = received
      /\ calls \in [Callers -> Call \cup {Idle}] /\ n \in 1..MaxPackets
  <2>1. calls \in [Callers -> Call \cup {Idle}]
    BY DEF OnceInv, RoomInv, TypeOK
  <2>2. QED
    BY <2>1, SentFields DEF OnceInv, receive, peerVars
<1>3. kept \subseteq nonces /\ nonces' \subseteq nonces \cup {entry}
  BY AssertFreshEntries DEF receive
<1>4. /\ crowded' <=> crowded
      /\ \A m : (aged(m)' <=> aged(m)) /\ (forgotten(m)' <=> forgotten(m))
  BY <1>2 DEF aged, crowded, forgotten
<1>5. ~taken => calls' = calls /\ (nonces' = nonces \/ nonces' = kept)
  BY DEF receive, Store!assertFresh
<1>6. taken => /\ calls' = [calls EXCEPT ![c] = call]
               /\ Store!has(nonces', n) /\ nonces' \subseteq kept \cup {entry}
               /\ ~crowded => nonces' = kept \cup {entry}
  <2>1. Store!assertFresh(nonces, n, clock, deliveries) \subseteq kept \cup {entry}
    BY DEF Store!assertFresh, Store!remember, Store!makeRoom
  <2>2. QED
    BY <2>1, NewEntry, RoomForOneMore DEF receive
<1>7. \A m : guarded(m) => guarded(m)'
  <2>1. ASSUME NEW m, guarded(m), ~crowded PROVE Store!has(nonces', m) \/ aged(m)
    <3>1. Store!has(kept, m) \/ aged(m)
      BY <2>1, GuardedStaysPruned
    <3>2. kept \subseteq nonces'
      BY <1>3, <1>5, <1>6, <2>1
    <3>3. QED
      BY <3>1, <3>2 DEF Store!has
  <2>2. ASSUME NEW m, guarded(m) PROVE guarded(m)'
    BY <1>2, <1>4, <2>1, <2>2 DEF guarded, Store!has
  <2>3. QED
    BY <2>2
<1>8. OneEntryEach'
  <2>1. CASE ~taken
    BY <1>3, <1>5, <2>1 DEF OnceInv, OneEntryEach
  <2>2. CASE taken
    <3>1. \A e \in kept : e.nonce # n
      BY <2>2 DEF Store!fresh, Store!has
    <3>2. entry.nonce = n
      OBVIOUS
    <3>3. \A d, e \in kept \cup {entry} : d.nonce = e.nonce => d = e
      BY <1>3, <3>1, <3>2 DEF OnceInv, OneEntryEach
    <3>4. QED
      BY <1>6, <2>2, <3>3 DEF OneEntryEach
  <2>3. QED
    BY <2>1, <2>2
<1>9. EntriesOfSent'
  <2>1. entry.nonce = n /\ entry.seenAt = clock /\ sent[n].createdAt <= clock
    BY DEF OnceInv, RoomInv, SentInPast
  <2>2. \A e \in nonces \cup {entry} : e.nonce \in DOMAIN sent /\ sent[e.nonce].createdAt <= e.seenAt
    BY <2>1 DEF OnceInv, EntriesOfSent
  <2>3. QED
    BY <1>2, <1>3, <2>2 DEF EntriesOfSent
<1>10. ReceivedGuarded' /\ ReceivedOnceUnlessForgotten'
  BY <1>2, <1>4, <1>7 DEF OnceInv, ReceivedGuarded, ReceivedOnceUnlessForgotten
<1>11. CASE ~taken
  BY <1>1, <1>2, <1>4, <1>5, <1>7, <1>8, <1>9, <1>10, <1>11
     DEF OnceInv, CallsGuarded, OneCallEach
<1>12. CASE taken
  <2>1. guarded(n) => forgotten(n)
    BY <1>12, TakenIsNew
  <2>2. guarded(n)'
    BY <1>2, <1>6, <1>12 DEF guarded, Store!has
  <2>3. calls'[c] = call /\ call.packet = n /\ \A d \in Callers : d # c => calls'[d] = calls[d]
    BY <1>2, <1>6, <1>12
  <2>4. \A d \in Callers : calls[d] # Idle /\ calls[d].packet = n => forgotten(n)
    BY <2>1 DEF OnceInv, CallsGuarded
  <2>5. received[n] = 0 \/ forgotten(n)
    <3>1. received[n] \in Nat /\ (received[n] > 0 => guarded(n))
      BY <1>2 DEF OnceInv, ReceivedGuarded, RoomInv, TypeOK
    <3>2. QED
      BY <2>1, <3>1
  <2>6. CallsGuarded'
    <3>1. ASSUME NEW d \in Callers, NEW m, calls'[d] # Idle, m = calls'[d].packet
          PROVE  guarded(m)' /\ (received'[m] = 0 \/ forgotten(m)')
      <4>1. CASE d = c
        BY <1>2, <1>4, <2>2, <2>3, <2>5, <3>1, <4>1
      <4>2. CASE d # c
        BY <1>2, <1>4, <1>7, <2>3, <3>1, <4>2 DEF OnceInv, CallsGuarded
      <4>3. QED
        BY <4>1, <4>2
    <3>2. QED
      BY <3>1 DEF CallsGuarded
  <2>7. OneCallEach'
    <3>1. ASSUME NEW d \in Callers, NEW e \in Callers, NEW m, d # e,
                 calls'[d] # Idle, calls'[e] # Idle, m = calls'[d].packet, m = calls'[e].packet
          PROVE  forgotten(m)'
      <4>1. CASE d = c \/ e = c
        BY <1>4, <2>3, <2>4, <3>1, <4>1
      <4>2. CASE d # c /\ e # c
        BY <1>4, <2>3, <3>1, <4>2 DEF OnceInv, OneCallEach
      <4>3. QED
        BY <4>1, <4>2
    <3>2. QED
      BY <3>1 DEF OneCallEach
  <2>8. QED
    BY <1>1, <1>8, <1>9, <1>10, <2>6, <2>7 DEF OnceInv
<1>13. QED
  BY <1>11, <1>12

(* The other steps leave the store alone, and end a call at most. *)
LEMMA OnceLasts ==
    ASSUME OnceInv, RoomInv', clock' \in Nat, clock <= clock',
           Len(sent) <= Len(sent'), Len(sent') \in Nat,
           DOMAIN sent \subseteq DOMAIN sent', \A n \in DOMAIN sent : sent'[n] = sent[n],
           UNCHANGED <<nonces, calls, received>>
    PROVE  OnceInv'
<1>1. /\ crowded => crowded'
      /\ \A n \in DOMAIN sent : (aged(n) => aged(n)') /\ (forgotten(n) => forgotten(n)')
  BY ForgottenLasts
<1>2. \A n : guarded(n) => n \in DOMAIN sent /\ guarded(n)'
  BY <1>1 DEF guarded, Store!has
<1>3. OneEntryEach' /\ EntriesOfSent'
  BY DEF OnceInv, OneEntryEach, EntriesOfSent
<1>4. CallsGuarded'
  BY <1>1, <1>2 DEF OnceInv, CallsGuarded
<1>5. OneCallEach'
  BY <1>1, <1>2 DEF OnceInv, OneCallEach, CallsGuarded
<1>6. ReceivedGuarded' /\ ReceivedOnceUnlessForgotten'
  BY <1>1, <1>2 DEF OnceInv, ReceivedGuarded, ReceivedOnceUnlessForgotten
<1>7. QED
  BY <1>3, <1>4, <1>5, <1>6 DEF OnceInv

LEMMA OnceSend ==
    ASSUME OnceInv, NEW p \in Peers,
           broadcast(p) \/ \E leaseMs \in LeaseTimes : heartbeat(p, leaseMs)
    PROVE  OnceInv'
<1>1. RoomInv
  BY DEF OnceInv
<1>2. PICK seq \in Nat, lease \in Lease \cup {NoLease} : send(p, seq, lease)
  BY <1>1, Sends
<1>3. /\ RoomInv' /\ DOMAIN sent \subseteq DOMAIN sent'
      /\ \A n \in DOMAIN sent : sent'[n] = sent[n]
      /\ Len(sent') \in Nat /\ Len(sent) <= Len(sent')
  <2>1. /\ RoomInv' /\ Len(sent) \in Nat
        /\ DOMAIN sent = 1..Len(sent) /\ DOMAIN sent' = 1..(Len(sent) + 1)
        /\ \A n \in DOMAIN sent : sent'[n] = sent[n]
    BY <1>1, <1>2, SendStep
  <2>2. QED
    BY <2>1
<1>4. UNCHANGED <<clock, nonces, calls, received>> /\ clock \in Nat
  BY <1>1, <1>2, ClockAssumption DEF send, roomVars, RoomInv, TypeOK
<1>5. QED
  BY <1>3, <1>4, OnceLasts

LEMMA OnceTick == OnceInv /\ Tick => OnceInv'
<1> SUFFICES ASSUME OnceInv, Tick PROVE OnceInv'
  OBVIOUS
<1>1. RoomInv' /\ clock \in Nat /\ clock' = clock + 1 /\ UNCHANGED <<sent, nonces, calls, received>>
  BY TickRoomInv, ClockAssumption DEF OnceInv, RoomInv, TypeOK, Tick, peerVars, roomVars
<1>2. Len(sent) \in Nat
  BY DEF OnceInv, RoomInv, TypeOK
<1>3. QED
  BY <1>1, <1>2, OnceLasts

LEMMA OnceAppendDone ==
    ASSUME OnceInv, NEW c \in Callers, appendDone(c)
    PROVE  OnceInv'
<1> DEFINE n == calls[c].packet
<1>1. /\ RoomInv' /\ n \in 1..MaxPackets /\ calls[c] # Idle
      /\ UNCHANGED <<clock, sent, nonces>>
      /\ calls' = [calls EXCEPT ![c] = Idle] /\ received' = [received EXCEPT ![n] = @ + 1]
  BY AppendDoneRoomInv, AppendDoneTable DEF OnceInv, appendDone, peerVars
<1>2. calls \in [Callers -> Call \cup {Idle}] /\ received \in [1..MaxPackets -> Nat]
  BY DEF OnceInv, RoomInv, TypeOK
<1>3. \A m : (guarded(m)' <=> guarded(m)) /\ (forgotten(m)' <=> forgotten(m))
  BY <1>1 DEF guarded, forgotten, aged, crowded, Store!has
<1>4. (received[n] = 0 \/ forgotten(n)) /\ guarded(n) /\ received[n] \in Nat
  BY <1>1, <1>2 DEF OnceInv, CallsGuarded
<1>5. received'[n] = received[n] + 1 /\ \A m \in 1..MaxPackets : m # n => received'[m] = received[m]
  BY <1>1, <1>2, <1>4
<1>6. calls'[c] = Idle /\ \A d \in Callers : d # c => calls'[d] = calls[d]
  BY <1>1, <1>2
<1>7. \A d \in Callers : calls'[d] # Idle => /\ d # c /\ calls'[d] = calls[d] /\ calls[d] # Idle
                                              /\ calls[d].packet \in 1..MaxPackets
  BY <1>1, <1>2, <1>6 DEF Call
<1>8. CallsGuarded'
  <2>1. ASSUME NEW d \in Callers, calls'[d] # Idle
        PROVE  guarded(calls[d].packet) /\ (received'[calls[d].packet] = 0 \/ forgotten(calls[d].packet))
    <3>1. CASE calls[d].packet # n
      BY <1>5, <1>7, <2>1, <3>1 DEF OnceInv, CallsGuarded
    <3>2. CASE calls[d].packet = n
      BY <1>1, <1>4, <1>7, <2>1, <3>2 DEF OnceInv, OneCallEach
    <3>3. QED
      BY <3>1, <3>2
  <2>2. QED
    BY <1>3, <1>7, <2>1 DEF CallsGuarded
<1>9. OneCallEach'
  BY <1>3, <1>7 DEF OnceInv, OneCallEach
<1>10. ReceivedGuarded'
  BY <1>3, <1>4, <1>5 DEF OnceInv, ReceivedGuarded
<1>11. ReceivedOnceUnlessForgotten'
  <2>1. n \in DOMAIN sent
    BY <1>4 DEF guarded
  <2>2. ASSUME NEW m \in 1..MaxPackets, received'[m] > 1 PROVE m \in DOMAIN sent /\ forgotten(m)
    <3>1. CASE m = n
      BY <1>4, <1>5, <2>1, <2>2, <3>1
    <3>2. CASE m # n
      BY <1>5, <2>2, <3>2 DEF OnceInv, ReceivedOnceUnlessForgotten
    <3>3. QED
      BY <3>1, <3>2
  <2>3. QED
    BY <1>1, <1>3, <2>2 DEF ReceivedOnceUnlessForgotten
<1>12. QED
  BY <1>1, <1>8, <1>9, <1>10, <1>11 DEF OnceInv, OneEntryEach, EntriesOfSent

LEMMA OnceDigest ==
    ASSUME OnceInv, NEW c \in Callers, digestReady(c)
    PROVE  OnceInv'
<1>1. /\ RoomInv' /\ calls[c] \in Call /\ calls[c] # Idle
      /\ UNCHANGED <<clock, sent, nonces, received>>
      /\ calls' = [calls EXCEPT ![c] = [calls[c] EXCEPT !.at = "append"]]
         \/ calls' = [calls EXCEPT ![c] = Idle]
  BY CallFields, DigestRoomInv DEF OnceInv, digestReady, peerVars
<1>2. [calls[c] EXCEPT !.at = "append"].packet = calls[c].packet
  BY <1>1 DEF Call
<1>3. calls \in [Callers -> Call \cup {Idle}]
  BY DEF OnceInv, RoomInv, TypeOK
<1>4. \A d \in Callers : calls'[d] # Idle => calls[d] # Idle /\ calls'[d].packet = calls[d].packet
  BY <1>1, <1>2, <1>3
<1>5. \A m : (guarded(m)' <=> guarded(m)) /\ (forgotten(m)' <=> forgotten(m))
  BY <1>1 DEF guarded, forgotten, aged, crowded, Store!has
<1>6. CallsGuarded' /\ OneCallEach'
  BY <1>1, <1>4, <1>5 DEF OnceInv, CallsGuarded, OneCallEach
<1>7. QED
  BY <1>1, <1>5, <1>6 DEF OnceInv, OneEntryEach, EntriesOfSent, ReceivedGuarded,
     ReceivedOnceUnlessForgotten

LEMMA OnceNext == OnceInv /\ [Next]_vars => OnceInv'
<1> SUFFICES ASSUME OnceInv, [Next]_vars PROVE OnceInv'
  OBVIOUS
<1>1. CASE UNCHANGED <<clock, sent, nonces, calls, received>>
  <2>1. RoomInv'
    BY RoomNext DEF OnceInv
  <2>2. clock \in Nat /\ Len(sent) \in Nat
    BY ClockAssumption DEF OnceInv, RoomInv, TypeOK
  <2>3. QED
    BY <1>1, <2>1, <2>2, OnceLasts
<1>2. CASE UNCHANGED vars
  BY <1>1, <1>2 DEF vars, peerVars, roomVars
<1>3. CASE readPresence \/ reapStalePeers
  BY <1>1, <1>3, Evicts DEF OnceInv, peerVars
<1>4. ASSUME NEW p \in Peers, restart(p) \/ peerStale(p) PROVE OnceInv'
  BY <1>1, <1>4 DEF restart, peerStale, peerVars, roomVars
<1>5. QED
  BY <1>2, <1>3, <1>4, OnceReceive, OnceSend, OnceTick, OnceAppendDone, OnceDigest DEF Next

(* Whatever the transport duplicates, delays or reorders, and whatever the   *)
(* times are, the room acts on a packet a second time for two reasons only:  *)
(* more packets were sent than the store can hold, or the packet is older    *)
(* than nonces are kept for and that is less than it is good for.            *)
THEOREM ActedOnOnceUnlessForgotten ==
    Spec => [](\A n \in 1..MaxPackets : received[n] > 1 =>
                 \/ Len(sent) > nonceEntries
                 \/ /\ clock > sent[n].createdAt + nonceTtl
                    /\ nonceTtl < packetTtl + clockSkewMs)
<1>1. Init => OnceInv
  <2> SUFFICES ASSUME Init PROVE OnceInv
    OBVIOUS
  <2>1. OneEntryEach /\ EntriesOfSent /\ CallsGuarded /\ OneCallEach
        /\ ReceivedGuarded /\ ReceivedOnceUnlessForgotten
    BY DEF Init, OneEntryEach, EntriesOfSent, CallsGuarded, OneCallEach, ReceivedGuarded,
       ReceivedOnceUnlessForgotten
  <2>2. QED
    BY <2>1, RoomInitInv DEF OnceInv
<1>2. OnceInv => \A n \in 1..MaxPackets : received[n] > 1 =>
                   \/ Len(sent) > nonceEntries
                   \/ /\ clock > sent[n].createdAt + nonceTtl
                      /\ nonceTtl < packetTtl + clockSkewMs
  BY DEF OnceInv, ReceivedOnceUnlessForgotten, forgotten, aged, crowded
<1>3. OnceInv /\ [Next]_vars => OnceInv'
  BY OnceNext
<1>4. QED
  BY <1>1, <1>2, <1>3, PTL DEF Spec

-------------------------------------------------------------------------------
(* Eviction.  Until a peer is restarted its numbers and its times agree, so  *)
(* that of leases of one length the table keeps the one that expires last.   *)
OneLength == \A l, m \in LeaseTimes \cap (minLeaseMs..maxLeaseMs) : l = m

leasesOf(p) == {sent[n].lease : n \in {m \in DOMAIN sent : sent[m].from = p}} \ {NoLease}

LeasesInOrder ==
    \A p \in Peers : \A l \in leasesOf(p) :
        /\ l \in Lease /\ l.seq <= sequence[p] /\ l.signedAt <= clock
        /\ \A k \in leasesOf(p) : k.seq <= l.seq => k.signedAt <= l.signedAt

(* What the room has heard of p that is not in the table has run out. *)
lastHeard(p) ==
    IF presence[p] = NoLease
      THEN heard[p] = 0 \/ heard[p] < clock
      ELSE /\ presence[p] \in leasesOf(p) /\ Table!validPresenceLease(presence[p])
           /\ heard[p] >= Table!expiresAt(presence[p])
           /\ heard[p] = Table!expiresAt(presence[p]) \/ heard[p] < clock

SessionInv ==
    /\ RoomInv
    /\ restarts = 0 => LeasesInOrder /\ \A p \in Peers : lastHeard(p)

LEMMA SendLeases ==
    ASSUME RoomInv, NEW p \in Peers, NEW seq \in Nat, NEW lease \in Lease \cup {NoLease},
           send(p, seq, lease), NEW q \in Peers
    PROVE  /\ leasesOf(q) \subseteq leasesOf(q)'
           /\ leasesOf(q)' \subseteq leasesOf(q) \cup
                (IF q = p /\ lease # NoLease THEN {lease} ELSE {})
<1> DEFINE last == Len(sent) + 1
<1>1. /\ Len(sent) \in Nat
      /\ DOMAIN sent = 1..Len(sent) /\ DOMAIN sent' = 1..(Len(sent) + 1)
      /\ \A n \in DOMAIN sent : sent'[n] = sent[n]
      /\ sent'[last].from = p /\ sent'[last].lease = lease
  <2>1. sent'[last] = [from |-> p, seq |-> seq, createdAt |-> clock, lease |-> lease]
    BY SendStep
  <2>2. sent'[last].from = p /\ sent'[last].lease = lease
    BY <2>1
  <2>3. QED
    BY <2>2, SendStep
<1>2. DOMAIN sent' = DOMAIN sent \cup {last}
  BY <1>1
<1>3. QED
  BY <1>1, <1>2 DEF leasesOf

LEMMA SessionSend ==
    ASSUME SessionInv, NEW p \in Peers,
           broadcast(p) \/ \E leaseMs \in LeaseTimes : heartbeat(p, leaseMs)
    PROVE  SessionInv'
<1>1. RoomInv
  BY DEF SessionInv
<1>2. PICK seq \in Nat, lease \in Lease \cup {NoLease} :
        /\ send(p, seq, lease) /\ seq > sequence[p]
        /\ lease # NoLease => /\ lease.signedAt = clock
                              /\ lease.seq > sequence[p] /\ lease.seq <= seq
  BY <1>1, Sends
<1>3. RoomInv'
  BY <1>1, <1>2, SendStep
<1>4. /\ UNCHANGED <<clock, restarts, presence, heard>> /\ sequence \in [Peers -> Nat]
      /\ sequence' = [sequence EXCEPT ![p] = seq] /\ clock \in Nat
  BY <1>1, <1>2, RoomAssumption, ClockAssumption DEF send, roomVars, RoomInv, TypeOK
<1>5. ASSUME restarts' = 0 PROVE LeasesInOrder' /\ \A q \in Peers : lastHeard(q)'
  <2>1. LeasesInOrder /\ \A q \in Peers : lastHeard(q)
    BY <1>4, <1>5 DEF SessionInv
  <2>2. ASSUME NEW q \in Peers PROVE lastHeard(q)'
    <3>1. leasesOf(q) \subseteq leasesOf(q)'
      BY <1>1, <1>2, SendLeases
    <3>2. QED
      BY <1>4, <2>1, <3>1 DEF lastHeard
  <2>3. ASSUME NEW q \in Peers, NEW l \in leasesOf(q)'
        PROVE  /\ l \in Lease /\ l.seq <= sequence'[q] /\ l.signedAt <= clock'
               /\ \A k \in leasesOf(q)' : k.seq <= l.seq => k.signedAt <= l.signedAt
    <3>1. leasesOf(q)' \subseteq leasesOf(q) \cup
                (IF q = p /\ lease # NoLease THEN {lease} ELSE {})
      BY <1>1, <1>2, SendLeases
    <3>2. \A k \in leasesOf(q) :
             k \in Lease /\ k.seq \in Nat /\ k.signedAt \in Nat
             /\ k.seq <= sequence[q] /\ k.signedAt <= clock
      BY <2>1 DEF LeasesInOrder, Lease
    <3>3. CASE q # p \/ lease = NoLease
      <4>1. leasesOf(q)' \subseteq leasesOf(q) /\ sequence'[q] \in Nat /\ sequence[q] <= sequence'[q]
            /\ sequence[q] \in Nat
        BY <1>2, <1>4, <3>1, <3>3
      <4>2. QED
        BY <1>4, <2>1, <2>3, <3>2, <4>1 DEF LeasesInOrder
    <3>4. CASE q = p /\ lease # NoLease
      <4>1. /\ leasesOf(q)' \subseteq leasesOf(q) \cup {lease}
            /\ sequence'[q] = seq /\ sequence[q] \in Nat
            /\ lease.seq \in Nat /\ lease.signedAt = clock /\ lease \in Lease
            /\ lease.seq > sequence[q] /\ lease.seq <= seq /\ seq > sequence[q]
        BY <1>2, <1>4, <3>1, <3>4 DEF Lease
      <4>2. CASE l = lease
        <5>1. \A k \in leasesOf(q)' : k.signedAt <= clock
          BY <1>4, <3>2, <4>1
        <5>2. QED
          BY <1>4, <4>1, <4>2, <5>1
      <4>3. CASE l \in leasesOf(q)
        <5>1. ASSUME NEW k \in leasesOf(q)', k.seq <= l.seq PROVE k.signedAt <= l.signedAt
          <6>1. k # lease
            BY <3>2, <4>1, <4>3, <5>1
          <6>2. k \in leasesOf(q)
            BY <4>1, <5>1, <6>1
          <6>3. QED
            BY <2>1, <4>3, <5>1, <6>2 DEF LeasesInOrder
        <5>2. l \in Lease /\ l.seq <= sequence'[q] /\ l.signedAt <= clock'
          BY <1>4, <3>2, <4>1, <4>3
        <5>3. QED
          BY <5>1, <5>2
      <4>4. QED
        BY <2>3, <4>1, <4>2, <4>3
    <3>5. QED
      BY <3>3, <3>4
  <2>4. LeasesInOrder'
    BY <2>3 DEF LeasesInOrder
  <2>5. QED
    BY <2>2, <2>4
<1>6. QED
  BY <1>3, <1>5 DEF SessionInv

LEMMA SessionAppendDone ==
    ASSUME SessionInv, OneLength, NEW c \in Callers, appendDone(c)
    PROVE  SessionInv'
<1>1. RoomInv /\ RoomInv'
  BY AppendDoneRoomInv DEF SessionInv
<1>0. PICK n \in DOMAIN sent, p \in Peers, lease \in Lease \cup {NoLease} :
        n = calls[c].packet /\ p = sent[n].from /\ lease = sent[n].lease
  BY <1>1, CallFields DEF appendDone, Packet
<1>2. UNCHANGED <<clock, restarts, sequence, sent>>
  BY DEF appendDone, peerVars
<1>3. presence \in [Peers -> Lease \cup {NoLease}] /\ heard \in [Peers -> Nat] /\ clock \in Nat
  <2>1. presence \in [Peers -> Lease \cup {NoLease}] /\ heard \in [Peers -> Nat]
    BY DEF SessionInv, RoomInv, TypeOK
  <2>2. clock \in Nat
    BY SentFields, <1>1
  <2>3. QED
    BY <2>1, <2>2
<1>4. \A q \in Peers : leasesOf(q)' = leasesOf(q)
  BY <1>2 DEF leasesOf
<1>5. ASSUME restarts' = 0 PROVE LeasesInOrder' /\ \A q \in Peers : lastHeard(q)'
  <2>1. LeasesInOrder /\ \A q \in Peers : lastHeard(q)
    BY <1>2, <1>5 DEF SessionInv
  <2>2. LeasesInOrder'
    BY <1>2, <1>4, <2>1 DEF LeasesInOrder
  <2>3. CASE UNCHANGED <<presence, heard>>
    <3>1. \A q \in Peers : lastHeard(q)'
      BY <1>2, <1>4, <2>1, <2>3 DEF lastHeard
    <3>2. QED
      BY <2>2, <3>1
  <2>4. CASE /\ lease \in Lease /\ lease # NoLease
             /\ Table!validPresenceLease(lease)
             /\ lease.signedAt \in Nat /\ lease.leaseMs \in LeaseTimes
             /\ lease.leaseMs \in Nat /\ lease.seq \in Nat
             /\ Table!expiresAt(lease) \in Nat
             /\ presence' = IF Table!supersedes(lease, presence[p])
                              THEN [presence EXCEPT ![p] = lease] ELSE presence
             /\ heard' = [heard EXCEPT ![p] = Max2(@, Table!expiresAt(lease))]
             /\ heard'[p] \in Nat /\ heard'[p] >= heard[p]
             /\ heard'[p] >= Table!expiresAt(lease)
             /\ heard'[p] = heard[p] \/ heard'[p] = Table!expiresAt(lease)
    <3>1. \A q \in Peers : q # p => presence'[q] = presence[q] /\ heard'[q] = heard[q]
      BY <1>2, <1>3, <2>4
    <3>2. \A q \in Peers : q # p => lastHeard(q)'
      BY <1>2, <1>4, <2>1, <3>1 DEF lastHeard
    <3>3. lease \in leasesOf(p)
      BY <1>0, <2>4 DEF leasesOf
    <3>4. CASE presence[p] = NoLease
      <4>1. presence'[p] = lease
        BY <1>2, <1>3, <2>4, <3>4 DEF Table!supersedes
      <4>2. heard[p] = 0 \/ heard[p] < clock
        BY <1>2, <2>1, <3>4 DEF lastHeard
      <4>3. heard'[p] = Table!expiresAt(lease) \/ heard'[p] < clock
        BY <1>2, <1>3, <2>4, <4>2
      <4>4. lastHeard(p)'
        BY <1>2, <1>4, <2>4, <3>3, <4>1, <4>3 DEF lastHeard
      <4>5. QED
        BY <2>2, <3>2, <4>4
    <3>5. CASE presence[p] # NoLease
      <4> DEFINE held == presence[p]
      <4>1. /\ held \in leasesOf(p) /\ Table!validPresenceLease(held)
            /\ heard[p] >= Table!expiresAt(held)
            /\ heard[p] = Table!expiresAt(held) \/ heard[p] < clock
        BY <1>2, <2>1, <3>5 DEF lastHeard
      <4>2. /\ held.seq \in Nat /\ held.signedAt \in Nat
            /\ held.leaseMs \in LeaseTimes /\ held.leaseMs \in Nat
        BY <1>2, <1>3, <3>5, RoomAssumption, ClockAssumption DEF Lease
      <4>3. held.leaseMs = lease.leaseMs
        BY <2>4, <4>1, <4>2 DEF OneLength, Table!validPresenceLease
      <4>4. Table!expiresAt(held) = held.signedAt + lease.leaseMs
            /\ Table!expiresAt(lease) = lease.signedAt + lease.leaseMs
        BY <4>3 DEF Table!expiresAt
      <4>5. /\ heard[p] \in Nat /\ heard'[p] >= heard[p]
            /\ heard'[p] = heard[p] \/ heard'[p] = lease.signedAt + lease.leaseMs
            /\ heard'[p] >= lease.signedAt + lease.leaseMs
            /\ heard[p] >= held.signedAt + lease.leaseMs
            /\ heard[p] = held.signedAt + lease.leaseMs \/ heard[p] < clock
            /\ lease.signedAt \in Nat /\ lease.leaseMs \in Nat
        BY <1>3, <2>4, <4>1, <4>4
      <4>6. held.seq <= lease.seq => held.signedAt <= lease.signedAt
        BY <1>2, <2>1, <3>3, <4>1 DEF LeasesInOrder
      <4>7. CASE Table!supersedes(lease, held)
        <5>1. presence'[p] = lease
          BY <1>2, <1>3, <2>4, <4>7
        <5>2. held.signedAt <= lease.signedAt
          BY <2>4, <3>5, <4>2, <4>6, <4>7 DEF Table!supersedes
        <5>3. heard'[p] = Table!expiresAt(lease) \/ heard'[p] < clock
          <6>1. heard'[p] = lease.signedAt + lease.leaseMs \/ heard'[p] < clock
            BY <1>3, <4>2, <4>5, <5>2
          <6>2. QED
            BY <4>4, <6>1
        <5>4. lastHeard(p)'
          BY <1>2, <1>4, <2>4, <3>3, <5>1, <5>3 DEF lastHeard
        <5>5. QED
          BY <2>2, <3>2, <5>4
      <4>8. CASE ~Table!supersedes(lease, held)
        <5>1. presence'[p] = held
          BY <1>2, <1>3, <2>4, <4>8
        <5>2. lease.signedAt < held.signedAt
          BY <2>4, <4>2, <4>8 DEF Table!supersedes
        <5>3. heard'[p] = heard[p]
          BY <4>2, <4>5, <5>2
        <5>4. lastHeard(p)'
          BY <1>2, <1>4, <3>5, <4>1, <5>1, <5>3 DEF lastHeard
        <5>5. QED
          BY <2>2, <3>2, <5>4
      <4>9. QED
        BY <4>7, <4>8
    <3>6. QED
      BY <3>4, <3>5
  <2>5. QED
    BY <1>1, <1>0, <2>3, <2>4, AppendDoneTable
<1>6. QED
  BY <1>1, <1>5 DEF SessionInv

(* A stale lease is the last to expire of those heard, so all of them have.  *)
LEMMA SessionEvict ==
    ASSUME SessionInv, readPresence \/ reapStalePeers
    PROVE  /\ SessionInv'
           /\ \A p \in Peers : evicted(p) /\ restarts = 0 => heard[p] < clock
<1>1. RoomInv /\ RoomInv' /\ UNCHANGED <<clock, restarts, sequence, sent, heard>>
  BY Evicts, EvictRoomInv DEF SessionInv, peerVars
<1>2. \A p \in Peers : leasesOf(p)' = leasesOf(p)
  BY <1>1 DEF leasesOf
<1>3. ASSUME NEW p \in Peers
      PROVE  \/ presence'[p] = presence[p]
             \/ /\ presence[p] # NoLease /\ presence'[p] = NoLease
                /\ Table!expiresAt(presence[p]) < clock
  BY <1>1, Evicts DEF Table!stalePeers, Table!stale
<1>4. ASSUME restarts = 0, NEW p \in Peers
      PROVE  /\ lastHeard(p)'
             /\ presence[p] # NoLease /\ presence'[p] = NoLease => heard[p] < clock
  <2>1. lastHeard(p)
    BY <1>4 DEF SessionInv
  <2>2. CASE presence'[p] = presence[p]
    BY <1>1, <1>2, <2>1, <2>2 DEF lastHeard
  <2>3. CASE presence[p] # NoLease /\ presence'[p] = NoLease /\ Table!expiresAt(presence[p]) < clock
    <3>1. heard[p] < clock
      BY <2>1, <2>3 DEF lastHeard
    <3>2. QED
      BY <1>1, <2>3, <3>1 DEF lastHeard
  <2>4. QED
    BY <1>3, <2>2, <2>3
<1>5. SessionInv'
  BY <1>1, <1>2, <1>4 DEF SessionInv, LeasesInOrder
<1>6. QED
  BY <1>4, <1>5 DEF evicted

LEMMA SessionTick == SessionInv /\ Tick => SessionInv'
<1> SUFFICES ASSUME SessionInv, Tick PROVE SessionInv'
  OBVIOUS
<1>1. /\ RoomInv' /\ clock \in Nat /\ clock' = clock + 1
      /\ UNCHANGED <<restarts, sequence, sent, presence, heard>>
  <2>1. RoomInv'
    BY TickRoomInv DEF SessionInv
  <2>2. clock' = clock + 1 /\ UNCHANGED <<restarts, sequence, sent, presence, heard>>
    BY DEF Tick, peerVars, roomVars
  <2>3. clock \in Nat
    BY RoomAssumption, ClockAssumption DEF SessionInv, RoomInv, TypeOK
  <2>4. QED
    BY <2>1, <2>2, <2>3
<1>2. \A p \in Peers : leasesOf(p)' = leasesOf(p)
  BY <1>1 DEF leasesOf
<1>3. \A p \in Peers : heard[p] \in Nat
  BY DEF SessionInv, RoomInv, TypeOK
<1>4. \A p \in Peers : lastHeard(p) => lastHeard(p)'
  BY <1>1, <1>2, <1>3 DEF lastHeard
<1>5. ASSUME LeasesInOrder PROVE LeasesInOrder'
  <2>1. \A p \in Peers : \A l \in leasesOf(p) : l.signedAt \in Nat /\ l.signedAt <= clock
    BY <1>5 DEF LeasesInOrder, Lease
  <2>2. \A p \in Peers : \A l \in leasesOf(p) : l.signedAt <= clock'
    BY <1>1, <2>1
  <2>3. QED
    BY <1>1, <1>2, <1>5, <2>2 DEF LeasesInOrder
<1>6. QED
  BY <1>1, <1>4, <1>5 DEF SessionInv

LEMMA SessionNext ==
    ASSUME SessionInv, OneLength, [Next]_vars
    PROVE  /\ SessionInv'
           /\ \A p \in Peers : evicted(p) /\ restarts = 0 => heard[p] < clock
<1>1. CASE UNCHANGED <<clock, restarts, sequence, sent, presence, heard>>
  <2>1. RoomInv'
    BY RoomNext DEF SessionInv
  <2>2. (\A p \in Peers : leasesOf(p)' = leasesOf(p)) /\ (\A p \in Peers : ~evicted(p))
    BY <1>1 DEF leasesOf, evicted
  <2>3. QED
    BY <1>1, <2>1, <2>2 DEF SessionInv, LeasesInOrder, lastHeard
<1>2. CASE UNCHANGED vars
  BY <1>1, <1>2 DEF vars, peerVars, roomVars
<1>3. CASE Tick
  BY <1>3, SessionTick DEF Tick, evicted, roomVars
<1>4. ASSUME NEW p \in Peers,
             broadcast(p) \/ \E leaseMs \in LeaseTimes : heartbeat(p, leaseMs)
      PROVE  SessionInv' /\ \A q \in Peers : ~evicted(q)
  BY <1>4, SessionSend DEF broadcast, heartbeat, send, evicted, roomVars
<1>5. ASSUME NEW p \in Peers, restart(p) PROVE SessionInv' /\ \A q \in Peers : ~evicted(q)
  <2>1. RoomInv'
    BY <1>5, RestartRoomInv DEF SessionInv
  <2>2. restarts \in Nat
    BY DEF SessionInv, RoomInv, TypeOK
  <2>3. restarts' = restarts + 1 /\ presence' = presence
    BY <1>5 DEF restart, roomVars
  <2>4. QED
    BY <2>1, <2>2, <2>3 DEF SessionInv, evicted
<1>6. ASSUME NEW c \in Callers, NEW n \in DOMAIN sent, NEW hashMatches \in BOOLEAN,
             receive(c, n, hashMatches)
      PROVE  UNCHANGED <<clock, restarts, sequence, sent, presence, heard>>
  BY <1>6 DEF receive, peerVars
<1>7. ASSUME NEW c \in Callers, digestReady(c)
      PROVE  UNCHANGED <<clock, restarts, sequence, sent, presence, heard>>
  BY <1>7 DEF digestReady, peerVars
<1>8. ASSUME NEW c \in Callers, appendDone(c)
      PROVE  SessionInv' /\ \A q \in Peers : ~evicted(q)
  <2>1. RoomInv
    BY DEF SessionInv
  <2>2. \A q \in Peers : ~evicted(q)
    <3>1. presence \in [Peers -> Lease \cup {NoLease}]
      BY <2>1 DEF RoomInv, TypeOK
    <3>2. \A q \in Peers : presence[q] # NoLease => presence'[q] # NoLease
      BY <1>8, <2>1, <3>1, AppendDoneTable
    <3>3. QED
      BY <3>2 DEF evicted
  <2>3. QED
    BY <1>8, <2>2, SessionAppendDone
<1>9. ASSUME NEW p \in Peers, peerStale(p)
      PROVE  UNCHANGED <<clock, restarts, sequence, sent, presence, heard>>
  BY <1>9 DEF peerStale, peerVars
<1>10. QED
  BY <1>1, <1>2, <1>3, <1>4, <1>5, <1>6, <1>7, <1>8, <1>9, SessionEvict DEF Next

(* A peer is evicted only when every lease the room has had from it has run  *)
(* out, if leases are of one length and no peer was restarted.               *)
THEOREM EvictionIsLate ==
    ASSUME OneLength
    PROVE  Spec => EvictedOnlyWhenStaleInSession
<1>1. Init => SessionInv
  <2> SUFFICES ASSUME Init PROVE SessionInv
    OBVIOUS
  <2>1. LeasesInOrder /\ \A p \in Peers : lastHeard(p)
    BY DEF Init, LeasesInOrder, leasesOf, lastHeard
  <2>2. QED
    BY <2>1, RoomInitInv DEF SessionInv
<1>2. SessionInv /\ [Next]_vars => SessionInv'
  BY SessionNext
<1>3. SessionInv /\ [Next]_vars =>
        [\A p \in Peers : evicted(p) /\ restarts = 0 => heard[p] < clock]_vars
  BY SessionNext
<1>4. QED
  BY <1>1, <1>2, <1>3, PTL DEF Spec, EvictedOnlyWhenStaleInSession
=================================================================================

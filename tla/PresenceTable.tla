----------------------------- MODULE PresenceTable -----------------------------
(***************************************************************************)
(* The presence table of peerjs-room-kit/src/presence-table.js, as         *)
(* operators on a table that maps an identity to its lease or to NoLease.  *)
(* A lease has the sender's seq and signedAt, and the leaseMs it asks for. *)
(***************************************************************************)
EXTENDS Integers

CONSTANTS
    Identities,
    NoLease,
    minLeaseMs, maxLeaseMs      \* 500 and 60000 in the code

(* validatePresenceLease throws unless leaseMs is within its limits.  A     *)
(* lease that has already expired passes.                                   *)
validPresenceLease(lease) == lease.leaseMs \in minLeaseMs..maxLeaseMs

expiresAt(lease) == lease.signedAt + lease.leaseMs

stale(lease, t) == expiresAt(lease) < t

(* Mutant of the next definition: the last lease to arrive is kept. *)
supersedesAlways(lease, existing) == TRUE

(* upsert() of a valid lease: it is kept if it is not behind the one in the *)
(* table in seq, or not behind it in time.                                  *)
supersedes(lease, existing) ==
    \/ existing = NoLease
    \/ lease.seq >= existing.seq
    \/ lease.signedAt >= existing.signedAt

upsert(table, identity, lease) ==
    IF supersedes(lease, table[identity]) THEN [table EXCEPT ![identity] = lease] ELSE table

stalePeers(table, t) == {p \in Identities : table[p] # NoLease /\ stale(table[p], t)}

markStale(table, t) ==
    [p \in Identities |-> IF p \in stalePeers(table, t) THEN NoLease ELSE table[p]]
================================================================================

------------------------------ MODULE LeaseTable ------------------------------
(***************************************************************************)
(* What a table of claims with leases promises: a lease in force belongs   *)
(* to one owner, who keeps it until it is given up or its time has passed. *)
(***************************************************************************)
EXTENDS Integers

CONSTANTS
    Keys,       \* what is leased
    Owners,     \* who may hold a lease
    NoLease     \* a free key

VARIABLES now, lease

vars == <<now, lease>>

Lease == [owner: Owners, until: Nat]

InForce(k) == lease[k] # NoLease /\ lease[k].until >= now

TypeOK == now \in Nat /\ lease \in [Keys -> Lease \cup {NoLease}]

Init == now = 0 /\ lease = [k \in Keys |-> NoLease]

Tick == now' = now + 1 /\ UNCHANGED lease

(* Only a key without a lease in force is granted, and not in the past. *)
Grant(k) ==
    /\ ~InForce(k)
    /\ lease'[k] \in Lease /\ lease'[k].until >= now
    /\ lease' = [lease EXCEPT ![k] = lease'[k]]
    /\ UNCHANGED now

(* Leases whose time has passed may be taken out, several at once. *)
Lapse(S) ==
    /\ \A k \in S : lease[k] # NoLease /\ ~InForce(k)
    /\ lease' = [k \in Keys |-> IF k \in S THEN NoLease ELSE lease[k]]
    /\ UNCHANGED now

Release(k) ==
    /\ lease' = [lease EXCEPT ![k] = NoLease]
    /\ UNCHANGED now

Next ==
    \/ Tick
    \/ \E k \in Keys : Grant(k)
    \/ \E S \in SUBSET Keys : Lapse(S)
    \/ \E k \in Keys : Release(k)

Spec == Init /\ [][Next]_vars
===============================================================================

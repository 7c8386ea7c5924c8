------------------------------ MODULE NonceStore ------------------------------
(***************************************************************************)
(* The nonce store of shared/signed-packet/nonce-store.js: the nonces seen *)
(* in the last ttlMs, at most maxEntries of them.  The Map is a set of     *)
(* entries, each with its place in the order of insertion, which decides   *)
(* between entries of one time.  assertFresh() is the one operation the    *)
(* repository calls; has() and remember() are its two halves, and each     *)
(* prunes first.                                                           *)
(***************************************************************************)
EXTENDS Clock, Sequences, FiniteSets

CONSTANTS
    Nonces,
    ttlMs,
    maxEntries,
    MaxCalls        \* bound: calls of assertFresh() that find a fresh nonce

VARIABLES
    entries,        \* this.entries
    accepted        \* history: the nonces assertFresh() called fresh, with the time

storeVars == <<clock, entries, accepted>>

Seen == [nonce: Nonces, seenAt: 0..MaxClock]
Entry == [nonce: Nonces, seenAt: 0..MaxClock, place: Nat]

ASSUME StoreAssumption ==
    ttlMs \in Nat /\ maxEntries \in Nat \ {0} /\ MaxCalls \in Nat

-------------------------------------------------------------------------------
(* A definition with "Mutant:" in its comment is not the code's: it is the   *)
(* next definition with a bug put in, for checking that a property sees it.  *)

(* Mutant: an entry goes one instant early. *)
pruneEarly(store, t) == {e \in store : ~(e.seenAt <= t - ttlMs)}

(* prune() at time t: entries older than ttlMs are dropped. *)
prune(store, t) == {e \in store : ~(e.seenAt < t - ttlMs)}

has(store, nonce) == \E e \in store : e.nonce = nonce

(* The first entry of the list sorted by seenAt; the sort is stable. *)
oldest(store) ==
    CHOOSE e \in store :
        \A d \in store :
            \/ e.seenAt < d.seenAt
            \/ e.seenAt = d.seenAt /\ e.place <= d.place

(* Mutant: one entry too many. *)
makeRoomOneMore(store) ==
    IF Cardinality(store) > maxEntries THEN store \ {oldest(store)} ELSE store

makeRoom(store) == IF Cardinality(store) >= maxEntries THEN store \ {oldest(store)} ELSE store

(* remember() of a nonce the store does not hold. *)
remember(store, nonce, t, place) ==
    makeRoom(store) \cup {[nonce |-> nonce, seenAt |-> t, place |-> place]}

(* What assertFresh() answers and leaves behind. *)
fresh(store, nonce, t) == ~has(prune(store, t), nonce)

assertFresh(store, nonce, t, place) ==
    IF fresh(store, nonce, t) THEN remember(prune(store, t), nonce, t, place) ELSE prune(store, t)

-------------------------------------------------------------------------------
StoreInit == clock = 0 /\ entries = {} /\ accepted = <<>>

Tick == clock < MaxClock /\ clock' = clock + 1 /\ UNCHANGED <<entries, accepted>>

Check(nonce) ==
    /\ fresh(entries, nonce, clock) => Len(accepted) < MaxCalls
    /\ entries' = assertFresh(entries, nonce, clock, Len(accepted) + 1)
    /\ accepted' = IF fresh(entries, nonce, clock)
                     THEN Append(accepted, [nonce |-> nonce, seenAt |-> clock])
                     ELSE accepted
    /\ UNCHANGED clock

-------------------------------------------------------------------------------
StoreTypeOK ==
    /\ clock \in 0..MaxClock
    /\ entries \subseteq Entry /\ Cardinality(entries) <= maxEntries
    /\ accepted \in Seq(Seen)

(* The entry of the k-th nonce accepted. *)
entryOf(k) == [nonce |-> accepted[k].nonce, seenAt |-> accepted[k].seenAt, place |-> k]

(* A nonce is forgotten for two reasons only: more than ttlMs have passed    *)
(* since it was seen, or maxEntries newer nonces have pushed it out.  Unless *)
(* one of them holds, assertFresh() never calls it fresh a second time.  The *)
(* store holds exactly the newest accepted nonces, so the one evicted under  *)
(* pressure is the one nearest its own expiry.                               *)
ForgottenByAgeOrPressure ==
    /\ \A i, j \in DOMAIN accepted :
          i < j /\ accepted[i].nonce = accepted[j].nonce =>
              \/ accepted[j].seenAt - accepted[i].seenAt > ttlMs
              \/ j - i > maxEntries
    /\ entries = {entryOf(k) : k \in (Len(accepted) - Cardinality(entries) + 1)..Len(accepted)}
===============================================================================

-------------------------- MODULE PacketExchangeProofs --------------------------
(***************************************************************************)
(* The nonce store, the acknowledgement tracker and the blob that the      *)
(* packets carry, for any packets and blobs, time to live, size of the     *)
(* store, number of retries and policy of answers.                         *)
(*                                                                         *)
(* The store is a window: the entries are those of the last nonces that    *)
(* were accepted, since entries go by age or by being the oldest, and both *)
(* orders are the order of acceptance.  What is in front of the window has *)
(* left it for one of the two reasons (`IsGone`).                          *)
(***************************************************************************)
EXTENDS PacketExchange, FiniteSetTheorems, FunctionTheorems,
        WellFoundedInduction, TLAPS

(* The entries of the nonces accepted after the first lo. *)
Window(lo) == {entryOf(k) : k \in (lo + 1)..Len(accepted)}

IsGone(i) ==
    \/ clock - accepted[i].seenAt > ttlMs
    \/ Len(accepted) - i >= maxEntries

AcceptedInOrder ==
    /\ \A i, j \in DOMAIN accepted : i <= j => accepted[i].seenAt <= accepted[j].seenAt
    /\ \A i \in DOMAIN accepted : accepted[i].seenAt <= clock

StoreIsWindow ==
    \E lo \in 0..Len(accepted) :
        /\ entries = Window(lo)
        /\ Len(accepted) - lo <= maxEntries
        /\ \A i \in 1..lo : IsGone(i)

SecondTimeForReason ==
    \A i, j \in DOMAIN accepted :
        i < j /\ accepted[i].nonce = accepted[j].nonce =>
            \/ accepted[j].seenAt - accepted[i].seenAt > ttlMs
            \/ j - i > maxEntries

StoreInv ==
    /\ clock \in 0..MaxClock
    /\ accepted \in Seq(Seen)
    /\ AcceptedInOrder
    /\ StoreIsWindow
    /\ SecondTimeForReason

-------------------------------------------------------------------------------
LEMMA LeastNatural ==
    ASSUME NEW T \in SUBSET Nat, T # {}
    PROVE  \E x \in T : \A y \in T : x <= y
<1> DEFINE less == {ss \in Nat \X Nat : ss[1] < ss[2]}
<1>1. IsWellFoundedOn(less, Nat)
  BY Zenon, NatLessThanWellFounded DEF OpToRel
<1> HIDE DEF less
<1>2. PICK x \in T : \A y \in T : ~(<<y, x>> \in less)
  BY <1>1, WFMin, Zenon
<1>3. ASSUME NEW y \in T PROVE x <= y
  <2>1. x \in Nat /\ y \in Nat /\ ~(<<y, x>> \in less)
    BY <1>2
  <2>2. ~(y < x)
    BY <2>1 DEF less
  <2>3. QED
    BY <2>1, <2>2
<1>4. QED
  BY <1>3

(* What is accepted, and what an entry is. *)
LEMMA SeenFields ==
    ASSUME accepted \in Seq(Seen), NEW k \in 1..Len(accepted)
    PROVE  /\ accepted[k] \in Seen
           /\ accepted[k].seenAt \in 0..MaxClock /\ accepted[k].nonce \in Nonces
           /\ entryOf(k).nonce = accepted[k].nonce
           /\ entryOf(k).seenAt = accepted[k].seenAt
           /\ entryOf(k).place = k
           /\ entryOf(k) \in Entry
<1>1. accepted[k] \in Seen
  OBVIOUS
<1>2. QED
  BY <1>1 DEF Seen, Entry, entryOf

(* A window has an entry for each of its places. *)
LEMMA WindowSize ==
    ASSUME accepted \in Seq(Seen), NEW lo \in 0..Len(accepted)
    PROVE  IsFiniteSet(Window(lo)) /\ Cardinality(Window(lo)) = Len(accepted) - lo
<1> DEFINE places == (lo + 1)..Len(accepted)
           f == [k \in places |-> entryOf(k)]
<1>1. Len(accepted) \in Nat /\ places \subseteq 1..Len(accepted)
  OBVIOUS
<1>2. IsFiniteSet(places) /\ Cardinality(places) = Len(accepted) - lo
  <2>1. lo + 1 \in Int /\ Len(accepted) \in Int
    BY <1>1
  <2>2. /\ IsFiniteSet(places)
        /\ Cardinality(places) = IF lo + 1 > Len(accepted) THEN 0 ELSE Len(accepted) - (lo + 1) + 1
    BY <2>1, FS_Interval
  <2>3. QED
    BY <1>1, <2>2
<1>3. ASSUME NEW a \in places, NEW b \in places, f[a] = f[b] PROVE a = b
  BY <1>1, <1>3 DEF entryOf
<1>4. f \in [places -> Window(lo)] /\ \A e \in Window(lo) : \E k \in places : f[k] = e
  BY DEF Window
<1>5. f \in Bijection(places, Window(lo))
  BY <1>3, <1>4 DEF Bijection, Injection, Surjection, IsInjective
<1>6. QED
  BY <1>2, <1>5, FS_Bijection DEF ExistsBijection

LEMMA StoreInitInv == StoreInit => StoreInv
<1> SUFFICES ASSUME StoreInit PROVE StoreInv
  OBVIOUS
<1>1. clock = 0 /\ entries = {} /\ accepted = <<>> /\ Len(accepted) = 0
  BY DEF StoreInit
<1>2. Window(0) = {}
  BY <1>1 DEF Window
<1>3. StoreIsWindow
  BY <1>1, <1>2, StoreAssumption, ClockAssumption DEF StoreIsWindow
<1>4. QED
  BY <1>1, <1>3, StoreAssumption, ClockAssumption DEF StoreInv, AcceptedInOrder, SecondTimeForReason

LEMMA TickStoreInv == StoreInv /\ Tick => StoreInv'
<1> SUFFICES ASSUME StoreInv, Tick PROVE StoreInv'
  OBVIOUS
<1>1. /\ clock \in Nat /\ clock' = clock + 1 /\ clock' \in 0..MaxClock
      /\ entries' = entries /\ accepted' = accepted
  BY StoreAssumption, ClockAssumption DEF Tick, StoreInv
<1>2. \A i \in DOMAIN accepted : accepted[i].seenAt \in Nat
  BY SeenFields, StoreAssumption, ClockAssumption DEF StoreInv
<1>3. AcceptedInOrder'
  BY <1>1, <1>2 DEF StoreInv, AcceptedInOrder
<1>4. PICK lo \in 0..Len(accepted) :
        /\ entries = Window(lo) /\ Len(accepted) - lo <= maxEntries
        /\ \A i \in 1..lo : IsGone(i)
  BY DEF StoreInv, StoreIsWindow
<1>5. Window(lo)' = Window(lo)
  BY <1>1 DEF Window, entryOf
<1>6. ASSUME NEW i \in 1..lo PROVE IsGone(i)'
  <2>1. IsGone(i) /\ i \in DOMAIN accepted
    BY <1>4, <1>6 DEF StoreInv
  <2>2. accepted[i].seenAt \in Nat /\ ttlMs \in Nat
    BY <1>2, <2>1, StoreAssumption, ClockAssumption
  <2>3. clock - accepted[i].seenAt > ttlMs => clock' - accepted[i].seenAt > ttlMs
    BY <1>1, <2>2
  <2>4. QED
    BY <1>1, <2>1, <2>3 DEF IsGone
<1>7. StoreIsWindow'
  BY <1>1, <1>4, <1>5, <1>6 DEF StoreIsWindow
<1>8. QED
  BY <1>1, <1>3, <1>7 DEF StoreInv, SecondTimeForReason

(* prune() moves the front of the window on, past entries that are too old. *)
LEMMA PruneWindow ==
    ASSUME StoreInv, NEW lo \in 0..Len(accepted)
    PROVE  \E hi \in lo..Len(accepted) :
             /\ prune(Window(lo), clock) = Window(hi)
             /\ \A i \in (lo + 1)..hi : clock - accepted[i].seenAt > ttlMs
<1> DEFINE n == Len(accepted)
           live == {k \in (lo + 1)..n : ~(accepted[k].seenAt < clock - ttlMs)}
<1>1. n \in Nat /\ clock \in Nat /\ ttlMs \in Nat
  BY StoreAssumption, ClockAssumption DEF StoreInv
<1>2. \A k \in 1..n : accepted[k].seenAt \in Nat /\ entryOf(k).seenAt = accepted[k].seenAt
  BY SeenFields, StoreAssumption, ClockAssumption DEF StoreInv
<1>3. \A k, m \in 1..n : k <= m => accepted[k].seenAt <= accepted[m].seenAt
  BY <1>1 DEF StoreInv, AcceptedInOrder
<1>4. prune(Window(lo), clock) = {entryOf(k) : k \in live}
  BY <1>1, <1>2 DEF prune, Window
<1>5. CASE live = {}
  <2>1. Window(n) = {}
    BY <1>1 DEF Window
  <2>2. \A i \in (lo + 1)..n : clock - accepted[i].seenAt > ttlMs
    BY <1>1, <1>2, <1>5
  <2>3. prune(Window(lo), clock) = Window(n)
    BY <1>4, <1>5, <2>1
  <2>4. QED
    BY <1>1, <2>2, <2>3
<1>6. CASE live # {}
  <2>1. PICK first \in live : \A k \in live : first <= k
    <3>1. live \subseteq Nat
      BY <1>1
    <3>2. QED
      BY <1>6, <3>1, LeastNatural
  <2>2. first \in (lo + 1)..n /\ first \in Nat /\ lo \in Nat
    BY <1>1
  <2>3. ASSUME NEW k \in first..n PROVE k \in live
    BY <1>1, <1>2, <1>3, <2>2
  <2>4. live = first..n
    BY <1>1, <2>1, <2>2, <2>3
  <2>5. first - 1 \in lo..n /\ (first - 1) + 1 = first
    BY <1>1, <2>2
  <2>6. prune(Window(lo), clock) = Window(first - 1)
    BY <1>4, <2>4, <2>5 DEF Window
  <2>7. \A i \in (lo + 1)..(first - 1) : clock - accepted[i].seenAt > ttlMs
    BY <1>1, <1>2, <2>1, <2>2
  <2>8. QED
    BY <2>5, <2>6, <2>7
<1>7. QED
  BY <1>5, <1>6

(* remember() drops the first entry of a window that is full. *)
LEMMA MakeRoomWindow ==
    ASSUME StoreInv, NEW hi \in 0..Len(accepted), Len(accepted) - hi <= maxEntries
    PROVE  \E lo \in hi..Len(accepted) :
             /\ makeRoom(Window(hi)) = Window(lo)
             /\ Len(accepted) - lo < maxEntries
             /\ \A i \in (hi + 1)..lo : Len(accepted) - i >= maxEntries - 1
<1> DEFINE n == Len(accepted)
<1>1. n \in Nat /\ maxEntries \in Nat \ {0} /\ Cardinality(Window(hi)) = n - hi
  BY WindowSize, StoreAssumption, ClockAssumption DEF StoreInv
<1>2. CASE n - hi < maxEntries
  BY <1>1, <1>2 DEF makeRoom
<1>3. CASE n - hi >= maxEntries
  <2>1. hi + 1 \in 1..n /\ n - hi = maxEntries
    BY <1>1, <1>3
  <2>2. \A k \in 1..n : /\ accepted[k].seenAt \in Nat
                        /\ entryOf(k).seenAt = accepted[k].seenAt /\ entryOf(k).place = k
    BY SeenFields, StoreAssumption, ClockAssumption DEF StoreInv
  <2>3. \A k, m \in 1..n : k <= m => accepted[k].seenAt <= accepted[m].seenAt
    BY <1>1 DEF StoreInv, AcceptedInOrder
  <2> DEFINE IsOldest(e) == \A d \in Window(hi) :
                              \/ e.seenAt < d.seenAt
                              \/ e.seenAt = d.seenAt /\ e.place <= d.place
  <2>4. entryOf(hi + 1) \in Window(hi)
    BY <2>1 DEF Window
  <2>5. IsOldest(entryOf(hi + 1))
    <3>1. SUFFICES ASSUME NEW k \in (hi + 1)..n
          PROVE  \/ entryOf(hi + 1).seenAt < entryOf(k).seenAt
                 \/ /\ entryOf(hi + 1).seenAt = entryOf(k).seenAt
                    /\ entryOf(hi + 1).place <= entryOf(k).place
      BY DEF Window
    <3>2. k \in 1..n /\ hi + 1 <= k
      BY <1>1
    <3>3. accepted[hi + 1].seenAt <= accepted[k].seenAt
      BY <2>1, <2>3, <3>2
    <3>4. QED
      BY <2>1, <2>2, <3>2, <3>3
  <2>6. ASSUME NEW e \in Window(hi), IsOldest(e) PROVE e = entryOf(hi + 1)
    <3>1. PICK k \in (hi + 1)..n : e = entryOf(k)
      BY DEF Window
    <3>2. k \in 1..n
      BY <1>1
    <3>3. e.place <= entryOf(hi + 1).place
      BY <2>1, <2>2, <2>4, <2>5, <2>6, <3>1, <3>2
    <3>4. k = hi + 1
      BY <1>1, <2>1, <2>2, <3>1, <3>2, <3>3
    <3>5. QED
      BY <3>1, <3>4
  <2>7. oldest(Window(hi)) = entryOf(hi + 1)
    BY <2>4, <2>5, <2>6 DEF oldest
  <2>8. Window(hi) \ {entryOf(hi + 1)} = Window(hi + 1)
    <3>1. \A k \in (hi + 1)..n : entryOf(k) = entryOf(hi + 1) <=> k = hi + 1
      BY <1>1, <2>1, <2>2
    <3>2. (hi + 1)..n = {hi + 1} \cup ((hi + 1) + 1)..n /\ hi + 1 \notin ((hi + 1) + 1)..n
      BY <1>1, <2>1
    <3>3. QED
      BY <3>1, <3>2 DEF Window
  <2>9. makeRoom(Window(hi)) = Window(hi + 1)
    BY <1>1, <1>3, <2>7, <2>8 DEF makeRoom
  <2>10. /\ hi + 1 \in hi..n /\ n - (hi + 1) < maxEntries
         /\ \A i \in (hi + 1)..(hi + 1) : n - i >= maxEntries - 1
    BY <1>1, <2>1
  <2>11. QED
    BY <2>9, <2>10
<1>4. QED
  BY <1>1, <1>2, <1>3

(* assertFresh(): what was in the window and is gone has aged, or has been   *)
(* pushed out; so a nonce that is fresh again was.                           *)
LEMMA CheckStoreInv ==
    ASSUME StoreInv, NEW nonce \in Nonces, Check(nonce)
    PROVE  StoreInv'
<1> DEFINE new == [nonce |-> nonce, seenAt |-> clock]
<1>0. PICK n \in Nat : n = Len(accepted)
  BY DEF StoreInv
<1>1. /\ n \in Nat /\ DOMAIN accepted = 1..n /\ clock \in Nat /\ ttlMs \in Nat /\ maxEntries \in Nat \ {0}
      /\ clock' = clock /\ clock \in 0..MaxClock /\ accepted \in Seq(Seen)
  BY <1>0, StoreAssumption, ClockAssumption DEF StoreInv, Check
<1>2. PICK lo \in 0..n :
        /\ entries = Window(lo) /\ n - lo <= maxEntries
        /\ \A i \in 1..lo : IsGone(i)
  BY <1>0 DEF StoreInv, StoreIsWindow
<1>3. PICK hi \in lo..n :
        /\ prune(Window(lo), clock) = Window(hi)
        /\ \A i \in (lo + 1)..hi : clock - accepted[i].seenAt > ttlMs
  BY <1>0, PruneWindow
<1>4. /\ hi \in 0..n /\ n - hi <= maxEntries
      /\ \A i \in 1..hi : IsGone(i)
      /\ prune(entries, clock) = Window(hi)
  <2>1. hi \in 0..n /\ n - hi <= maxEntries
    BY <1>1, <1>2
  <2>2. ASSUME NEW i \in 1..hi PROVE IsGone(i)
    <3>1. i \in 1..lo \/ i \in (lo + 1)..hi
      BY <1>1, <1>2, <2>1
    <3>2. QED
      BY <1>2, <1>3, <3>1 DEF IsGone
  <2>3. QED
    BY <1>2, <1>3, <2>1, <2>2
<1>5. CASE ~fresh(entries, nonce, clock)
  <2>1. entries' = Window(hi) /\ accepted' = accepted
    BY <1>4, <1>5 DEF Check, assertFresh
  <2>2. Window(hi)' = Window(hi) /\ \A i \in 1..hi : IsGone(i)'
    BY <1>1, <1>4, <2>1 DEF Window, entryOf, IsGone
  <2>3. StoreIsWindow'
    BY <1>0, <1>4, <2>1, <2>2 DEF StoreIsWindow
  <2>4. QED
    BY <1>1, <2>1, <2>3 DEF StoreInv, AcceptedInOrder, SecondTimeForReason
<1>6. CASE fresh(entries, nonce, clock)
  <2>1. PICK low \in hi..n :
          /\ makeRoom(Window(hi)) = Window(low)
          /\ n - low < maxEntries
          /\ \A i \in (hi + 1)..low : n - i >= maxEntries - 1
    BY <1>0, <1>4, MakeRoomWindow
  <2>2. /\ entries' = Window(low) \cup {[nonce |-> nonce, seenAt |-> clock, place |-> n + 1]}
        /\ accepted' = Append(accepted, new)
    BY <1>0, <1>4, <1>6, <2>1 DEF Check, assertFresh, remember
  <2>3. new \in Seen
    BY <1>1 DEF Seen
  <2>4. /\ accepted' \in Seq(Seen) /\ Len(accepted') = n + 1
        /\ \A i \in 1..n : accepted'[i] = accepted[i]
        /\ accepted'[n + 1] = new
    BY <1>0, <1>1, <2>2, <2>3
  <2>5. \A i \in 1..n : accepted[i].seenAt \in Nat /\ accepted[i].seenAt <= clock
    BY <1>0, <1>1, SeenFields, StoreAssumption, ClockAssumption DEF StoreInv, AcceptedInOrder
  <2>6. low \in 0..n
    BY <1>1, <1>4, <2>1
  <2>7. AcceptedInOrder'
    <3>1. DOMAIN accepted' = 1..(n + 1) /\ accepted'[n + 1].seenAt = clock
      BY <1>1, <2>4
    <3>2. ASSUME NEW i \in 1..(n + 1) PROVE accepted'[i].seenAt <= clock'
      BY <1>1, <2>4, <2>5, <3>1
    <3>3. ASSUME NEW i \in 1..(n + 1), NEW j \in 1..(n + 1), i <= j
          PROVE  accepted'[i].seenAt <= accepted'[j].seenAt
      <4>1. CASE j = n + 1
        BY <1>1, <3>1, <3>2, <4>1
      <4>2. CASE j \in 1..n
        BY <1>1, <2>4, <3>3, <4>2 DEF StoreInv, AcceptedInOrder
      <4>3. QED
        BY <1>1, <4>1, <4>2
    <3>4. QED
      BY <3>1, <3>2, <3>3 DEF AcceptedInOrder
  <2>8. entries' = Window(low)'
    <3>1. /\ (low + 1)..Len(accepted') = ((low + 1)..n) \cup {n + 1}
          /\ (low + 1)..n \subseteq 1..n
      BY <1>1, <2>4, <2>6
    <3>2. \A i \in 1..n : entryOf(i)' = entryOf(i)
      BY <2>4 DEF entryOf
    <3>3. entryOf(n + 1)' = [nonce |-> nonce, seenAt |-> clock, place |-> n + 1]
      BY <2>4 DEF entryOf
    <3>4. QED
      BY <1>0, <2>2, <3>1, <3>2, <3>3 DEF Window
  <2>9. ASSUME NEW i \in 1..low PROVE IsGone(i)'
    <3>1. i \in 1..n /\ accepted'[i] = accepted[i]
      BY <1>1, <2>4, <2>6
    <3>2. i \in 1..hi \/ i \in (hi + 1)..low
      BY <1>1, <1>4, <2>6
    <3>3. QED
      BY <1>0, <1>1, <1>4, <2>1, <2>4, <2>5, <3>1, <3>2 DEF IsGone
  <2>10. StoreIsWindow'
    BY <1>1, <2>1, <2>4, <2>6, <2>8, <2>9 DEF StoreIsWindow
  <2>11. SecondTimeForReason'
    <3>1. SUFFICES ASSUME NEW i \in 1..(n + 1), NEW j \in 1..(n + 1),
                          i < j, accepted'[i].nonce = accepted'[j].nonce
                   PROVE  \/ accepted'[j].seenAt - accepted'[i].seenAt > ttlMs
                          \/ j - i > maxEntries
      BY <2>4 DEF SecondTimeForReason
    <3>2. i \in 1..n
      BY <1>1, <3>1
    <3>3. CASE j \in 1..n
      BY <1>1, <2>4, <3>1, <3>2, <3>3 DEF StoreInv, SecondTimeForReason
    <3>4. CASE j = n + 1
      <4>1. accepted[i].nonce = nonce
        BY <2>4, <3>1, <3>2, <3>4
      <4>2. i \notin (hi + 1)..n
        <5>1. SUFFICES ASSUME i \in (hi + 1)..n PROVE FALSE
          OBVIOUS
        <5>2. entryOf(i) \in Window(hi) /\ entryOf(i).nonce = nonce
          BY <1>0, <4>1, <5>1 DEF Window, entryOf
        <5>3. QED
          BY <1>4, <1>6, <5>2 DEF fresh, has
      <4>3. IsGone(i)
        BY <1>1, <1>4, <3>2, <4>2
      <4>4. QED
        BY <1>0, <1>1, <2>4, <2>5, <3>2, <3>4, <4>3 DEF IsGone
    <3>5. QED
      BY <1>1, <3>3, <3>4
  <2>12. QED
    BY <1>1, <2>4, <2>7, <2>10, <2>11 DEF StoreInv
<1>7. QED
  BY <1>5, <1>6

LEMMA StoreProperties == StoreInv => StoreTypeOK /\ ForgottenByAgeOrPressure
<1> SUFFICES ASSUME StoreInv PROVE StoreTypeOK /\ ForgottenByAgeOrPressure
  OBVIOUS
<1> DEFINE n == Len(accepted)
<1>1. PICK lo \in 0..n : entries = Window(lo) /\ n - lo <= maxEntries
  BY DEF StoreInv, StoreIsWindow
<1>2. n \in Nat /\ Cardinality(entries) = n - lo
  BY <1>1, WindowSize DEF StoreInv
<1>3. n - Cardinality(entries) + 1 = lo + 1
  BY <1>1, <1>2
<1>4. entries = {entryOf(k) : k \in (n - Cardinality(entries) + 1)..n}
  BY <1>1, <1>3 DEF Window
<1>5. entries \subseteq Entry
  <2>1. (lo + 1)..n \subseteq 1..n
    BY <1>1, <1>2
  <2>2. QED
    BY <1>1, <2>1, SeenFields DEF StoreInv, Window
<1>6. QED
  BY <1>1, <1>2, <1>4, <1>5 DEF StoreInv, StoreTypeOK, ForgottenByAgeOrPressure, SecondTimeForReason

-------------------------------------------------------------------------------
(* Of the tracker: every copy but the first was a retry.                     *)
EveryAttemptSent ==
    \A p \in Nonces :
        /\ p \in tracked => copies[p] = attempts[p] + 1
        /\ p \notin tracked => copies[p] = 0 /\ attempts[p] = 0

TrackerInv == Sender!TrackerTypeOK /\ SettledOnce /\ EveryAttemptSent

LEMMA TrackerInitInv == Sender!Init => TrackerInv
BY RetriesAssumption
   DEF Sender!Init, TrackerInv, Sender!TrackerTypeOK, SettledOnce, Sender!SettledOnce,
       EveryAttemptSent

LEMMA TrackStep ==
    ASSUME TrackerInv, NEW p \in Nonces, Sender!track(p)
    PROVE  TrackerInv'
<1>1. /\ tracked' = tracked \cup {p} /\ pending' = pending \cup {p} /\ p \notin tracked
      /\ copies' = [copies EXCEPT ![p] = @ + 1]
      /\ UNCHANGED <<attempts, replies, outcomes>>
      /\ copies \in [Nonces -> 0..(Retries + 1)] /\ pending \subseteq tracked
  BY DEF Sender!track, TrackerInv, Sender!TrackerTypeOK
<1>2. copies[p] = 0 /\ attempts[p] = 0 /\ copies'[p] = 1 /\ Retries \in Nat
  BY <1>1, RetriesAssumption DEF TrackerInv, EveryAttemptSent
<1>3. Sender!TrackerTypeOK'
  BY <1>1, <1>2 DEF TrackerInv, Sender!TrackerTypeOK
<1>4. SettledOnce'
  <2>1. tracked' \ pending' = tracked \ pending
    BY <1>1
  <2>2. \A q \in Nonces : q \in tracked \ pending => copies'[q] = copies[q]
    BY <1>1
  <2>3. ASSUME NEW q \in Nonces, outcomes[q] = <<"failed-closed">> PROVE q \in tracked \ pending
    <3>1. Len(outcomes[q]) = 1
      BY <2>3
    <3>2. Len(outcomes[q]) = IF q \in tracked \ pending THEN 1 ELSE 0
      BY DEF TrackerInv, SettledOnce, Sender!SettledOnce
    <3>3. QED
      BY <3>1, <3>2
  <2>4. QED
    BY <1>1, <2>1, <2>2, <2>3 DEF TrackerInv, SettledOnce, Sender!SettledOnce
<1>5. EveryAttemptSent'
  BY <1>1, <1>2 DEF TrackerInv, EveryAttemptSent
<1>6. QED
  BY <1>3, <1>4, <1>5 DEF TrackerInv

LEMMA AnswerStep ==
    ASSUME TrackerInv, NEW p \in Nonces, NEW a \in {"ack", "nack"}, Sender!answer(p, a)
    PROVE  TrackerInv'
<1>1. Sender!TrackerTypeOK'
  BY DEF Sender!answer, TrackerInv, Sender!TrackerTypeOK, Sender!Answers
<1>2. SettledOnce' /\ EveryAttemptSent'
  BY DEF Sender!answer, TrackerInv, SettledOnce, Sender!SettledOnce, EveryAttemptSent
<1>3. QED
  BY <1>1, <1>2 DEF TrackerInv

LEMMA LoseStep ==
    ASSUME TrackerInv, NEW p \in Nonces, Sender!lose(p)
    PROVE  TrackerInv'
<1>1. Sender!TrackerTypeOK'
  BY DEF Sender!lose, TrackerInv, Sender!TrackerTypeOK
<1>2. SettledOnce' /\ EveryAttemptSent'
  BY DEF Sender!lose, TrackerInv, SettledOnce, Sender!SettledOnce, EveryAttemptSent
<1>3. QED
  BY <1>1, <1>2 DEF TrackerInv

(* A pending packet has no outcome yet, and gets its one.                    *)
LEMMA SettleStep ==
    ASSUME TrackerInv, NEW p \in pending, NEW o \in {"ack", "nack", "failed-closed"},
           o = "failed-closed" => copies[p] = Retries + 1,
           Sender!settle(p, o), UNCHANGED <<tracked, attempts, copies>>
    PROVE  /\ pending' \subseteq tracked'
           /\ outcomes' \in [Nonces -> Seq({"ack", "nack", "failed-closed"})]
           /\ SettledOnce' /\ EveryAttemptSent'
<1>1. /\ p \in Nonces /\ p \in tracked /\ outcomes[p] = <<>>
      /\ outcomes \in [Nonces -> Seq({"ack", "nack", "failed-closed"})]
  <2>1. /\ pending \subseteq tracked /\ tracked \subseteq Nonces
        /\ outcomes \in [Nonces -> Seq({"ack", "nack", "failed-closed"})]
    BY DEF TrackerInv, Sender!TrackerTypeOK, Sender!Answers
  <2>2. Len(outcomes[p]) = 0
    BY <2>1 DEF TrackerInv, SettledOnce, Sender!SettledOnce
  <2>3. QED
    BY <2>1, <2>2
<1>2. pending' = pending \ {p} /\ outcomes' = [outcomes EXCEPT ![p] = <<o>>]
  BY <1>1 DEF Sender!settle
<1>3. SettledOnce'
  <2>1. SUFFICES ASSUME NEW q \in Nonces
        PROVE  /\ Len(outcomes'[q]) = IF q \in tracked \ pending' THEN 1 ELSE 0
               /\ outcomes'[q] = <<"failed-closed">> => copies[q] = Retries + 1
    BY DEF SettledOnce, Sender!SettledOnce
  <2>2. CASE q = p
    <3>1. outcomes'[q] = <<o>> /\ q \in tracked \ pending'
      BY <1>1, <1>2, <2>2
    <3>2. QED
      BY <2>2, <3>1
  <2>3. CASE q # p
    <3>1. outcomes'[q] = outcomes[q] /\ (q \in pending' <=> q \in pending)
      BY <1>1, <1>2, <2>3
    <3>2. QED
      BY <3>1 DEF TrackerInv, SettledOnce, Sender!SettledOnce
  <2>4. QED
    BY <2>2, <2>3
<1>4. QED
  BY <1>1, <1>2, <1>3 DEF TrackerInv, Sender!TrackerTypeOK, EveryAttemptSent

LEMMA ReceiveAnswerStep ==
    ASSUME TrackerInv, NEW p \in Nonces, Sender!receiveAnswer(p)
    PROVE  TrackerInv'
<1>1. /\ Head(replies[p]) \in {"ack", "nack"}
      /\ replies' \in [Nonces -> Seq({"ack", "nack"})]
      /\ UNCHANGED <<tracked, attempts, copies>>
  BY DEF Sender!receiveAnswer, TrackerInv, Sender!TrackerTypeOK, Sender!Answers
<1>2. CASE p \in pending /\ Sender!settle(p, Head(replies[p]))
  <2>1. /\ pending' \subseteq tracked'
        /\ outcomes' \in [Nonces -> Seq({"ack", "nack", "failed-closed"})]
        /\ SettledOnce' /\ EveryAttemptSent'
    BY <1>1, <1>2, SettleStep
  <2>2. QED
    BY <1>1, <2>1 DEF TrackerInv, Sender!TrackerTypeOK, Sender!Answers
<1>3. CASE UNCHANGED <<pending, outcomes>>
  BY <1>1, <1>3
     DEF TrackerInv, Sender!TrackerTypeOK, Sender!Answers, SettledOnce, Sender!SettledOnce,
         EveryAttemptSent
<1>4. QED
  BY <1>2, <1>3 DEF Sender!receiveAnswer

LEMMA NextRetryStep ==
    ASSUME TrackerInv, NEW p \in Nonces, Sender!nextRetry(p)
    PROVE  TrackerInv'
<1>0. /\ p \in pending /\ p \in tracked /\ attempts[p] \in 0..Retries /\ Retries \in Nat
      /\ copies[p] = attempts[p] + 1 /\ UNCHANGED <<tracked, replies>>
  BY RetriesAssumption
     DEF Sender!nextRetry, TrackerInv, Sender!TrackerTypeOK, EveryAttemptSent
<1>1. CASE /\ Sender!retriesLeft(p)
           /\ attempts' = [attempts EXCEPT ![p] = @ + 1]
           /\ copies' = [copies EXCEPT ![p] = @ + 1]
           /\ UNCHANGED <<pending, outcomes>>
  <2>1. attempts[p] + 1 \in 0..Retries /\ copies[p] + 1 \in 0..(Retries + 1)
    BY <1>0, <1>1 DEF Sender!retriesLeft
  <2>2. Sender!TrackerTypeOK' /\ EveryAttemptSent'
    BY <1>0, <1>1, <2>1 DEF TrackerInv, Sender!TrackerTypeOK, EveryAttemptSent
  <2>3. ASSUME NEW q \in Nonces, outcomes[q] = <<"failed-closed">> PROVE q # p
    <3>1. Len(outcomes[q]) = 1
      BY <2>3
    <3>2. Len(outcomes[q]) = IF q \in tracked \ pending THEN 1 ELSE 0
      BY DEF TrackerInv, SettledOnce, Sender!SettledOnce
    <3>3. q \in tracked \ pending
      BY <3>1, <3>2
    <3>4. QED
      BY <1>0, <3>3
  <2>4. SettledOnce'
    BY <1>0, <1>1, <2>3
       DEF TrackerInv, Sender!TrackerTypeOK, SettledOnce, Sender!SettledOnce
  <2>5. QED
    BY <2>2, <2>4 DEF TrackerInv
<1>2. CASE /\ ~Sender!retriesLeft(p) /\ Sender!settle(p, "failed-closed")
           /\ UNCHANGED <<attempts, copies>>
  <2>1. copies[p] = Retries + 1
    BY <1>0, <1>2 DEF Sender!retriesLeft
  <2>2. /\ pending' \subseteq tracked'
        /\ outcomes' \in [Nonces -> Seq({"ack", "nack", "failed-closed"})]
        /\ SettledOnce' /\ EveryAttemptSent'
    BY <1>0, <1>2, <2>1, SettleStep
  <2>3. QED
    BY <1>0, <1>2, <2>2 DEF TrackerInv, Sender!TrackerTypeOK, Sender!Answers
<1>3. QED
  BY <1>1, <1>2 DEF Sender!nextRetry

-------------------------------------------------------------------------------
ExchangeInv == StoreInv /\ TrackerInv

LEMMA ExchangeNext == ExchangeInv /\ [Next]_<<storeVars, senderVars>> => ExchangeInv'
<1> SUFFICES ASSUME ExchangeInv, [Next]_<<storeVars, senderVars>> PROVE ExchangeInv'
  OBVIOUS
<1>1. ASSUME UNCHANGED storeVars PROVE StoreInv'
  BY <1>1
     DEF ExchangeInv, StoreInv, storeVars, AcceptedInOrder, StoreIsWindow, Window, entryOf,
         IsGone, SecondTimeForReason
<1>2. ASSUME UNCHANGED senderVars PROVE TrackerInv'
  BY <1>2
     DEF ExchangeInv, TrackerInv, senderVars, Sender!TrackerTypeOK, SettledOnce,
         Sender!SettledOnce, EveryAttemptSent
<1>3. CASE Tick /\ UNCHANGED senderVars
  BY <1>2, <1>3, TickStoreInv DEF ExchangeInv
<1>4. CASE \E p \in Nonces : deliver(p)
  <2>1. PICK p \in Nonces : deliver(p)
    BY <1>4
  <2>2. StoreInv'
    BY <1>1, <2>1, CheckStoreInv DEF ExchangeInv, deliver
  <2>3. TrackerInv'
    BY <2>1, AnswerStep DEF ExchangeInv, deliver
  <2>4. QED
    BY <2>2, <2>3 DEF ExchangeInv
<1>5. CASE \E p \in Nonces : Sender!Step(p) /\ UNCHANGED storeVars
  <2>1. PICK p \in Nonces : Sender!Step(p) /\ UNCHANGED storeVars
    BY <1>5
  <2>2. TrackerInv'
    BY <2>1, TrackStep, ReceiveAnswerStep, LoseStep, NextRetryStep
       DEF ExchangeInv, Sender!Step
  <2>3. QED
    BY <1>1, <2>1, <2>2 DEF ExchangeInv
<1>6. CASE UNCHANGED <<storeVars, senderVars>>
  BY <1>1, <1>2, <1>6 DEF ExchangeInv
<1>7. QED
  BY <1>3, <1>4, <1>5, <1>6 DEF Next

LEMMA ExchangeInvariant == Spec => []ExchangeInv
<1>1. Init => ExchangeInv
  BY StoreInitInv, TrackerInitInv DEF Init, ExchangeInv
<1>2. QED
  BY <1>1, ExchangeNext, PTL DEF Spec

(* The types of the store and the tracker, and the limit of the store.       *)
THEOREM ExchangeTypeCorrect == Spec => []TypeOK
<1>1. ExchangeInv => TypeOK
  BY StoreProperties DEF ExchangeInv, TrackerInv, TypeOK
<1>2. QED
  BY <1>1, ExchangeInvariant, PTL

(* A replayed nonce is refused until it has aged or newer ones have pushed   *)
(* it out, whatever the times at which packets arrive.                       *)
THEOREM NoncesForgotten == Spec => []ForgottenByAgeOrPressure
<1>1. ExchangeInv => ForgottenByAgeOrPressure
  BY StoreProperties DEF ExchangeInv
<1>2. QED
  BY <1>1, ExchangeInvariant, PTL

(* Every packet gets one outcome, and is given up only when every retry has  *)
(* been made, whatever is answered, lost or late.                            *)
THEOREM OneOutcome == Spec => []SettledOnce
<1>1. ExchangeInv => SettledOnce
  BY DEF ExchangeInv, TrackerInv
<1>2. QED
  BY <1>1, ExchangeInvariant, PTL

(* A packet that has an outcome is not sent again, nor settled anew.         *)
THEOREM OutcomeFinal == Spec => Sender!SettledIsFinal
<1>1. ASSUME ExchangeInv, [Next]_<<storeVars, senderVars>>
      PROVE  [\A p \in tracked \ pending : p \notin pending' /\ copies'[p] = copies[p]]_Sender!vars
  <2>1. tracked \subseteq Nonces /\ copies \in [Nonces -> 0..Retries + 1]
    BY <1>1 DEF ExchangeInv, TrackerInv, Sender!TrackerTypeOK
  <2>2. SUFFICES ASSUME NEW p \in tracked \ pending
        PROVE  p \notin pending' /\ copies'[p] = copies[p]
    OBVIOUS
  <2>3. ASSUME NEW q \in Nonces, Sender!track(q) PROVE p \notin pending' /\ copies'[p] = copies[p]
    BY <2>1, <2>3 DEF Sender!track
  <2>4. ASSUME NEW q \in Nonces, Sender!nextRetry(q) PROVE p \notin pending' /\ copies'[p] = copies[p]
    BY <2>1, <2>4 DEF Sender!nextRetry, Sender!settle
  <2>5. ASSUME NEW q \in Nonces, Sender!receiveAnswer(q) \/ Sender!lose(q)
        PROVE  p \notin pending' /\ copies'[p] = copies[p]
    BY <2>5 DEF Sender!receiveAnswer, Sender!lose, Sender!settle
  <2>6. ASSUME NEW q \in Nonces, deliver(q) PROVE p \notin pending' /\ copies'[p] = copies[p]
    BY <2>6 DEF deliver, Sender!answer
  <2>7. QED
    BY <1>1, <2>3, <2>4, <2>5, <2>6 DEF Next, Sender!Step, senderVars
<1>2. QED
  BY <1>1, ExchangeInvariant, PTL DEF Spec, Sender!SettledIsFinal

-------------------------------------------------------------------------------
(* So a set that holds 0 and, with each k below n, k + 1, holds 0..n.        *)
LEMMA UpTo ==
    ASSUME NEW n \in Nat, NEW T, 0 \in T, \A k \in 0..(n - 1) : k \in T => k + 1 \in T
    PROVE  0..n \subseteq T
<1> SUFFICES ASSUME (0..n) \ T # {} PROVE FALSE
    OBVIOUS
<1>1. PICK x \in (0..n) \ T : \A y \in (0..n) \ T : x <= y
    <2>1. (0..n) \ T \in SUBSET Nat
        OBVIOUS
    <2> QED
        BY <2>1, LeastNatural
<1>2. x # 0 /\ x - 1 \in 0..(n - 1) /\ x - 1 \in 0..n
    BY <1>1
<1>3. x - 1 \in T
    BY <1>1, <1>2
<1>4. (x - 1) + 1 \in T
    BY <1>2, <1>3
<1> QED
    BY <1>1, <1>4

(* A recursive function on 0..n exists.                                      *)
Iterates(n, base, step, f) == f[0] = base /\ \A i \in 1..n : f[i] = step[<<i, f[i - 1]>>]

LEMMA Iterate ==
    ASSUME NEW n \in Nat, NEW S, NEW base \in S, NEW step \in [Nat \X S -> S]
    PROVE  \E f \in [0..n -> S] : Iterates(n, base, step, f)
<1> DEFINE T == {k \in 0..n : \E f \in [0..k -> S] : Iterates(k, base, step, f)}
<1>1. 0 \in T
    <2> DEFINE f == [i \in 0..0 |-> base]
    <2>1. f \in [0..0 -> S] /\ f[0] = base
        OBVIOUS
    <2> HIDE DEF f
    <2>2. Iterates(0, base, step, f) /\ 0 \in 0..n
        BY <2>1 DEF Iterates
    <2> QED
        BY <2>1, <2>2, Zenon
<1>2. ASSUME NEW k \in 0..(n - 1), k \in T PROVE k + 1 \in T
    <2>1. PICK f \in [0..k -> S] : Iterates(k, base, step, f)
        BY <1>2
    <2> DEFINE g == [i \in 0..(k + 1) |-> IF i = k + 1 THEN step[<<k + 1, f[k]>>] ELSE f[i]]
    <2>2. f[k] \in S /\ <<k + 1, f[k]>> \in Nat \X S
        OBVIOUS
    <2>3. step[<<k + 1, f[k]>>] \in S
        BY <2>2
    <2>4. g \in [0..(k + 1) -> S]
        BY <2>3
    <2>5. g[0] = base
        BY <2>1 DEF Iterates
    <2>6. ASSUME NEW i \in 1..(k + 1) PROVE g[i] = step[<<i, g[i - 1]>>]
        <3>1. CASE i = k + 1
            <4>1. g[i - 1] = f[k] /\ g[i] = step[<<k + 1, f[k]>>]
                BY <3>1
            <4> QED
                BY <3>1, <4>1
        <3>2. CASE i # k + 1
            <4>1. i \in 1..k
                BY <3>2
            <4>2. g[i - 1] = f[i - 1] /\ g[i] = f[i]
                BY <4>1
            <4> QED
                BY <2>1, <4>1, <4>2 DEF Iterates
        <3> QED
            BY <3>1, <3>2
    <2> HIDE DEF g
    <2>7. Iterates(k + 1, base, step, g) /\ k + 1 \in 0..n
        BY <2>5, <2>6 DEF Iterates
    <2> QED
        BY <2>4, <2>7, Zenon
<1> HIDE DEF T
<1>3. n \in T
    BY <1>1, <1>2, UpTo
<1> QED
    BY <1>3 DEF T

-------------------------------------------------------------------------------
(* The chunks that packets carry, and a sequence of some of them.            *)
AllChunks == UNION {chunkBytes(m) : m \in blobs}

(* The chunks agree with the blob; they fit; their indices are different.    *)
Alike(s) == \A i \in DOMAIN s : Agrees(s[i])
Fit(s) == \A i \in DOMAIN s : Fits(s[i])
Once(s) == \A i, j \in DOMAIN s : i # j => s[i].chunkIndex # s[j].chunkIndex

(* What chunkBytes cuts: chunks begin within the blob, the last one ends it. *)
LEMMA Multiples ==
    ASSUME NEW z \in Nat \ {0}, NEW n \in Nat, NEW k \in Nat, k < n
    PROVE  k * z \in Nat /\ n * z \in Nat /\ k * z + z <= n * z
<1>1. n = k + 1 + (n - k - 1) /\ n - k - 1 \in Nat
    BY SMT
<1>2. PICK d \in Nat : d = n - k - 1
    BY <1>1
<1>3. n * z = k * z + z + d * z /\ d * z \in Nat /\ k * z \in Nat
    BY <1>1, <1>2, SMT
<1> QED
    BY <1>3, SMT

LEMMA Quotient ==
    ASSUME NEW z \in Nat \ {0}, NEW l \in Nat, NEW n, n = (l + z - 1) \div z
    PROVE  n \in Nat /\ n * z >= l /\ n * z < l + z
<1>1. PICK q \in Int : q = (l + z - 1) \div z /\ q * z <= l + z - 1 /\ l + z - 1 < (q + 1) * z
    BY SMT
<1>2. (q + 1) * z = q * z + z
    BY <1>1, SMT
<1>3. q >= 0
    BY <1>1, <1>2, SMT
<1> QED
    BY <1>1, <1>2, <1>3, SMT

LEMMA BlobFields ==
    ASSUME NEW m \in blobs
    PROVE  /\ m.byteLength \in Nat /\ m.chunkSize \in Nat \ {0}
           /\ m.chunkCount \in Nat
           /\ m.sha256 \in Seq(Byte) /\ Len(m.sha256) = m.byteLength
           /\ m.chunkCount * m.chunkSize \in Nat
           /\ m.byteLength <= m.chunkCount * m.chunkSize
           /\ m.chunkCount * m.chunkSize < m.byteLength + m.chunkSize
           /\ \A k \in 0..(m.chunkCount - 1) :
                 k * m.chunkSize \in Nat /\ k * m.chunkSize < m.byteLength
<1>1. isManifest(m)
    BY BlobsAssumption
<1>2. /\ m.byteLength \in Nat /\ m.chunkSize \in Nat \ {0}
      /\ m.chunkCount = (m.byteLength + m.chunkSize - 1) \div m.chunkSize
      /\ m.sha256 \in Seq(Byte) /\ Len(m.sha256) = m.byteLength
    <2>1. PICK d, z : d = m.sha256 /\ z = m.chunkSize
        OBVIOUS
    <2>2. d \in Seq(Byte) /\ z \in Nat \ {0} /\ m = createBlobManifest(d, z)
        BY <1>1, <2>1 DEF isManifest
    <2>3. m.chunkCount = (Len(d) + z - 1) \div z /\ m.byteLength = Len(d)
        BY <2>2 DEF createBlobManifest
    <2>4. Len(d) \in Nat
        BY <2>2
    <2> QED
        BY <2>1, <2>2, <2>3, <2>4
<1> DEFINE z == m.chunkSize
           l == m.byteLength
           n == m.chunkCount
<1>3. /\ z \in Nat \ {0} /\ l \in Nat /\ n = (l + z - 1) \div z
    BY <1>2
<1> HIDE DEF z, l, n
<1>4. n \in Nat /\ n * z >= l /\ n * z < l + z /\ n * z \in Nat
    <2>1. n \in Nat /\ n * z >= l /\ n * z < l + z
        BY <1>3, Quotient
    <2> QED
        BY <1>3, <2>1
<1>5. ASSUME NEW k \in 0..(n - 1) PROVE k * z \in Nat /\ k * z < l
    <2>1. k \in Nat /\ k < n
        BY <1>4
    <2>2. k * z \in Nat /\ k * z + z <= n * z
        BY <1>3, <1>4, <2>1, Multiples
    <2> QED
        BY <1>3, <1>4, <2>2
<1> QED
    BY <1>2, <1>3, <1>4, <1>5 DEF z, l, n

LEMMA ChunkOf ==
    ASSUME NEW m \in blobs, NEW k \in 0..(m.chunkCount - 1), NEW c, c = chunkAt(m, k)
    PROVE  /\ c.chunkIndex = k
           /\ Len(c.data) \in Nat \ {0}
           /\ k * m.chunkSize \in Nat
           /\ k * m.chunkSize + Len(c.data) =
                 Lesser(k * m.chunkSize + m.chunkSize, m.byteLength)
           /\ c.data = [q \in 1..Len(c.data) |-> m.sha256[k * m.chunkSize + q]]
<1> DEFINE z == m.chunkSize
           l == m.byteLength
           start == k * m.chunkSize
           end == Lesser(start + z, l)
<1>1. z \in Nat \ {0} /\ l \in Nat /\ start \in Nat /\ start < l
    BY BlobFields
<1>2. c.chunkIndex = k /\ c.data = slice(m.sha256, start, end)
    BY DEF chunkAt
<1> HIDE DEF z, l, start
<1>3. end \in Nat /\ start < end
    BY <1>1 DEF Lesser
<1> HIDE DEF end
<1>4. c.data = [q \in 1..(end - start) |-> m.sha256[start + q]]
    BY <1>2 DEF slice
<1>5. Len(c.data) = end - start
    BY <1>1, <1>3, <1>4
<1>6. Len(c.data) \in Nat \ {0} /\ start + Len(c.data) = end
    BY <1>1, <1>3, <1>5
<1>7. c.data = [q \in 1..Len(c.data) |-> m.sha256[start + q]]
    BY <1>4, <1>5
<1>8. end = Lesser(start + z, l)
    BY DEF end
<1> QED
    BY <1>1, <1>2, <1>6, <1>7, <1>8 DEF z, l, start

-------------------------------------------------------------------------------
(* The sort: each chunk has a rank of its own, so the list by ranks is the   *)
(* chunks in order, each of them once.                                       *)
LEMMA IndexOrder ==
    ASSUME NEW s, \A i \in DOMAIN s : s[i].chunkIndex \in Nat, DOMAIN s \subseteq Nat
    PROVE  /\ \A i, j \in DOMAIN s : i # j => comesFirst(s, i, j) \/ comesFirst(s, j, i)
           /\ \A i, j \in DOMAIN s : ~(comesFirst(s, i, j) /\ comesFirst(s, j, i))
           /\ \A i, j, k \in DOMAIN s :
                 comesFirst(s, i, j) /\ comesFirst(s, j, k) => comesFirst(s, i, k)
BY SMT DEF comesFirst

LEMMA Ranks ==
    ASSUME NEW S, NEW s \in Seq(S), \A i \in DOMAIN s : s[i].chunkIndex \in Nat
    PROVE  /\ \A i \in DOMAIN s : rank(s, i) \in 1..Len(s)
           /\ \A i, j \in DOMAIN s : comesFirst(s, i, j) => rank(s, i) < rank(s, j)
           /\ \A n \in 1..Len(s) : \E i \in DOMAIN s : rank(s, i) = n
<1> DEFINE D == DOMAIN s
           N == Len(s)
           first(i) == {j \in D : comesFirst(s, j, i)}
           place == [i \in D |-> rank(s, i)]
<1>1. D = 1..N /\ N \in Nat /\ D \subseteq Nat /\ IsFiniteSet(D) /\ Cardinality(D) = N
    <2>1. D = 1..N /\ N \in Nat
        OBVIOUS
    <2> HIDE DEF D, N
    <2> QED
        BY <2>1, FS_Interval
<1>2. /\ \A i, j \in D : i # j => comesFirst(s, i, j) \/ comesFirst(s, j, i)
      /\ \A i, j \in D : ~(comesFirst(s, i, j) /\ comesFirst(s, j, i))
      /\ \A i, j, k \in D :
            comesFirst(s, i, j) /\ comesFirst(s, j, k) => comesFirst(s, i, k)
    BY <1>1, IndexOrder
<1>3. ASSUME NEW i \in D PROVE rank(s, i) = Cardinality(first(i)) + 1
    BY DEF rank
<1> HIDE DEF D, N
<1>4. ASSUME NEW i \in D
      PROVE  IsFiniteSet(first(i)) /\ Cardinality(first(i)) \in Nat /\ Cardinality(first(i)) < N
    <2>1. first(i) \subseteq D /\ i \notin first(i)
        BY <1>2
    <2>2. first(i) # D
        BY <2>1
    <2>3. IsFiniteSet(first(i)) /\ Cardinality(first(i)) <= N /\ Cardinality(first(i)) # N
        BY <1>1, <2>1, <2>2, FS_Subset
    <2>4. Cardinality(first(i)) \in Nat
        BY <2>3, FS_CardinalityType
    <2> QED
        BY <1>1, <2>3, <2>4
<1>5. ASSUME NEW i \in D, NEW j \in D, comesFirst(s, i, j)
      PROVE  rank(s, i) < rank(s, j)
    <2>1. first(i) \subseteq first(j)
        BY <1>2, <1>5
    <2>2. i \in first(j) /\ i \notin first(i)
        BY <1>2, <1>5
    <2>3. first(i) # first(j)
        BY <2>2
    <2>4. Cardinality(first(i)) <= Cardinality(first(j)) /\ Cardinality(first(i)) # Cardinality(first(j))
        BY <1>4, <2>1, <2>3, FS_Subset
    <2>5. rank(s, i) = Cardinality(first(i)) + 1 /\ rank(s, j) = Cardinality(first(j)) + 1
        BY <1>3
    <2>6. Cardinality(first(i)) \in Nat /\ Cardinality(first(j)) \in Nat
        BY <1>4
    <2> HIDE DEF first
    <2> QED
        BY <2>4, <2>5, <2>6
<1>6. ASSUME NEW i \in D PROVE rank(s, i) \in 1..N
    <2>1. rank(s, i) = Cardinality(first(i)) + 1
        BY <1>3
    <2>2. Cardinality(first(i)) \in Nat /\ Cardinality(first(i)) < N
        BY <1>4
    <2> HIDE DEF first
    <2> QED
        BY <1>1, <2>1, <2>2
<1>7. place \in Injection(D, 1..N)
    <2>1. \A i, j \in D : i # j => rank(s, i) < rank(s, j) \/ rank(s, j) < rank(s, i)
        BY <1>2, <1>5
    <2>2. \A i, j \in D : i # j => rank(s, i) # rank(s, j)
        BY <1>1, <1>6, <2>1
    <2> QED
        BY <1>6, <2>2 DEF Injection, IsInjective
<1>8. place \in Surjection(D, 1..N)
    <2>1. IsFiniteSet(1..N) /\ Cardinality(1..N) = N
        BY <1>1, FS_Interval
    <2> QED
        BY <1>1, <1>7, <2>1, FS_Injection
<1>9. \A n \in 1..N : \E i \in D : rank(s, i) = n
    BY <1>8 DEF Surjection
<1> QED
    BY <1>5, <1>6, <1>9 DEF D, N

(* The places the chunks of the sorted list had.                             *)
Ordered(s, order) ==
    /\ \A n \in DOMAIN s : order[n] \in DOMAIN s /\ sorted(s)[n] = s[order[n]]
    /\ \A i \in DOMAIN s : \E n \in DOMAIN s : order[n] = i
    /\ \A m, n \in DOMAIN s : m < n => comesFirst(s, order[m], order[n]) /\ order[m] # order[n]

LEMMA SortedList ==
    ASSUME NEW S, NEW s \in Seq(S), \A i \in DOMAIN s : s[i].chunkIndex \in Nat
    PROVE  /\ sorted(s) \in Seq(S) /\ Len(sorted(s)) = Len(s)
           /\ \E order : Ordered(s, order)
<1> DEFINE D == DOMAIN s
           N == Len(s)
           order == [n \in D |-> CHOOSE i \in D : rank(s, i) = n]
<1>1. D = 1..N /\ N \in Nat /\ \A i \in D : s[i] \in S
    OBVIOUS
<1>2. sorted(s) = [n \in D |-> s[order[n]]]
    BY DEF sorted
<1>3. /\ \A i \in D : rank(s, i) \in D
      /\ \A i, j \in D : comesFirst(s, i, j) => rank(s, i) < rank(s, j)
      /\ \A n \in D : \E i \in D : rank(s, i) = n
    BY <1>1, Ranks
<1>4. /\ \A i, j \in D : i # j => comesFirst(s, i, j) \/ comesFirst(s, j, i)
      /\ \A i \in D : i \in Nat /\ rank(s, i) \in Nat
    <2>1. DOMAIN s \subseteq Nat
        BY <1>1
    <2>2. \A i, j \in D : i # j => comesFirst(s, i, j) \/ comesFirst(s, j, i)
        BY <2>1, IndexOrder
    <2> HIDE DEF order
    <2> QED
        BY <1>1, <1>3, <2>1, <2>2
<1> HIDE DEF D, N
<1>5. \A n \in D : order[n] \in D /\ rank(s, order[n]) = n
    BY <1>3
<1> HIDE DEF order
<1>6. \A m, n \in D : m < n => comesFirst(s, order[m], order[n]) /\ order[m] # order[n]
    <2> SUFFICES ASSUME NEW m \in D, NEW n \in D, m < n
                 PROVE  comesFirst(s, order[m], order[n]) /\ order[m] # order[n]
        OBVIOUS
    <2>1. order[m] # order[n] /\ ~(n < m)
        BY <1>4, <1>5
    <2>2. ~comesFirst(s, order[n], order[m])
        <3>1. comesFirst(s, order[n], order[m]) => rank(s, order[n]) < rank(s, order[m])
            BY <1>3, <1>5, Zenon
        <3>2. rank(s, order[n]) = n /\ rank(s, order[m]) = m
            BY <1>5
        <3> QED
            BY <2>1, <3>1, <3>2
    <2> QED
        BY <1>4, <1>5, <2>1, <2>2
<1>7. \A i \in D : \E n \in D : order[n] = i
    <2> SUFFICES ASSUME NEW i \in D PROVE order[rank(s, i)] = i
        BY <1>3
    <2>1. rank(s, i) \in D /\ rank(s, order[rank(s, i)]) = rank(s, i)
        BY <1>3, <1>5
    <2>2. \A j \in D : rank(s, j) = rank(s, i) => j = i
        <3>1. \A j \in D : j # i => rank(s, j) < rank(s, i) \/ rank(s, i) < rank(s, j)
            BY <1>3, <1>4, Zenon
        <3> QED
            BY <1>4, <3>1
    <2> QED
        BY <1>5, <2>1, <2>2
<1>8. Ordered(s, order)
    BY <1>2, <1>5, <1>6, <1>7 DEF Ordered, D
<1>9. sorted(s) \in [1..N -> S] /\ DOMAIN sorted(s) = 1..N
    BY <1>1, <1>2, <1>5
<1> QED
    BY <1>1, <1>8, <1>9 DEF N

-------------------------------------------------------------------------------
(* The offsets: a running sum, which grows with each chunk.                  *)
Sums(s, f) == f[0] = 0 /\ \A n \in 1..Len(s) : f[n] = f[n - 1] + Len(s[n].data)

LEMMA OffsetsAreSums ==
    ASSUME NEW S, NEW s \in Seq(S), \A n \in 1..Len(s) : Len(s[n].data) \in Nat
    PROVE  Sums(s, offsets(s)) /\ \A n \in 0..Len(s) : offsets(s)[n] \in Nat
<1> DEFINE N == Len(s)
           size(n) == Len(s[n].data)
           body(f) == [n \in 0..N |-> IF n = 0 THEN 0 ELSE f[n - 1] + size(n)]
           step == [p \in Nat \X Nat |-> IF p[1] \in 1..N THEN p[2] + size(p[1]) ELSE p[2]]
           offset == CHOOSE f : f = body(f)
<1>1. N \in Nat /\ \A n \in 1..N : size(n) \in Nat
    OBVIOUS
<1>2. offsets(s) = offset
    BY DEF offsets
<1> HIDE DEF N, size
<1>3. step \in [Nat \X Nat -> Nat]
    BY <1>1
<1> HIDE DEF step
<1>4. PICK f \in [0..N -> Nat] : Iterates(N, 0, step, f)
    BY <1>1, <1>3, Iterate, Zenon
<1>5. f[0] = 0
    BY <1>4 DEF Iterates
<1>6. ASSUME NEW n \in 1..N PROVE f[n] = f[n - 1] + size(n)
    <2>1. n \in Nat /\ f[n - 1] \in Nat
        BY <1>1, <1>4
    <2>2. step[<<n, f[n - 1]>>] = f[n - 1] + size(n)
        BY <2>1 DEF step
    <2> QED
        BY <1>4, <2>2 DEF Iterates
<1>7. f = body(f)
    BY <1>1, <1>4, <1>5, <1>6
<1>8. offset = body(offset)
    BY <1>7
<1> HIDE DEF offset
<1>9. /\ offset[0] = 0
      /\ \A n \in 1..N : offset[n] = offset[n - 1] + size(n)
    <2>1. \A n \in 0..N : offset[n] = IF n = 0 THEN 0 ELSE offset[n - 1] + size(n)
        BY <1>8
    <2> QED
        BY <1>1, <2>1
<1>10. ASSUME NEW n \in 0..N PROVE offset[n] \in Nat
    <2> DEFINE T == {k \in 0..n : offset[k] \in Nat}
    <2>1. 0 \in T
        BY <1>1, <1>9
    <2>2. ASSUME NEW k \in 0..(n - 1), k \in T PROVE k + 1 \in T
        <3>1. k + 1 \in 1..N /\ offset[k] \in Nat /\ (k + 1) - 1 = k
            BY <1>1, <2>2
        <3> QED
            BY <1>1, <1>9, <3>1
    <2>3. n \in Nat
        BY <1>1
    <2> HIDE DEF T
    <2>4. 0..n \subseteq T
        BY <2>1, <2>2, <2>3, UpTo
    <2> QED
        BY <2>3, <2>4 DEF T
<1> QED
    BY <1>2, <1>9, <1>10 DEF Sums, N, size

LEMMA OffsetsGrow ==
    ASSUME NEW S, NEW s \in Seq(S), \A n \in 1..Len(s) : Len(s[n].data) \in Nat \ {0},
           NEW n \in 0..Len(s), NEW k \in 0..Len(s), n < k
    PROVE  offsets(s)[n] < offsets(s)[k]
<1> DEFINE offset == offsets(s)
           d == k - n - 1
           T == {i \in 0..d : offset[n] < offset[n + 1 + i]}
<1>1. /\ \A i \in 0..Len(s) : offset[i] \in Nat
      /\ \A i \in 1..Len(s) : offset[i] = offset[i - 1] + Len(s[i].data)
    BY OffsetsAreSums DEF Sums
<1>2. \A i \in 0..(Len(s) - 1) : offset[i] \in Nat /\ offset[i + 1] \in Nat /\ offset[i] < offset[i + 1]
    <2> SUFFICES ASSUME NEW i \in 0..(Len(s) - 1)
                 PROVE  offset[i] \in Nat /\ offset[i + 1] \in Nat /\ offset[i] < offset[i + 1]
        OBVIOUS
    <2>1. i + 1 \in 1..Len(s) /\ (i + 1) - 1 = i /\ i \in 0..Len(s) /\ i + 1 \in 0..Len(s)
        OBVIOUS
    <2>2. offset[i + 1] = offset[i] + Len(s[i + 1].data) /\ Len(s[i + 1].data) \in Nat \ {0}
        BY <1>1, <2>1
    <2> HIDE DEF offset
    <2> QED
        BY <1>1, <2>1, <2>2
<1> HIDE DEF offset
<1>3. d \in Nat /\ n \in Nat /\ n + 1 + d = k /\ Len(s) \in Nat
    OBVIOUS
<1>4. 0 \in T
    BY <1>2, <1>3
<1>5. ASSUME NEW i \in 0..(d - 1), i \in T PROVE i + 1 \in T
    <2>1. n + 1 + i \in 0..(Len(s) - 1) /\ n \in 0..(Len(s) - 1) /\ i + 1 \in 0..d
        BY <1>3
    <2>2. offset[n + 1 + i] < offset[(n + 1 + i) + 1] /\ offset[n] < offset[n + 1 + i]
        BY <1>2, <1>5, <2>1
    <2>3. offset[n] \in Nat /\ offset[n + 1 + i] \in Nat /\ offset[(n + 1 + i) + 1] \in Nat
        BY <1>2, <2>1
    <2>4. (n + 1 + i) + 1 = n + 1 + (i + 1)
        BY <1>3
    <2> QED
        BY <2>1, <2>2, <2>3, <2>4
<1> HIDE DEF d, T
<1>6. 0..d \subseteq T
    BY <1>3, <1>4, <1>5, UpTo
<1>7. d \in T
    BY <1>3, <1>6
<1> QED
    BY <1>3, <1>7 DEF T, offset

(* Every byte of the array up to the last offset is that of one chunk.       *)
LEMMA Covered ==
    ASSUME NEW S, NEW s \in Seq(S), \A n \in 1..Len(s) : Len(s[n].data) \in Nat \ {0},
           NEW p \in 1..offsets(s)[Len(s)]
    PROVE  \E n \in 1..Len(s) : \E q \in 1..Len(s[n].data) : p = offsets(s)[n - 1] + q
<1> DEFINE offset == offsets(s)
           T == {n \in 0..Len(s) : p <= offset[n]}
<1>1. /\ \A i \in 0..Len(s) : offset[i] \in Nat
      /\ offset[0] = 0
      /\ \A i \in 1..Len(s) : offset[i] = offset[i - 1] + Len(s[i].data)
    BY OffsetsAreSums DEF Sums
<1>2. Len(s) \in T /\ T \in SUBSET Nat /\ 0 \notin T
    BY <1>1
<1>3. PICK n \in T : \A k \in T : n <= k
    BY <1>2, LeastNatural
<1>4. n \in 1..Len(s) /\ n - 1 \in 0..Len(s) /\ n - 1 \notin T /\ n \in 0..Len(s)
    BY <1>2, <1>3
<1>5. offset[n - 1] < p /\ p <= offset[n] /\ offset[n] = offset[n - 1] + Len(s[n].data)
      /\ offset[n - 1] \in Nat /\ Len(s[n].data) \in Nat
    BY <1>1, <1>4
<1> HIDE DEF offset
<1>6. p \in Nat
    BY DEF offset
<1>7. p - offset[n - 1] \in 1..Len(s[n].data) /\ p = offset[n - 1] + (p - offset[n - 1])
    BY <1>5, <1>6
<1> QED
    BY <1>4, <1>7 DEF offset

Bytes(m, s, n) ==
    \A q \in 1..Len(s[n].data) :
        offsets(s)[n - 1] + q <= m.byteLength =>
            output(m, s)[offsets(s)[n - 1] + q] = s[n].data[q]

LEMMA OutputBytes ==
    ASSUME NEW S, NEW s \in Seq(S), \A n \in 1..Len(s) : Len(s[n].data) \in Nat \ {0},
           NEW m, m.byteLength \in Nat,
           NEW n \in 1..Len(s)
    PROVE  Bytes(m, s, n)
<1> SUFFICES ASSUME NEW q \in 1..Len(s[n].data), offsets(s)[n - 1] + q <= m.byteLength
             PROVE  output(m, s)[offsets(s)[n - 1] + q] = s[n].data[q]
    BY DEF Bytes
<1> DEFINE offset == offsets(s)
           p == offset[n - 1] + q
           setBy(x) == CHOOSE k \in DOMAIN s : offset[k - 1] < x /\ x <= offset[k]
<1>1. /\ \A i \in 0..Len(s) : offset[i] \in Nat
      /\ \A i \in 1..Len(s) : offset[i] = offset[i - 1] + Len(s[i].data)
    BY OffsetsAreSums DEF Sums
<1>2. \A i, k \in 0..Len(s) : i < k => offset[i] < offset[k]
    BY OffsetsGrow
<1>3. output(m, s) = [x \in 1..m.byteLength |->
          IF x > offset[Len(s)] THEN 0 ELSE s[setBy(x)].data[x - offset[setBy(x) - 1]]]
    BY DEF output
<1> HIDE DEF offset
<1>4. n - 1 \in 0..Len(s) /\ n \in 0..Len(s) /\ Len(s) \in 0..Len(s)
    OBVIOUS
<1>5. offset[n - 1] \in Nat /\ offset[n] \in Nat /\ offset[n] = offset[n - 1] + Len(s[n].data)
      /\ offset[Len(s)] \in Nat /\ offset[n] <= offset[Len(s)]
    BY <1>1, <1>2, <1>4
<1>6. /\ p \in 1..m.byteLength /\ offset[n - 1] < p /\ p <= offset[n] /\ ~(p > offset[Len(s)])
      /\ p - offset[n - 1] = q
    <2>1. offset[n - 1] + q <= m.byteLength
        BY DEF offset
    <2>2. q \in Nat \ {0} /\ q <= Len(s[n].data) /\ Len(s[n].data) \in Nat
        OBVIOUS
    <2>3. PICK a \in Nat : a = offset[n - 1]
        BY <1>5
    <2>4. a + q \in Nat \ {0} /\ a < a + q /\ a + q - a = q /\ a + q <= a + Len(s[n].data)
        BY <2>2, <2>3
    <2>5. p \in Nat \ {0} /\ offset[n - 1] < p /\ p - offset[n - 1] = q /\ p <= offset[n]
        BY <1>5, <2>3, <2>4
    <2>6. p <= m.byteLength
        BY <2>1
    <2> HIDE DEF p
    <2>7. p \in 1..m.byteLength /\ ~(p > offset[Len(s)])
        BY <1>5, <2>5, <2>6
    <2> QED
        BY <2>5, <2>7
<1> HIDE DEF p
<1>7. setBy(p) = n
    <2>1. ASSUME NEW k \in DOMAIN s, offset[k - 1] < p, p <= offset[k] PROVE k = n
        <3>1. k \in 0..Len(s) /\ k - 1 \in 0..Len(s)
            BY <2>1
        <3>2. offset[k] \in Nat /\ offset[k - 1] \in Nat /\ p \in Nat
            BY <1>1, <1>6, <3>1
        <3>3. CASE k < n
            <4>1. k = n - 1 \/ k < n - 1
                BY <3>3
            <4>2. offset[k] = offset[n - 1] \/ offset[k] < offset[n - 1]
                BY <1>2, <1>4, <3>1, <4>1
            <4> QED
                BY <1>5, <1>6, <2>1, <3>2, <4>2
        <3>4. CASE n < k
            <4>1. n = k - 1 \/ n < k - 1
                BY <3>4
            <4>2. offset[n] = offset[k - 1] \/ offset[n] < offset[k - 1]
                BY <1>2, <1>4, <3>1, <4>1
            <4> QED
                BY <1>5, <1>6, <2>1, <3>2, <4>2
        <3> QED
            BY <3>3, <3>4
    <2>2. n \in DOMAIN s
        OBVIOUS
    <2> QED
        BY <1>6, <2>1, <2>2
<1> HIDE DEF setBy
<1>8. output(m, s)[p] = s[n].data[q]
    BY <1>3, <1>6, <1>7
<1> QED
    BY <1>8 DEF p, offset

-------------------------------------------------------------------------------
(* The chunks of packets, and those of the blob that is wanted.              *)
LEMMA ChunkFields ==
    ASSUME NEW s \in Seq(AllChunks), NEW i \in DOMAIN s
    PROVE  \E m \in blobs : s[i].chunkIndex \in 0..(m.chunkCount - 1) /\ s[i] = chunkAt(m, s[i].chunkIndex)
<1>1. s[i] \in AllChunks
    OBVIOUS
<1>2. PICK m \in blobs : s[i] \in chunkBytes(m)
    BY <1>1 DEF AllChunks
<1>3. PICK k \in 0..(m.chunkCount - 1) : s[i] = chunkAt(m, k)
    BY <1>2 DEF chunkBytes
<1>4. s[i].chunkIndex = k
    BY <1>3, ChunkOf
<1> QED
    BY <1>3, <1>4

LEMMA ChunkSizes ==
    ASSUME NEW s \in Seq(AllChunks)
    PROVE  /\ \A i \in DOMAIN s : s[i].chunkIndex \in Nat
           /\ \A i \in DOMAIN s : Len(s[i].data) \in Nat \ {0}
<1> SUFFICES ASSUME NEW i \in DOMAIN s
             PROVE  s[i].chunkIndex \in Nat /\ Len(s[i].data) \in Nat \ {0}
    OBVIOUS
<1>1. PICK m \in blobs : s[i].chunkIndex \in 0..(m.chunkCount - 1) /\ s[i] = chunkAt(m, s[i].chunkIndex)
    BY ChunkFields
<1>2. m.chunkCount \in Nat
    BY BlobFields
<1>3. Len(s[i].data) \in Nat \ {0}
    BY <1>1, ChunkOf
<1> QED
    BY <1>1, <1>2, <1>3

(* Chunks that agree fit. *)
LEMMA AlikeFit ==
    ASSUME NEW s, Alike(s)
    PROVE  Fit(s)
BY DEF Alike, Fit, Agrees, Fits

(* The sorted list of chunks: what it has, and whatever blob they are of, in *)
(* the order of their indices.                                               *)
LEMMA SortedChunks ==
    ASSUME NEW s \in Seq(AllChunks)
    PROVE  /\ sorted(s) \in Seq(AllChunks) /\ Len(sorted(s)) = Len(s)
           /\ \A i \in 1..Len(s) : \E n \in 1..Len(s) : sorted(s)[n] = s[i]
           /\ Alike(s) <=> Alike(sorted(s))
           /\ Fit(s) => Fit(sorted(s))
           /\ Once(sorted(s)) => Once(s)
           /\ \A m, n \in 1..Len(s) :
                 m < n => /\ sorted(s)[m].chunkIndex <= sorted(s)[n].chunkIndex
                          /\ Once(s) => sorted(s)[m].chunkIndex < sorted(s)[n].chunkIndex
<1> DEFINE t == sorted(s)
           D == 1..Len(s)
<1>1. /\ t \in Seq(AllChunks) /\ Len(t) = Len(s)
      /\ \E order : Ordered(s, order)
    BY ChunkSizes, SortedList, Zenon
<1>2. PICK order : Ordered(s, order)
    BY <1>1, Zenon
<1>3. DOMAIN s = D /\ DOMAIN t = D /\ \A i \in D : s[i].chunkIndex \in Nat
    BY <1>1, ChunkSizes
<1>4. /\ \A n \in D : order[n] \in D /\ t[n] = s[order[n]]
      /\ \A i \in D : \E n \in D : order[n] = i
      /\ \A m, n \in D : m < n => comesFirst(s, order[m], order[n]) /\ order[m] # order[n]
    BY <1>2, <1>3 DEF Ordered
<1> HIDE DEF t, D
<1>5. (Alike(s) => Alike(t)) /\ (Fit(s) => Fit(t))
    BY <1>3, <1>4 DEF Alike, Fit
<1>6. ASSUME NEW m \in D, NEW n \in D, m < n
      PROVE  /\ t[m].chunkIndex <= t[n].chunkIndex
             /\ Once(s) => t[m].chunkIndex < t[n].chunkIndex
    <2>1. /\ order[m] \in D /\ order[n] \in D /\ order[m] # order[n]
          /\ t[m] = s[order[m]] /\ t[n] = s[order[n]] /\ comesFirst(s, order[m], order[n])
        BY <1>4, <1>6
    <2>2. Once(s) => s[order[m]].chunkIndex # s[order[n]].chunkIndex
        BY <1>3, <2>1 DEF Once
    <2>3. t[m].chunkIndex \in Nat /\ t[n].chunkIndex \in Nat
        BY <1>3, <2>1
    <2> QED
        BY <2>1, <2>2, <2>3 DEF comesFirst
<1>7. \A i \in D : \E n \in D : t[n] = s[i]
    BY <1>4
<1>8. ASSUME Once(t), NEW i \in D, NEW j \in D, i # j PROVE s[i].chunkIndex # s[j].chunkIndex
    <2>1. PICK m \in D : order[m] = i
        BY <1>4
    <2>2. PICK n \in D : order[n] = j
        BY <1>4
    <2>3. m # n /\ t[m] = s[i] /\ t[n] = s[j]
        BY <1>4, <1>8, <2>1, <2>2
    <2> QED
        BY <1>3, <1>8, <2>3 DEF Once
<1>9. Once(t) => Once(s)
    BY <1>3, <1>8 DEF Once
<1>10. Alike(t) => Alike(s)
    BY <1>3, <1>7 DEF Alike
<1> QED
    BY <1>1, <1>5, <1>6, <1>7, <1>9, <1>10 DEF t, D

(* If no index is missing, the sorted list has each of them: it begins with  *)
(* 0, ends with the last and never skips one.                                *)
LEMMA NoneSkipped ==
    ASSUME NEW s \in Seq(AllChunks), Fit(s), missing(manifest, s) = {}, Len(s) # 0
    PROVE  /\ manifest.chunkCount # 0
           /\ sorted(s)[1].chunkIndex = 0
           /\ sorted(s)[Len(s)].chunkIndex = manifest.chunkCount - 1
           /\ \A n \in 1..(Len(s) - 1) :
                 \/ sorted(s)[n + 1].chunkIndex = sorted(s)[n].chunkIndex
                 \/ sorted(s)[n + 1].chunkIndex = sorted(s)[n].chunkIndex + 1
<1> DEFINE t == sorted(s)
           K == Len(s)
           N == manifest.chunkCount
           index(n) == t[n].chunkIndex
<1>1. K \in Nat \ {0} /\ N \in Nat /\ DOMAIN s = 1..K /\ DOMAIN t = 1..K
    BY BlobsAssumption, BlobFields, SortedChunks
<1>2. \A n \in 1..K : index(n) \in 0..(N - 1)
    <2>1. Fit(t)
        BY SortedChunks
    <2> QED
        BY <1>1, <2>1 DEF Fit, Fits
<1>3. \A m, n \in 1..K : m < n => index(m) <= index(n)
    BY SortedChunks
<1>4. \A k \in 0..(N - 1) : \E n \in 1..K : index(n) = k
    <2> SUFFICES ASSUME NEW k \in 0..(N - 1) PROVE \E n \in 1..K : index(n) = k
        OBVIOUS
    <2>1. PICK i \in 1..K : s[i].chunkIndex = k
        BY <1>1 DEF missing
    <2>2. PICK n \in 1..K : t[n] = s[i]
        BY SortedChunks
    <2> QED
        BY <2>1, <2>2
<1> HIDE DEF t, K, N, index
<1>5. 1 \in 1..K /\ K \in 1..K /\ N # 0 /\ 0 \in 0..(N - 1) /\ N - 1 \in 0..(N - 1)
    BY <1>1, <1>2
<1>6. index(1) = 0
    <2>1. PICK n \in 1..K : index(n) = 0
        BY <1>4, <1>5
    <2>2. n = 1 \/ 1 < n
        BY <1>1
    <2> QED
        BY <1>2, <1>3, <1>5, <2>1, <2>2
<1>7. index(K) = N - 1
    <2>1. PICK n \in 1..K : index(n) = N - 1
        BY <1>4, <1>5
    <2>2. n = K \/ n < K
        BY <1>1
    <2> QED
        BY <1>1, <1>2, <1>3, <1>5, <2>1, <2>2
<1>8. ASSUME NEW n \in 1..(K - 1) PROVE index(n + 1) = index(n) \/ index(n + 1) = index(n) + 1
    <2>1. n \in 1..K /\ n + 1 \in 1..K /\ n < n + 1
        BY <1>1
    <2>2. /\ index(n) \in 0..(N - 1) /\ index(n + 1) \in 0..(N - 1)
          /\ index(n) <= index(n + 1)
        BY <1>2, <1>3, <2>1
    <2>3. CASE index(n) + 1 < index(n + 1)
        <3>1. PICK k \in 1..K : index(k) = index(n) + 1
            BY <1>1, <1>4, <2>2, <2>3
        <3>2. k = n \/ k < n \/ k = n + 1 \/ n + 1 < k
            BY <1>1
        <3>3. (k < n => index(k) <= index(n)) /\ (n + 1 < k => index(n + 1) <= index(k))
            BY <1>3, <2>1
        <3> QED
            BY <1>1, <2>2, <2>3, <3>1, <3>2, <3>3
    <2> QED
        BY <1>1, <2>2, <2>3
<1> QED
    BY <1>5, <1>6, <1>7, <1>8 DEF t, K, N, index

-------------------------------------------------------------------------------
(* With each index once, the sorted list is that of the blob's chunks.       *)
LEMMA OneAfterTheOther ==
    ASSUME NEW s \in Seq(AllChunks), Fit(s), Once(s), missing(manifest, s) = {}
    PROVE  /\ Len(s) = manifest.chunkCount
           /\ \A n \in 1..Len(s) : sorted(s)[n].chunkIndex = n - 1
<1> DEFINE t == sorted(s)
           K == Len(s)
           N == manifest.chunkCount
           index(n) == t[n].chunkIndex
<1>1. K \in Nat /\ N \in Nat /\ \A n \in 1..K : index(n) \in Nat
    <2>1. K \in Nat /\ N \in Nat /\ t \in Seq(AllChunks) /\ DOMAIN t = 1..K
        BY BlobsAssumption, BlobFields, SortedChunks
    <2> HIDE DEF t
    <2> QED
        BY <2>1, ChunkSizes
<1>2. CASE K = 0
    <2>1. DOMAIN s = {}
        BY <1>2
    <2>2. 0 \notin 0..(N - 1)
        BY <2>1 DEF missing
    <2> QED
        BY <1>1, <1>2, <2>2
<1>3. CASE K # 0
    <2> DEFINE T == {n \in 0..(K - 1) : index(n + 1) = n}
    <2>1. 0 \in T
        BY <1>1, <1>3, NoneSkipped
    <2>2. ASSUME NEW n \in 0..((K - 1) - 1), n \in T PROVE n + 1 \in T
        <3>1. n + 1 \in 1..(K - 1) /\ n + 1 \in 1..K /\ (n + 1) + 1 \in 1..K /\ n + 1 < (n + 1) + 1
              /\ n + 1 \in 0..(K - 1)
            BY <1>1, <2>2
        <3>2. index(n + 1) < index((n + 1) + 1)
            BY <3>1, SortedChunks
        <3>3. index((n + 1) + 1) = index(n + 1) \/ index((n + 1) + 1) = index(n + 1) + 1
            BY <1>3, <3>1, NoneSkipped
        <3>4. index(n + 1) = n
            BY <2>2
        <3> HIDE DEF index, K
        <3> QED
            BY <1>1, <3>1, <3>2, <3>3, <3>4
    <2> HIDE DEF T
    <2>3. 0..(K - 1) \subseteq T
        <3>1. K - 1 \in Nat
            BY <1>1, <1>3
        <3> HIDE DEF K
        <3> QED
            BY <2>1, <2>2, <3>1, UpTo
    <2>4. \A n \in 1..K : n - 1 \in 0..(K - 1) /\ (n - 1) + 1 = n
        BY <1>1
    <2>5. \A n \in 1..K : index(n) = n - 1
        BY <2>3, <2>4 DEF T
    <2>6. index(K) = N - 1 /\ K \in 1..K
        BY <1>1, <1>3, NoneSkipped
    <2> HIDE DEF index, K, N
    <2>7. K = N
        BY <1>1, <2>5, <2>6
    <2> QED
        BY <2>5, <2>7 DEF t, K, N, index
<1> QED
    BY <1>2, <1>3

(* A chunk that fits has the bytes from where its index begins to where it   *)
(* ends.                                                                     *)
EndOf(k) == Lesser(k * manifest.chunkSize + manifest.chunkSize, manifest.byteLength)

LEMMA FitSize ==
    ASSUME NEW c, Fits(c)
    PROVE  /\ c.chunkIndex \in 0..(manifest.chunkCount - 1)
           /\ Len(c.data) \in Nat \ {0}
           /\ c.chunkIndex * manifest.chunkSize \in Nat
           /\ c.chunkIndex * manifest.chunkSize + Len(c.data) = EndOf(c.chunkIndex)
<1> DEFINE k == c.chunkIndex
<1>1. k \in 0..(manifest.chunkCount - 1) /\ Len(c.data) = Len(chunkAt(manifest, k).data)
    BY DEF Fits
<1>2. manifest \in blobs
    BY BlobsAssumption
<1> HIDE DEF k
<1>3. /\ Len(chunkAt(manifest, k).data) \in Nat \ {0}
      /\ k * manifest.chunkSize \in Nat
      /\ k * manifest.chunkSize + Len(chunkAt(manifest, k).data) = EndOf(k)
    BY <1>1, <1>2, ChunkOf DEF EndOf
<1> QED
    BY <1>1, <1>3 DEF k

(* Where an index ends the next one begins; the last ends with the blob.     *)
LEMMA Ends ==
    ASSUME NEW k \in 0..(manifest.chunkCount - 1)
    PROVE  /\ EndOf(k) \in Nat
           /\ k + 1 \in 0..(manifest.chunkCount - 1) => EndOf(k) = (k + 1) * manifest.chunkSize
           /\ k = manifest.chunkCount - 1 => EndOf(k) = manifest.byteLength
<1> DEFINE z == manifest.chunkSize
           l == manifest.byteLength
           N == manifest.chunkCount
<1>1. /\ z \in Nat \ {0} /\ l \in Nat /\ N \in Nat /\ l <= N * z
      /\ \A i \in 0..(N - 1) : i * z \in Nat /\ i * z < l
    BY BlobsAssumption, BlobFields
<1>2. EndOf(k) = Lesser(k * z + z, l) /\ k \in 0..(N - 1)
    BY DEF EndOf
<1> HIDE DEF z, l, N
<1>3. k * z \in Nat /\ (k + 1) * z = k * z + z
    BY <1>1, <1>2, SMT
<1>4. CASE k + 1 \in 0..(N - 1)
    <2>1. (k + 1) * z < l /\ k # N - 1
        BY <1>1, <1>2, <1>4
    <2> QED
        BY <1>1, <1>2, <1>3, <2>1 DEF Lesser, z, l, N
<1>5. CASE k + 1 \notin 0..(N - 1)
    <2>1. k + 1 = N
        BY <1>1, <1>2, <1>5
    <2>2. l <= (k + 1) * z
        BY <1>1, <2>1
    <2> QED
        BY <1>1, <1>2, <1>3, <1>5, <2>2 DEF Lesser, z, l, N
<1> QED
    BY <1>4, <1>5

(* With each index once, the offset after n of them is where the next one    *)
(* begins.                                                                   *)
LEMMA OffsetsOfBlob ==
    ASSUME NEW t \in Seq(AllChunks), Fit(t),
           \A n \in 1..Len(t) : t[n].chunkIndex = n - 1,
           NEW n \in 1..Len(t)
    PROVE  offsets(t)[n - 1] = (n - 1) * manifest.chunkSize /\ offsets(t)[n] = EndOf(n - 1)
<1> DEFINE z == manifest.chunkSize
           N == manifest.chunkCount
           K == Len(t)
           offset == offsets(t)
           T == {k \in 0..(K - 1) : offset[k] = k * z /\ offset[k + 1] = EndOf(k)}
<1>1. z \in Nat \ {0} /\ N \in Nat /\ K \in Nat \ {0} /\ DOMAIN t = 1..K
    BY BlobsAssumption, BlobFields
<1>2. Sums(t, offset)
    BY ChunkSizes, OffsetsAreSums
<1>3. offset[0] = 0 /\ \A k \in 1..K : offset[k] = offset[k - 1] + Len(t[k].data)
    BY <1>2 DEF Sums
<1>4. ASSUME NEW k \in 0..(K - 1)
      PROVE  /\ k \in 0..(N - 1) /\ k * z \in Nat
             /\ k * z + Len(t[k + 1].data) = EndOf(k)
             /\ offset[k + 1] = offset[k] + Len(t[k + 1].data)
    <2>1. k + 1 \in 1..K /\ (k + 1) - 1 = k
        BY <1>1
    <2>2. Fits(t[k + 1]) /\ t[k + 1].chunkIndex = k
        BY <1>1, <2>1 DEF Fit
    <2>3. /\ k \in 0..(N - 1) /\ k * z \in Nat
          /\ k * z + Len(t[k + 1].data) = EndOf(k)
        BY <2>2, FitSize
    <2>4. offset[k + 1] = offset[k] + Len(t[k + 1].data)
        BY <1>3, <2>1
    <2> QED
        BY <2>3, <2>4
<1> HIDE DEF offset, z, N, K
<1>5. 0 \in T
    <2>1. 0 \in 0..(K - 1) /\ 0 * z = 0
        BY <1>1
    <2> QED
        BY <1>3, <1>4, <2>1
<1>6. ASSUME NEW k \in 0..((K - 1) - 1), k \in T PROVE k + 1 \in T
    <2>1. k + 1 \in 0..(K - 1) /\ k \in 0..(K - 1)
        BY <1>1
    <2>2. offset[k + 1] = EndOf(k) /\ k \in 0..(N - 1) /\ k + 1 \in 0..(N - 1)
        BY <1>4, <1>6, <2>1
    <2>3. offset[k + 1] = (k + 1) * z
        BY <2>2, Ends DEF z, N
    <2>4. offset[(k + 1) + 1] = EndOf(k + 1)
        BY <1>4, <2>1, <2>3
    <2> QED
        BY <2>1, <2>3, <2>4
<1> HIDE DEF T
<1>7. 0..(K - 1) \subseteq T
    <2>1. K - 1 \in Nat
        BY <1>1
    <2> QED
        BY <1>5, <1>6, <2>1, UpTo
<1>8. n - 1 \in 0..(K - 1) /\ (n - 1) + 1 = n
    BY <1>1 DEF K
<1>9. n - 1 \in T
    BY <1>7, <1>8
<1> QED
    BY <1>8, <1>9 DEF T, z, offset

(* With an index twice, the data of the chunks run over the end of the blob. *)
LEMMA TwiceTooLong ==
    ASSUME NEW s \in Seq(AllChunks), Fit(s), missing(manifest, s) = {}, Len(s) # 0,
           ~(offsets(sorted(s))[Len(s)] > manifest.byteLength)
    PROVE  \A n \in 1..Len(s) : sorted(s)[n].chunkIndex = n - 1
<1> DEFINE t == sorted(s)
           K == Len(s)
           N == manifest.chunkCount
           z == manifest.chunkSize
           index(n) == t[n].chunkIndex
           size(n) == Len(t[n].data)
           offset == offsets(t)
           Exact(n) == offset[n] = EndOf(n - 1) /\ \A k \in 1..n : index(k) = k - 1
           T == {n \in 0..(K - 1) : offset[n + 1] > EndOf(index(n + 1)) \/ Exact(n + 1)}
<1>1. /\ K \in Nat \ {0} /\ N \in Nat /\ z \in Nat \ {0}
      /\ t \in Seq(AllChunks) /\ Len(t) = K /\ Fit(t)
    BY BlobsAssumption, BlobFields, SortedChunks
<1>2. /\ index(1) = 0 /\ index(K) = N - 1
      /\ \A n \in 1..(K - 1) : index(n + 1) = index(n) \/ index(n + 1) = index(n) + 1
    BY NoneSkipped
<1>3. Sums(t, offset) /\ \A n \in 0..K : offset[n] \in Nat
    BY <1>1, ChunkSizes, OffsetsAreSums
<1>4. offset[0] = 0 /\ \A n \in 1..K : offset[n] = offset[n - 1] + size(n)
    BY <1>1, <1>3 DEF Sums
<1>5. ASSUME NEW n \in 1..K
      PROVE  /\ index(n) \in 0..(N - 1) /\ size(n) \in Nat \ {0} /\ index(n) * z \in Nat
             /\ index(n) * z + size(n) = EndOf(index(n))
    <2>1. Fits(t[n])
        BY <1>1 DEF Fit
    <2> QED
        BY <2>1, FitSize
<1>6. ASSUME NEW n \in 1..K PROVE EndOf(index(n)) \in Nat
    BY <1>5, Ends
<1>7. ASSUME NEW n \in 1..(K - 1), index(n + 1) = index(n) + 1
      PROVE  EndOf(index(n)) + size(n + 1) = EndOf(index(n + 1))
    <2>1. n \in 1..K /\ n + 1 \in 1..K
        BY <1>1
    <2>2. EndOf(index(n)) = index(n + 1) * z
        BY <1>5, <1>7, <2>1, Ends
    <2> QED
        BY <1>5, <2>1, <2>2
<1> HIDE DEF t, K, N, z, index, size, offset
<1>8. 0 \in T
    <2>1. 1 \in 1..K /\ 0 \in 0..(K - 1) /\ 1 - 1 = 0 /\ 0 + 1 = 1 /\ 0 * z = 0
        BY <1>1
    <2>2. offset[1] = EndOf(0)
        <3>1. offset[1] = offset[0] + size(1)
            BY <1>4, <2>1
        <3> QED
            BY <1>2, <1>4, <1>5, <2>1, <3>1
    <2>3. Exact(1)
        BY <1>2, <2>1, <2>2
    <2> QED
        BY <2>1, <2>3
<1>9. ASSUME NEW n \in 0..((K - 1) - 1), n \in T PROVE n + 1 \in T
    <2> DEFINE m == n + 1
    <2>1. m \in 1..(K - 1) /\ m \in 1..K /\ m + 1 \in 1..K /\ m \in 0..(K - 1) /\ m \in 0..K
          /\ (m + 1) - 1 = m /\ m \in Nat
        BY <1>1
    <2>2. offset[m] > EndOf(index(m)) \/ Exact(m)
        BY <1>9
    <2> HIDE DEF m
    <2>3. offset[m + 1] = offset[m] + size(m + 1) /\ offset[m] \in Nat /\ size(m + 1) \in Nat \ {0}
        BY <1>3, <1>4, <1>5, <2>1
    <2>4. offset[m] >= EndOf(index(m)) /\ EndOf(index(m)) \in Nat
        <3>1. ASSUME Exact(m) PROVE offset[m] = EndOf(index(m))
            <4>1. m \in 1..m
                BY <2>1
            <4>2. index(m) = m - 1
                BY <3>1, <4>1
            <4> QED
                BY <3>1, <4>2
        <3>2. EndOf(index(m)) \in Nat
            BY <1>6, <2>1
        <3> HIDE DEF Exact
        <3> QED
            BY <2>2, <2>3, <3>1, <3>2
    <2>5. CASE index(m + 1) = index(m)
        <3>1. offset[m + 1] > EndOf(index(m + 1))
            BY <2>3, <2>4, <2>5
        <3> QED
            BY <2>1, <3>1 DEF m
    <2>6. CASE index(m + 1) = index(m) + 1
        <3>1. EndOf(index(m)) + size(m + 1) = EndOf(index(m + 1))
            BY <1>7, <2>1, <2>6
        <3>2. CASE offset[m] > EndOf(index(m))
            <4>1. offset[m + 1] > EndOf(index(m + 1))
                BY <2>3, <2>4, <3>1, <3>2
            <4> QED
                BY <2>1, <4>1 DEF m
        <3>3. CASE Exact(m)
            <4>1. m \in 1..m
                BY <2>1
            <4>2. index(m) = m - 1 /\ offset[m] = EndOf(m - 1)
                BY <3>3, <4>1
            <4>3. index(m + 1) = m
                BY <2>1, <2>6, <4>2
            <4>4. offset[m + 1] = EndOf(m)
                BY <2>3, <3>1, <4>2, <4>3
            <4>5. \A k \in 1..(m + 1) : index(k) = k - 1
                <5>1. \A k \in 1..(m + 1) : k \in 1..m \/ k = m + 1
                    BY <2>1
                <5> QED
                    BY <2>1, <3>3, <4>3, <5>1
            <4>6. Exact(m + 1)
                BY <2>1, <4>4, <4>5
            <4> QED
                BY <2>1, <4>6 DEF m
        <3> QED
            BY <2>2, <3>2, <3>3
    <2> QED
        BY <1>2, <2>1, <2>5, <2>6
<1>10. K - 1 \in T
    <2>1. K - 1 \in Nat /\ K - 1 \in 0..(K - 1)
        BY <1>1
    <2> HIDE DEF T
    <2> QED
        BY <1>8, <1>9, <2>1, UpTo
<1>11. (K - 1) + 1 = K /\ K \in 1..K /\ K \in 0..K
    BY <1>1
<1>12. EndOf(index(K)) = manifest.byteLength /\ manifest.byteLength \in Nat
    <2>1. index(K) \in 0..(N - 1)
        BY <1>5, <1>11
    <2>2. EndOf(index(K)) = manifest.byteLength
        BY <1>2, <2>1, Ends DEF N
    <2> QED
        BY <2>2, BlobsAssumption, BlobFields
<1>13. offset[K] \in Nat /\ ~(offset[K] > manifest.byteLength)
    BY <1>3, <1>11 DEF offset, K, t
<1>14. Exact(K)
    BY <1>10, <1>11, <1>12, <1>13
<1> QED
    BY <1>14 DEF K, index, t

LEMMA AlikeData ==
    ASSUME NEW c, Agrees(c), NEW q \in 1..Len(c.data)
    PROVE  c.data[q] = manifest.sha256[c.chunkIndex * manifest.chunkSize + q]
<1> DEFINE k == c.chunkIndex
           d == chunkAt(manifest, k)
<1>1. k \in 0..(manifest.chunkCount - 1) /\ c.data = d.data /\ manifest \in blobs
    BY BlobsAssumption DEF Agrees
<1> HIDE DEF k
<1>2. d.data = [x \in 1..Len(d.data) |-> manifest.sha256[k * manifest.chunkSize + x]]
    BY <1>1, ChunkOf
<1>3. d.data[q] = manifest.sha256[k * manifest.chunkSize + q]
    BY <1>1, <1>2
<1> QED
    BY <1>1, <1>3 DEF k

LEMMA WholeAssembles ==
    ASSUME NEW s \in Seq(AllChunks), Alike(s), Once(s), missing(manifest, s) = {}
    PROVE  reassembleChunks(manifest, s).type = "ok"
<1> DEFINE t == sorted(s)
           N == manifest.chunkCount
           z == manifest.chunkSize
           l == manifest.byteLength
           offset == offsets(t)
<1>1. /\ t \in Seq(AllChunks) /\ Len(t) = N /\ Alike(t) /\ Fit(t)
      /\ \A n \in 1..N : t[n].chunkIndex = n - 1
    BY SortedChunks, OneAfterTheOther, AlikeFit
<1>2. /\ z \in Nat \ {0} /\ l \in Nat /\ N \in Nat /\ l <= N * z
      /\ manifest.sha256 \in Seq(Byte) /\ Len(manifest.sha256) = l
    BY BlobsAssumption, BlobFields
<1>3. \A n \in 1..N : offset[n - 1] = (n - 1) * z /\ offset[n] = EndOf(n - 1)
    BY <1>1, OffsetsOfBlob
<1>4. \A n \in 1..Len(t) : Len(t[n].data) \in Nat \ {0}
    BY <1>1, ChunkSizes
<1>5. ASSUME NEW n \in 1..N, NEW q \in 1..Len(t[n].data)
      PROVE  t[n].data[q] = manifest.sha256[(n - 1) * z + q]
    <2>1. n \in DOMAIN t /\ t[n].chunkIndex = n - 1
        BY <1>1
    <2>2. Agrees(t[n])
        BY <1>1, <2>1 DEF Alike
    <2> QED
        BY <2>1, <2>2, AlikeData
<1>6. Sums(t, offset)
    BY <1>1, <1>4, OffsetsAreSums
<1> HIDE DEF t, N, z, l, offset
<1>7. offset[N] = l
    <2>1. CASE N = 0
        <3>1. offset[0] = 0
            BY <1>6 DEF Sums
        <3>2. l = 0
            BY <1>2, <2>1
        <3> QED
            BY <2>1, <3>1, <3>2
    <2>2. CASE N # 0
        <3>1. N \in 1..N /\ N - 1 \in 0..(N - 1)
            BY <1>2, <2>2
        <3>2. EndOf(N - 1) = l
            BY <3>1, Ends DEF N, l
        <3> QED
            BY <1>3, <3>1, <3>2
    <2> QED
        BY <2>1, <2>2
<1>8. ASSUME NEW p \in 1..l PROVE output(manifest, t)[p] = manifest.sha256[p]
    <2>1. p \in 1..offsets(t)[Len(t)]
        BY <1>1, <1>7 DEF offset
    <2>2. PICK n \in 1..Len(t) : \E q \in 1..Len(t[n].data) : p = offsets(t)[n - 1] + q
        <3>1. t \in Seq(AllChunks)
            BY <1>1
        <3> QED
            BY <1>4, <2>1, <3>1, Covered
    <2>3. PICK q \in 1..Len(t[n].data) : p = offsets(t)[n - 1] + q
        BY <2>2
    <2>4. manifest.byteLength \in Nat /\ offsets(t)[n - 1] + q <= manifest.byteLength
        BY <1>2, <2>3 DEF l
    <2>5. output(manifest, t)[p] = t[n].data[q]
        <3>1. Bytes(manifest, t, n)
            BY <1>1, <1>4, <2>4, OutputBytes, Zenon
        <3> QED
            BY <2>3, <2>4, <3>1 DEF Bytes
    <2>6. n \in 1..N
        BY <1>1
    <2>7. t[n].data[q] = manifest.sha256[(n - 1) * z + q]
        BY <1>5, <2>3, <2>6
    <2>8. p = (n - 1) * z + q
        BY <1>3, <2>3, <2>6 DEF offset
    <2> QED
        BY <2>5, <2>7, <2>8
<1>9. output(manifest, t) = manifest.sha256
    <2>1. output(manifest, t) = [p \in 1..l |-> output(manifest, t)[p]]
        BY DEF output, l
    <2>2. manifest.sha256 = [p \in 1..l |-> manifest.sha256[p]]
        BY <1>2
    <2> QED
        BY <1>8, <2>1, <2>2
<1>10. ~(offset[Len(t)] > l)
    BY <1>1, <1>2, <1>7
<1>11. ~(offsets(sorted(s))[Len(sorted(s))] > manifest.byteLength)
    BY <1>10 DEF t, l, offset
<1>12. output(manifest, sorted(s)) = manifest.sha256
    BY <1>9 DEF t
<1> QED
    BY <1>11, <1>12 DEF reassembleChunks

(* And of chunks that fit, only then: each begins where the blob's chunk of  *)
(* its index does, so the hash tells that its bytes are the blob's.          *)
LEMMA OnlyWholeAssembles ==
    ASSUME NEW s \in Seq(AllChunks), Fit(s), reassembleChunks(manifest, s).type = "ok"
    PROVE  Alike(s) /\ Once(s) /\ missing(manifest, s) = {}
<1> DEFINE t == sorted(s)
           K == Len(s)
           N == manifest.chunkCount
           z == manifest.chunkSize
           l == manifest.byteLength
           offset == offsets(t)
<1>1. /\ missing(manifest, s) = {}
      /\ ~(offset[Len(t)] > l)
      /\ output(manifest, t) = manifest.sha256
    BY DEF reassembleChunks
<1>2. /\ t \in Seq(AllChunks) /\ Len(t) = K /\ K \in Nat /\ DOMAIN t = 1..K /\ Fit(t)
      /\ Once(t) => Once(s)
      /\ Alike(t) => Alike(s)
    BY SortedChunks
<1>3. \A n \in 1..K : t[n].chunkIndex = n - 1
    <2>1. CASE K = 0
        BY <2>1
    <2>2. CASE K # 0
        BY <1>1, <1>2, <2>2, TwiceTooLong
    <2> QED
        BY <2>1, <2>2
<1>4. l \in Nat
    BY BlobsAssumption, BlobFields
<1>5. /\ \A n \in 1..K : Len(t[n].data) \in Nat \ {0}
      /\ \A n \in 0..K : offset[n] \in Nat
      /\ \A n, k \in 0..K : n < k => offset[n] < offset[k]
      /\ Sums(t, offset)
    BY <1>2, ChunkSizes, OffsetsAreSums, OffsetsGrow
<1>6. \A n \in 1..K : offset[n - 1] = (n - 1) * z
    BY <1>2, <1>3, OffsetsOfBlob
<1>7. \A n \in 1..K : Fits(t[n])
    BY <1>2 DEF Fit
<1> HIDE DEF t, offset, K, l, z, N
<1>8. ASSUME NEW n \in 1..K
      PROVE  Agrees(t[n])
    <2> DEFINE c == chunkAt(manifest, n - 1)
    <2>1. /\ n - 1 \in 0..(N - 1) /\ Len(t[n].data) = Len(c.data)
          /\ t[n].chunkIndex = n - 1
        BY <1>3, <1>7 DEF Fits, N
    <2>2. c.data = [q \in 1..Len(c.data) |-> manifest.sha256[(n - 1) * z + q]]
        BY <2>1, BlobsAssumption, ChunkOf DEF N, z
    <2>3. ASSUME NEW q \in 1..Len(t[n].data)
          PROVE  t[n].data[q] = manifest.sha256[(n - 1) * z + q]
        <3>1. offset[n - 1] + q <= l
            <4>1. /\ n - 1 \in 0..K /\ n \in 0..K /\ K \in 0..K /\ (n < K \/ n = K)
                BY <1>2
            <4>2. /\ offset[n - 1] \in Nat /\ offset[n] \in Nat /\ offset[K] \in Nat
                  /\ (offset[n] < offset[K] \/ offset[n] = offset[K])
                  /\ ~(offset[K] > l)
                BY <1>1, <1>2, <1>5, <4>1
            <4>3. offset[n] = offset[n - 1] + Len(t[n].data) /\ Len(t[n].data) \in Nat
                BY <1>2, <1>5 DEF Sums
            <4> QED
                BY <1>4, <4>2, <4>3
        <3>2. Bytes(manifest, t, n)
            BY <1>2, <1>4, <1>5, OutputBytes DEF l
        <3>3. output(manifest, t)[offset[n - 1] + q] = t[n].data[q]
            BY <3>1, <3>2 DEF Bytes, offset, l
        <3> QED
            BY <1>1, <1>6, <3>3
    <2>4. PICK m \in blobs : /\ t[n].chunkIndex \in 0..(m.chunkCount - 1)
                             /\ t[n] = chunkAt(m, t[n].chunkIndex)
        BY <1>2, ChunkFields
    <2>5. t[n].data = [q \in 1..Len(t[n].data) |->
                         m.sha256[t[n].chunkIndex * m.chunkSize + q]]
        BY <2>4, ChunkOf
    <2>6. t[n].data = [q \in 1..Len(t[n].data) |-> t[n].data[q]]
        <3>1. \A f, i, d, e : f = [q \in 1..i |-> d[e + q]] => f = [q \in 1..i |-> f[q]]
            OBVIOUS
        <3> QED
            BY <2>5, <3>1
    <2>7. t[n].data = [q \in 1..Len(t[n].data) |-> manifest.sha256[(n - 1) * z + q]]
        BY <2>3, <2>6
    <2>8. t[n].data = c.data
        BY <2>1, <2>2, <2>7
    <2> QED
        BY <2>1, <2>8 DEF Agrees, N
<1>9. Alike(t)
    BY <1>2, <1>8 DEF Alike
<1>10. Once(t)
    BY <1>2, <1>3 DEF Once
<1> QED
    BY <1>1, <1>2, <1>9, <1>10

-------------------------------------------------------------------------------
(* As many chunks as the blob has, each of another index of it, are all.     *)
LEMMA EnoughAreAll ==
    ASSUME NEW s \in Seq(AllChunks), Alike(s), Once(s), Len(s) = manifest.chunkCount
    PROVE  missing(manifest, s) = {}
<1> DEFINE N == manifest.chunkCount
           index == [i \in 1..N |-> s[i].chunkIndex]
<1>1. N \in Nat /\ DOMAIN s = 1..N
    BY BlobsAssumption, BlobFields
<1>2. \A i \in 1..N : s[i].chunkIndex \in 0..(N - 1)
    BY <1>1 DEF Alike, Agrees
<1>3. \A i, j \in 1..N : i # j => s[i].chunkIndex # s[j].chunkIndex
    BY <1>1 DEF Once
<1>4. index \in Injection(1..N, 0..(N - 1))
    BY <1>2, <1>3 DEF Injection, IsInjective
<1>5. /\ IsFiniteSet(0..(N - 1)) /\ Cardinality(1..N) = Cardinality(0..(N - 1))
    <2>1. /\ IsFiniteSet(0..(N - 1))
          /\ Cardinality(0..(N - 1)) = IF 0 > N - 1 THEN 0 ELSE N - 1 - 0 + 1
          /\ Cardinality(1..N) = IF 1 > N THEN 0 ELSE N - 1 + 1
        <3>1. 0 \in Int /\ 1 \in Int /\ N \in Int /\ N - 1 \in Int
            BY <1>1
        <3> HIDE DEF N
        <3> QED
            BY <3>1, FS_Interval
    <2> HIDE DEF N
    <2> QED
        BY <1>1, <2>1
<1>6. index \in Surjection(1..N, 0..(N - 1))
    <2> HIDE DEF index, N
    <2> QED
        BY <1>4, <1>5, FS_Injection
<1>7. \A k \in 0..(N - 1) : \E i \in 1..N : index[i] = k
    BY <1>6 DEF Surjection
<1> QED
    BY <1>1, <1>7 DEF missing

(* The chunks that a nack names, in some order, after those that came.       *)
LEMMA NamedComplete ==
    ASSUME NEW s \in Seq(AllChunks), Alike(s), Once(s),
           NEW order \in SetToSeqs(missing(manifest, s)),
           NEW r, r = s \o [k \in DOMAIN order |-> chunkAt(manifest, order[k])]
    PROVE  r \in Seq(AllChunks) /\ Alike(r) /\ Once(r) /\ missing(manifest, r) = {}
<1> DEFINE lost == missing(manifest, s)
           N == manifest.chunkCount
           C == Cardinality(lost)
           K == Len(s)
           u == [k \in 1..C |-> chunkAt(manifest, order[k])]
<1>1. manifest \in blobs /\ N \in Nat /\ K \in Nat /\ DOMAIN s = 1..K
    BY BlobsAssumption, BlobFields
<1>2. IsFiniteSet(lost) /\ C \in Nat /\ Cardinality(1..C) = C
    <2>1. lost \subseteq 0..(N - 1)
        BY DEF missing
    <2>2. IsFiniteSet(lost)
        <3>1. 0 \in Int /\ N - 1 \in Int
            BY <1>1
        <3>2. IsFiniteSet(0..(N - 1))
            BY <3>1, FS_Interval
        <3> QED
            BY <2>1, <3>2, FS_Subset
    <2>3. C \in Nat
        BY <2>2, FS_CardinalityType
    <2> HIDE DEF C
    <2>4. Cardinality(1..C) = IF 1 > C THEN 0 ELSE C - 1 + 1
        BY <2>3, FS_Interval
    <2> QED
        BY <2>2, <2>3, <2>4
<1>3. order \in [1..C -> lost] /\ \A i, j \in 1..C : i # j => order[i] # order[j]
    BY DEF SetToSeqs
<1>4. \A k \in lost : \E i \in 1..C : order[i] = k
    <2>1. order \in Injection(1..C, lost)
        BY <1>3 DEF Injection, IsInjective
    <2>2. order \in Surjection(1..C, lost)
        <3>1. Cardinality(1..C) = Cardinality(lost)
            BY <1>2
        <3> HIDE DEF C, lost
        <3> QED
            BY <1>2, <2>1, <3>1, FS_Injection
    <2> QED
        BY <2>2 DEF Surjection
<1>5. \A k \in lost : k \in 0..(N - 1) /\ \A i \in 1..K : s[i].chunkIndex # k
    BY <1>1 DEF missing
<1>6. \A k \in 0..(N - 1) : k \notin lost => \E i \in 1..K : s[i].chunkIndex = k
    BY <1>1 DEF missing
<1>7. r = s \o u
    BY <1>3
<1> HIDE DEF lost, C
<1>8. \A k \in 1..C : /\ u[k] = chunkAt(manifest, order[k]) /\ u[k] \in AllChunks
                      /\ Agrees(u[k]) /\ u[k].chunkIndex = order[k]
                      /\ order[k] \in lost
    <2> SUFFICES ASSUME NEW k \in 1..C
                 PROVE  /\ u[k] = chunkAt(manifest, order[k]) /\ u[k] \in AllChunks
                        /\ Agrees(u[k]) /\ u[k].chunkIndex = order[k]
                        /\ order[k] \in lost
        OBVIOUS
    <2>1. u[k] = chunkAt(manifest, order[k]) /\ order[k] \in lost /\ order[k] \in 0..(N - 1)
        BY <1>3, <1>5
    <2>2. u[k] \in AllChunks
        BY <1>1, <2>1 DEF AllChunks, chunkBytes
    <2>3. u[k].chunkIndex = order[k]
        BY <2>1 DEF chunkAt
    <2>4. Agrees(u[k])
        BY <2>1, <2>3 DEF Agrees, N
    <2> QED
        BY <2>1, <2>2, <2>3, <2>4
<1>9. u \in Seq(AllChunks) /\ Len(u) = C
    BY <1>2, <1>8
<1> HIDE DEF u
<1>10. /\ r \in Seq(AllChunks) /\ Len(r) = K + C /\ DOMAIN r = 1..(K + C)
       /\ \A i \in 1..K : r[i] = s[i]
       /\ \A k \in 1..C : r[K + k] = u[k]
    <2>1. r \in Seq(AllChunks) /\ Len(r) = K + C
        <3>1. \A a, c \in Seq(AllChunks) :
                a \o c \in Seq(AllChunks) /\ Len(a \o c) = Len(a) + Len(c)
            OBVIOUS
        <3> QED
            BY <1>7, <1>9, <3>1
    <2>2. DOMAIN r = 1..(K + C)
        BY <2>1
    <2>3. ASSUME NEW i \in 1..K PROVE r[i] = s[i]
        BY <1>1, <1>2, <1>7, <1>9
    <2>4. ASSUME NEW k \in 1..C PROVE r[K + k] = u[k]
        <3>1. K + k \in 1..(K + C) /\ ~(K + k <= K) /\ K + k - K = k
            <4> HIDE DEF K
            <4> QED
                BY <1>1, <1>2
        <3> QED
            BY <1>2, <1>7, <1>9, <3>1
    <2> QED
        BY <2>1, <2>2, <2>3, <2>4
<1> HIDE DEF K, N
<1>11. \A i \in 1..(K + C) : i \in 1..K \/ \E k \in 1..C : i = K + k
    <2> SUFFICES ASSUME NEW i \in 1..(K + C), i \notin 1..K PROVE i - K \in 1..C /\ i = K + (i - K)
        OBVIOUS
    <2> QED
        BY <1>1, <1>2
<1>12. Alike(r)
    <2> SUFFICES ASSUME NEW i \in 1..(K + C) PROVE Agrees(r[i])
        BY <1>10 DEF Alike
    <2>1. CASE i \in 1..K
        BY <1>1, <1>10, <2>1 DEF Alike
    <2>2. CASE \E k \in 1..C : i = K + k
        BY <1>8, <1>10, <2>2
    <2> QED
        BY <1>11, <2>1, <2>2
<1>13. Once(r)
    <2>1. ASSUME NEW i \in 1..K, NEW k \in 1..C PROVE r[i].chunkIndex # r[K + k].chunkIndex
        <3>1. s[i].chunkIndex # order[k]
            BY <1>5, <1>8
        <3>2. r[i] = s[i] /\ r[K + k] = u[k] /\ u[k].chunkIndex = order[k]
            BY <1>8, <1>10
        <3> QED
            BY <3>1, <3>2
    <2>2. ASSUME NEW k \in 1..C, NEW j \in 1..C, K + k # K + j
          PROVE  r[K + k].chunkIndex # r[K + j].chunkIndex
        <3>1. k # j
            BY <2>2
        <3>2. order[k] # order[j]
            BY <1>3, <3>1
        <3>3. /\ r[K + k] = u[k] /\ u[k].chunkIndex = order[k]
              /\ r[K + j] = u[j] /\ u[j].chunkIndex = order[j]
            BY <1>8, <1>10
        <3> QED
            BY <3>2, <3>3
    <2>3. ASSUME NEW i \in 1..K, NEW j \in 1..K, i # j PROVE r[i].chunkIndex # r[j].chunkIndex
        BY <1>1, <1>10, <2>3 DEF Once
    <2> SUFFICES ASSUME NEW i \in 1..(K + C), NEW j \in 1..(K + C), i # j
                 PROVE  r[i].chunkIndex # r[j].chunkIndex
        BY <1>10 DEF Once
    <2>4. CASE i \in 1..K /\ j \in 1..K
        BY <2>3, <2>4
    <2>5. CASE i \in 1..K /\ \E k \in 1..C : j = K + k
        BY <2>1, <2>5
    <2>6. CASE j \in 1..K /\ \E k \in 1..C : i = K + k
        BY <2>1, <2>6
    <2>7. CASE (\E k \in 1..C : i = K + k) /\ \E k \in 1..C : j = K + k
        BY <2>2, <2>7
    <2> QED
        BY <1>11, <2>4, <2>5, <2>6, <2>7
<1>14. \A i \in 1..K : i \in 1..(K + C)
    BY <1>1, <1>2
<1>15. \A k \in 1..C : K + k \in 1..(K + C)
    BY <1>1, <1>2
<1>16. ASSUME NEW k \in 0..(N - 1) PROVE \E i \in DOMAIN r : r[i].chunkIndex = k
    <2>1. CASE k \in lost
        <3>1. PICK i \in 1..C : order[i] = k
            BY <1>4, <2>1
        <3>2. K + i \in DOMAIN r /\ r[K + i].chunkIndex = k
            BY <1>8, <1>10, <1>15, <3>1
        <3> QED
            BY <3>2
    <2>2. CASE k \notin lost
        <3>1. PICK i \in 1..K : s[i].chunkIndex = k
            BY <1>6, <2>2
        <3>2. i \in DOMAIN r /\ r[i] = s[i]
            BY <1>10, <1>14
        <3> QED
            BY <3>1, <3>2
    <2> QED
        BY <2>1, <2>2
<1>17. missing(manifest, r) = {}
    BY <1>16 DEF missing, N
<1> QED
    BY <1>10, <1>12, <1>13, <1>17

(* Where the chunks collected come from. *)
LEMMA CollectedChunks ==
    ASSUME StoreInv
    PROVE  collected \in Seq(AllChunks)
<1>1. accepted \in Seq(Seen)
    BY DEF StoreInv
<1>2. PICK n \in Nat : n = Len(accepted) /\ DOMAIN accepted = 1..n
    BY <1>1
<1>3. ASSUME NEW i \in 1..n PROVE carries[accepted[i].nonce] \in AllChunks
    <2>1. accepted[i] \in Seen
        BY <1>1, <1>2
    <2>2. accepted[i].nonce \in Nonces
        BY <2>1 DEF Seen
    <2> QED
        BY <2>2, BlobsAssumption DEF AllChunks
<1>4. collected = [i \in 1..n |-> carries[accepted[i].nonce]]
    BY <1>2 DEF collected
<1> QED
    BY <1>2, <1>3, <1>4

(* One chunk of each index that agrees with the blob make it whole, and of   *)
(* chunks that fit nothing else does, whatever bytes the blobs have; until   *)
(* then a nack names the indices that make it whole, in whatever order they  *)
(* come.                                                                     *)
THEOREM BlobWhole == Spec => []BlobWholeOrNamed
<1>1. ASSUME StoreInv PROVE BlobWholeOrNamed
    <2> DEFINE s == collected
               answer == reassembleChunks(manifest, s)
               allThere == AllAgree /\ EachOnce /\ Len(s) = manifest.chunkCount
    <2>1. s \in Seq(AllChunks)
        BY <1>1, CollectedChunks
    <2>2. /\ AllAgree <=> Alike(s)
          /\ EachOnce <=> Once(s)
          /\ (\A i \in DOMAIN s : Fits(s[i])) <=> Fit(s)
        BY DEF AllAgree, EachOnce, Alike, Once, Fit
    <2> HIDE DEF s
    <2>3. answer.type = "ok" /\ Fit(s) => Alike(s) /\ Once(s) /\ Len(s) = manifest.chunkCount
        BY <2>1, OnlyWholeAssembles, OneAfterTheOther
    <2>4. Alike(s) /\ Once(s) /\ Len(s) = manifest.chunkCount => answer.type = "ok"
        BY <2>1, EnoughAreAll, WholeAssembles
    <2>5. answer.type = "missing" => answer.missing = missing(manifest, s)
        BY DEF reassembleChunks
    <2>6. ASSUME Alike(s), Once(s), NEW order \in SetToSeqs(missing(manifest, s))
          PROVE  reassembleChunks(manifest,
                    s \o [k \in DOMAIN order |-> chunkAt(manifest, order[k])]).type = "ok"
        <3> DEFINE r == s \o [k \in DOMAIN order |-> chunkAt(manifest, order[k])]
        <3>1. r \in Seq(AllChunks) /\ Alike(r) /\ Once(r) /\ missing(manifest, r) = {}
            BY <2>1, <2>6, NamedComplete
        <3> HIDE DEF r
        <3>2. reassembleChunks(manifest, r).type = "ok"
            BY <3>1, WholeAssembles
        <3> QED
            BY <3>2 DEF r
    <2>7. answer.type = "missing" /\ AllAgree /\ EachOnce =>
            \A order \in SetToSeqs(answer.missing) :
                reassembleChunks(manifest, s \o
                    [k \in DOMAIN order |-> chunkAt(manifest, order[k])]).type = "ok"
        BY <2>2, <2>5, <2>6
    <2>8. /\ allThere => answer.type = "ok"
          /\ answer.type = "ok" /\ (\A i \in DOMAIN s : Fits(s[i])) => allThere
        BY <2>2, <2>3, <2>4
    <2> QED
        BY <2>7, <2>8 DEF BlobWholeOrNamed, s
<1>2. ExchangeInv => BlobWholeOrNamed
    BY <1>1 DEF ExchangeInv
<1> QED
    BY <1>2, ExchangeInvariant, PTL
=================================================================================

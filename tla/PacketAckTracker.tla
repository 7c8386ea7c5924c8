---------------------------- MODULE PacketAckTracker ----------------------------
(***************************************************************************)
(* The sender's side of packet acknowledgement,                            *)
(* peerjs-room-kit/src/packet-ack-tracker.js.  Room.broadcast tracks each  *)
(* packet it sends; an acknowledgement, a refusal and the retry timer then *)
(* reach the tracker in any order, late or more than once, because every   *)
(* copy of a packet may be answered and nothing stops a timer that was     *)
(* set.  Who answers is external; PacketExchange has a receiver.           *)
(***************************************************************************)
EXTENDS Integers, Sequences

CONSTANTS
    Packets,
    Retries,        \* how many delays the retry policy lists; 4 by default
    MaxReplies      \* bound: the answers in flight to one packet

Answers == {"ack", "nack"}

VARIABLES
    tracked,        \* the packets track() was called for
    pending,        \* the keys of this.pending
    attempts,       \* state.attempts of each packet
    copies,         \* how often each packet was put on the network
    replies,        \* [Packets -> the answers on their way back]
    outcomes        \* history: what callers were told to have become of a packet

vars == <<tracked, pending, attempts, copies, replies, outcomes>>

Init ==
    /\ tracked = {} /\ pending = {}
    /\ attempts = [p \in Packets |-> 0]
    /\ copies = [p \in Packets |-> 0]
    /\ replies = [p \in Packets |-> <<>>]
    /\ outcomes = [p \in Packets |-> <<>>]

(* A packet has an id of its own: it is tracked once. *)
track(p) ==
    /\ p \notin tracked
    /\ tracked' = tracked \cup {p}
    /\ pending' = pending \cup {p}
    /\ copies' = [copies EXCEPT ![p] = @ + 1]
    /\ UNCHANGED <<attempts, replies, outcomes>>

(* External: somebody a copy has reached answers it; the answer is on its    *)
(* way from then on, and may be lost.                                        *)
answer(p, a) ==
    /\ copies[p] > 0 /\ Len(replies[p]) < MaxReplies
    /\ replies' = [replies EXCEPT ![p] = Append(@, a)]
    /\ UNCHANGED <<tracked, pending, attempts, copies, outcomes>>

lose(p) ==
    /\ replies[p] # <<>>
    /\ replies' = [replies EXCEPT ![p] = Tail(@)]
    /\ UNCHANGED <<tracked, pending, attempts, copies, outcomes>>

(* A definition with "Mutant:" in its comment is not the code's: it is the   *)
(* next definition with a bug put in, for checking that a property sees it.  *)

settle(p, outcome) ==
    /\ pending' = pending \ {p}
    /\ outcomes' = [outcomes EXCEPT ![p] = Append(@, outcome)]

(* ack() and nack(): an answer to a packet that is no longer pending is      *)
(* passed over.                                                              *)
receiveAnswer(p) ==
    /\ replies[p] # <<>>
    /\ replies' = [replies EXCEPT ![p] = Tail(@)]
    /\ \/ p \in pending /\ settle(p, Head(replies[p]))
       \/ p \notin pending /\ UNCHANGED <<pending, outcomes>>
    /\ UNCHANGED <<tracked, attempts, copies>>

(* Mutant: one retry too few. *)
oneRetryLess(p) == attempts[p] + 1 < Retries

retriesLeft(p) == attempts[p] < Retries

(* nextRetry(): the timer of a settled packet finds nothing to do. *)
nextRetry(p) ==
    /\ p \in pending
    /\ \/ /\ retriesLeft(p)
          /\ attempts' = [attempts EXCEPT ![p] = @ + 1]
          /\ copies' = [copies EXCEPT ![p] = @ + 1]
          /\ UNCHANGED <<pending, outcomes>>
       \/ /\ ~retriesLeft(p)
          /\ settle(p, "failed-closed")
          /\ UNCHANGED <<attempts, copies>>
    /\ UNCHANGED <<tracked, replies>>

Step(p) == track(p) \/ receiveAnswer(p) \/ lose(p) \/ nextRetry(p)

-------------------------------------------------------------------------------
TrackerTypeOK ==
    /\ pending \subseteq tracked /\ tracked \subseteq Packets
    /\ attempts \in [Packets -> 0..Retries]
    /\ copies \in [Packets -> 0..Retries + 1]
    /\ replies \in [Packets -> Seq(Answers)]
    /\ outcomes \in [Packets -> Seq(Answers \cup {"failed-closed"})]

(* A packet is settled exactly once, whatever late, repeated or conflicting  *)
(* answers come and however they race with the last retry; it is given up    *)
(* only after every retry of the policy was made.                            *)
SettledOnce ==
    \A p \in Packets :
        /\ Len(outcomes[p]) = IF p \in tracked \ pending THEN 1 ELSE 0
        /\ outcomes[p] = <<"failed-closed">> => copies[p] = Retries + 1

(* Once settled, a packet stays settled as it was and is not sent again.     *)
SettledIsFinal ==
    [][\A p \in tracked \ pending : p \notin pending' /\ copies'[p] = copies[p]]_vars
=================================================================================

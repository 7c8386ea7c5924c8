----------------------------- MODULE PacketExchange -----------------------------
(***************************************************************************)
(* A sender with its acknowledgement tracker and a receiver with its nonce *)
(* store.  Every retry sends the packet it was given, with the nonce it    *)
(* has, so to the receiver a retry is a replay.  Each copy may arrive any  *)
(* number of times, at any time, or never, but it arrives undamaged; the   *)
(* receiver acknowledges what it accepts, refuses a replay and a packet    *)
(* that is too old, and its answers may be lost.  Packets carry the chunks *)
(* of blobs, and the receiver puts one blob together from the chunks it    *)
(* has accepted, in the order they came (ChunkTransport).                  *)
(***************************************************************************)
EXTENDS NonceStore, ChunkTransport

CONSTANTS
    Retries, MaxReplies,
    openUntil,      \* [Nonces -> the last instant the packet is not too old]
    blobs,          \* the manifests of what senders have
    manifest,       \* of the blob the receiver wants
    carries         \* [Nonces -> the chunk in a packet]

VARIABLES tracked, pending, attempts, copies, replies, outcomes

Sender == INSTANCE PacketAckTracker WITH Packets <- Nonces

senderVars == <<tracked, pending, attempts, copies, replies, outcomes>>

ASSUME RetriesAssumption == Retries \in Nat /\ MaxReplies \in Nat
ASSUME BlobsAssumption ==
    /\ \A m \in blobs : isManifest(m)
    /\ manifest \in blobs
    /\ openUntil \in [Nonces -> Nat]
    /\ carries \in [Nonces -> UNION {chunkBytes(m) : m \in blobs}]

Init == StoreInit /\ Sender!Init

(* A copy of p reaches the receiver.  A packet that is too old is refused    *)
(* before its nonce is looked at.                                            *)
deliver(p) ==
    \/ /\ clock <= openUntil[p]
       /\ Check(p)
       /\ Sender!answer(p, IF fresh(entries, p, clock) THEN "ack" ELSE "nack")
    \/ /\ clock > openUntil[p]
       /\ Sender!answer(p, "nack")
       /\ UNCHANGED storeVars

Next ==
    \/ Tick /\ UNCHANGED senderVars
    \/ \E p \in Nonces : deliver(p)
    \/ \E p \in Nonces : Sender!Step(p) /\ UNCHANGED storeVars

Spec == Init /\ [][Next]_<<storeVars, senderVars>>

(* External: the application collects the chunks of the packets accepted. *)
collected == [i \in DOMAIN accepted |-> carries[accepted[i].nonce]]

-------------------------------------------------------------------------------
(* The tracker and the store keep their shapes, the store within its limit.  *)
TypeOK == StoreTypeOK /\ Sender!TrackerTypeOK

(* See PacketAckTracker. *)
SettledOnce == Sender!SettledOnce

(* A chunk agrees with the blob if it has the bytes that the blob has at its *)
(* index, and fits if it has as many.                                        *)
Agrees(chunk) ==
    /\ chunk.chunkIndex \in 0..(manifest.chunkCount - 1)
    /\ chunk.data = chunkAt(manifest, chunk.chunkIndex).data
Fits(chunk) ==
    /\ chunk.chunkIndex \in 0..(manifest.chunkCount - 1)
    /\ Len(chunk.data) = Len(chunkAt(manifest, chunk.chunkIndex).data)

AllAgree == \A i \in DOMAIN collected : Agrees(collected[i])
EachOnce == \A i, j \in DOMAIN collected : i # j => collected[i].chunkIndex # collected[j].chunkIndex

(* One chunk of each index that agrees with the blob, in any order and of    *)
(* any blob, make it whole.  Among chunks that fit nothing else does: a      *)
(* chunk accepted again, because its nonce was forgotten, or one with other  *)
(* bytes spoils the blob.  Until it is whole the indices that a nack names   *)
(* are the ones to send again: with them, in any order, it is.               *)
BlobWholeOrNamed ==
    LET answer == reassembleChunks(manifest, collected)
        allThere == AllAgree /\ EachOnce /\ Len(collected) = manifest.chunkCount
    IN /\ allThere => answer.type = "ok"
       /\ answer.type = "ok" /\ (\A i \in DOMAIN collected : Fits(collected[i])) => allThere
       /\ answer.type = "missing" /\ AllAgree /\ EachOnce =>
            \A order \in SetToSeqs(answer.missing) :
                reassembleChunks(manifest, collected \o
                    [k \in DOMAIN order |-> chunkAt(manifest, order[k])]).type = "ok"
=================================================================================

----------------------------- MODULE ChunkTransport -----------------------------
(***************************************************************************)
(* shared/chunk-transport/chunker.js: bytes are cut into chunks, and put   *)
(* together again from the chunks that came, in whatever order.  A hash,   *)
(* and the blobId made of it, stands for the bytes it is of.  Reassembly   *)
(* reads neither the blobId nor the hash of a chunk.                       *)
(***************************************************************************)
EXTENDS Integers, Sequences, SequencesExt, FiniteSets

Lesser(a, b) == IF a < b THEN a ELSE b

Byte == 0..255

(* data.slice(from, to), which counts from 0. *)
slice(data, from, to) == [k \in 1..(to - from) |-> data[from + k]]

createBlobManifest(data, chunkSize) ==
    [blobId |-> data, sha256 |-> data, byteLength |-> Len(data), chunkSize |-> chunkSize,
     chunkCount |-> (Len(data) + chunkSize - 1) \div chunkSize]

(* The chunk that chunkBytes() cuts at an index. *)
chunkAt(manifest, index) ==
    LET start == index * manifest.chunkSize
    IN [blobId |-> manifest.blobId, chunkIndex |-> index,
        data |-> slice(manifest.sha256, start, Lesser(start + manifest.chunkSize, manifest.byteLength))]

(* A manifest that createBlobManifest made, and the chunks of its blob.      *)
isManifest(manifest) ==
    /\ manifest.sha256 \in Seq(Byte) /\ manifest.chunkSize \in Nat \ {0}
    /\ manifest = createBlobManifest(manifest.sha256, manifest.chunkSize)

chunkBytes(manifest) == {chunkAt(manifest, index) : index \in 0..(manifest.chunkCount - 1)}

(* A definition with "Mutant:" in its comment is not the code's: it is the   *)
(* next definition with a bug put in, for checking that a property sees it.  *)

(* By index; the sort is stable. *)
comesFirst(chunks, i, j) ==
    \/ chunks[i].chunkIndex < chunks[j].chunkIndex
    \/ chunks[i].chunkIndex = chunks[j].chunkIndex /\ i < j

rank(chunks, i) == Cardinality({j \in DOMAIN chunks : comesFirst(chunks, j, i)}) + 1

sorted(chunks) ==
    [n \in DOMAIN chunks |-> chunks[CHOOSE i \in DOMAIN chunks : rank(chunks, i) = n]]

(* Mutant: the chunks are counted. *)
missingByCount(manifest, chunks) == Len(chunks)..(manifest.chunkCount - 1)

(* The indices no chunk has; of which blob a chunk is, is not asked. *)
missing(manifest, chunks) ==
    {index \in 0..(manifest.chunkCount - 1) :
        \A i \in DOMAIN chunks : chunks[i].chunkIndex # index}

(* `offset` after the first n chunks. *)
offsets(chunks) ==
    LET offset[n \in 0..Len(chunks)] ==
            IF n = 0 THEN 0 ELSE offset[n - 1] + Len(chunks[n].data)
    IN offset

(* The array, with each chunk's data set at its offset; the rest is zero.   *)
output(manifest, chunks) ==
    LET offset == offsets(chunks)
        setBy(p) == CHOOSE n \in DOMAIN chunks : offset[n - 1] < p /\ p <= offset[n]
    IN [p \in 1..manifest.byteLength |->
          IF p > offset[Len(chunks)] THEN 0
          ELSE chunks[setBy(p)].data[p - offset[setBy(p) - 1]]]

(* What reassembleChunks returns: a nack with the missing indices, a nack    *)
(* because of the hash, the data, or nothing because output.set throws.      *)
reassembleChunks(manifest, chunks) ==
    LET lost == missing(manifest, chunks)
        inOrder == sorted(chunks)
        data == output(manifest, inOrder)
    IN CASE lost # {} -> [type |-> "missing", missing |-> lost]
         [] lost = {} /\ offsets(inOrder)[Len(inOrder)] > manifest.byteLength -> [type |-> "RangeError"]
         [] OTHER -> IF data = manifest.sha256 THEN [type |-> "ok", data |-> data]
                     ELSE [type |-> "final_hash_mismatch"]
=================================================================================

---------------------------- MODULE MinimalWebSocket ----------------------------
(***************************************************************************)
(* One WebSocket of live-server-kit/src: the decoder of                    *)
(* minimal-websocket.js in the 'data' listener of live-server.js.  The     *)
(* client writes frames; the network hands over the bytes in chunks that   *)
(* begin and end anywhere.                                                 *)
(*                                                                         *)
(* A frame is two pieces, since to the decoder it is whole or it is not:   *)
(* a header, a length, a mask or a payload that has not come in full all   *)
(* leave the buffer as it is.  A frame is a text with something in it, one *)
(* that gives no message (an empty text, a ping, the continuation of a     *)
(* message), or a close frame, after which the socket is destroyed.        *)
(***************************************************************************)
EXTENDS Integers, Sequences, SequencesExt

CONSTANT MaxFrames      \* bound

FrameKinds == {"text", "blank", "close"}

VARIABLES
    stream,     \* the frames the client wrote
    arrived,    \* how many pieces of them have arrived
    decoded,    \* how many frames have been taken out of client.buffer
    handled     \* the frames given to handleWsMessage, by their places in `stream`

socketVars == <<stream, arrived, decoded, handled>>

SocketInit == stream = <<>> /\ arrived = 0 /\ decoded = 0 /\ handled = <<>>

SocketReset == stream' = <<>> /\ arrived' = 0 /\ decoded' = 0 /\ handled' = <<>>

(* The client writes a frame. *)
writeFrame(kind) ==
    /\ Len(stream) < MaxFrames
    /\ stream' = Append(stream, kind)
    /\ UNCHANGED <<arrived, decoded, handled>>

destroyed == decoded > 0 /\ stream[decoded] = "close"

wholeFrames(pieces) == pieces \div 2

(* A definition with "Mutant:" in its comment is not the code's: it is the   *)
(* next definition with a bug put in, for checking that a property sees it.  *)

(* The loop over tryDecodeTextFrame: it stops when no frame is whole, and    *)
(* after a frame without a message.                                          *)
decodeLoop(from, whole) ==
    LET stops == {f \in (from + 1)..whole : stream[f] # "text"}
    IN IF stops = {} THEN whole ELSE CHOOSE f \in stops : \A g \in stops : f <= g

lastText(from, to) == IF from < to /\ stream[to] # "text" THEN to - 1 ELSE to

(* Mutant: the frames decoded before are still in the buffer. *)
textsFromStart(from, to) == [i \in 1..lastText(from, to) |-> i]

(* What the loop hands over: all its frames, but for a last one without a    *)
(* message.                                                                  *)
textsOf(from, to) == [i \in 1..(lastText(from, to) - from) |-> from + i]

(* A chunk of n pieces arrives. *)
data(n) ==
    /\ ~destroyed
    /\ arrived + n <= 2 * Len(stream)
    /\ arrived' = arrived + n
    /\ decoded' = decodeLoop(decoded, wholeFrames(arrived'))
    /\ handled' = handled \o textsOf(decoded, decoded')
    /\ UNCHANGED stream

-------------------------------------------------------------------------------
(* The messages handled are the texts of the frames decoded, each once, in   *)
(* the order they were written, however the stream was cut.  A frame that    *)
(* has come in full stays in the buffer only behind one that gave no         *)
(* message: the loop stops there until the next chunk.                       *)
HandledInOrder ==
    /\ ToSet(handled) = {f \in 1..decoded : stream[f] = "text"}
    /\ \A i, j \in DOMAIN handled : i < j => handled[i] < handled[j]
    /\ decoded < wholeFrames(arrived) => decoded > 0 /\ stream[decoded] # "text"
=================================================================================

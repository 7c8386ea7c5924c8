---------------------------- MODULE PacketExchangeMC ----------------------------
(* Three packets, so that a store of two has to choose which nonce to drop.  *)
(* The blob has the bytes 7 7 9, in a chunk of two and a chunk of one: one   *)
(* packet carries its last chunk; the first chunk of one other blob has the  *)
(* bytes its first chunk has, that of another has not.  The packet that      *)
(* spoils the blob is the first to be too old.                               *)
EXTENDS PacketExchange

CONSTANTS n1, n2, n3

MCNonces == {n1, n2, n3}
MCManifest == createBlobManifest(<<7, 7, 9>>, 2)
MCAlike == createBlobManifest(<<7, 7>>, 2)
MCOther == createBlobManifest(<<7, 9>>, 2)
MCBlobs == {MCManifest, MCAlike, MCOther}
MCCarries ==
    (n1 :> chunkAt(MCManifest, 1)) @@ (n2 :> chunkAt(MCAlike, 0))
        @@ (n3 :> chunkAt(MCOther, 0))
MCOpenUntil == (n1 :> 2) @@ (n2 :> 2) @@ (n3 :> 1)
=================================================================================

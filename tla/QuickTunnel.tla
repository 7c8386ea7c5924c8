------------------------------ MODULE QuickTunnel ------------------------------
(***************************************************************************)
(* The tunnel of cloudflare-tunnel-kit/src: QuickTunnelRunner with the     *)
(* process it spawns, tunnel-url-parser.js and runtime-manifest-writer.js. *)
(* The runners follow each other; r is the number of one.  What cloudflared *)
(* prints arrives in chunks, each parsed by itself; some may come after its *)
(* end.                                                                    *)
(*                                                                         *)
(* An address is the one of the tunnel, another one (cloudflared prints    *)
(* links to its terms and its documentation), or what a chunk border has   *)
(* left of the tunnel's.  The manifest is truncated, then filled.          *)
(***************************************************************************)
EXTENDS Integers, Sequences, SequencesExt

CONSTANTS
    Runs,           \* 1..n
    Absent, Torn, None

Addresses == {"tunnel", "other", "cut"}

ASSUME TunnelAssumption ==
    /\ Runs \subseteq Nat \ {0}
    /\ None \notin Addresses \cup {"open", "truncated"}

(* What a chunk of output may hold. *)
Chunks == SeqOf(Addresses, 2)

VARIABLES
    children,       \* [Runs -> this.child]
    publicUrl,      \* this.publicUrl of the last runner
    writing,        \* the manifest being written: None, "open" or "truncated"
    announced,      \* the last runner has emitted 'url'
    tunnelManifest  \* .runtime/tunnel.json

tunnelVars == <<children, publicUrl, writing, announced, tunnelManifest>>

ChildStates == {"none", "alive", "killed", "exited"}

TunnelInit ==
    /\ children = [r \in Runs |-> "none"]
    /\ publicUrl = None /\ writing = None /\ announced = FALSE
    /\ tunnelManifest = Absent

(* The constructor, and start() with a binary that spawns. *)
startTunnel(r) ==
    /\ children' = [children EXCEPT ![r] = "alive"]
    /\ publicUrl' = None /\ writing' = None /\ announced' = FALSE
    /\ UNCHANGED tunnelManifest

(* The constructor, and a child that emits 'error', or no start(). *)
noTunnel ==
    /\ publicUrl' = None /\ writing' = None /\ announced' = FALSE
    /\ UNCHANGED <<children, tunnelManifest>>

(* parseCloudflaredTunnelUrl: an address of the tunnel if there is one, else *)
(* the first address.                                                        *)
parseCloudflaredTunnelUrl(chunk) ==
    IF chunk = <<>> THEN None
    ELSE IF Contains(chunk, "tunnel") THEN "tunnel" ELSE chunk[1]

(* A definition with "Mutant:" in its comment is not the code's: it is the   *)
(* next definition with a bug put in, for checking that a property sees it.  *)

(* Mutants: what a chunk has is published, be it nothing; each address found *)
(* is published.                                                             *)
handleOutputAny(r, chunk) ==
    /\ children[r] # "none" /\ publicUrl = None
    /\ publicUrl' = parseCloudflaredTunnelUrl(chunk) /\ writing' = "open"
    /\ UNCHANGED <<children, announced, tunnelManifest>>

handleOutputAgain(r, chunk) ==
    LET url == parseCloudflaredTunnelUrl(chunk)
    IN /\ children[r] # "none"
       /\ url # None /\ writing = None
       /\ publicUrl' = url /\ writing' = "open"
       /\ UNCHANGED <<children, announced, tunnelManifest>>

(* handleOutput: the first address found is kept and written. *)
handleOutput(r, chunk) ==
    LET url == parseCloudflaredTunnelUrl(chunk)
    IN /\ children[r] # "none"
       /\ url # None /\ publicUrl = None
       /\ publicUrl' = url /\ writing' = "open"
       /\ UNCHANGED <<children, announced, tunnelManifest>>

truncateManifest ==
    /\ writing = "open"
    /\ writing' = "truncated" /\ tunnelManifest' = Torn
    /\ UNCHANGED <<children, publicUrl, announced>>

(* writeRuntimeManifest is done: 'url' is emitted. *)
fillManifest(r) ==
    /\ writing = "truncated"
    /\ writing' = None /\ announced' = TRUE
    /\ tunnelManifest' = [run |-> r, url |-> publicUrl]
    /\ UNCHANGED <<children, publicUrl>>

(* The write fails: 'error' is emitted, the address stays found. *)
writeFails ==
    /\ writing # None
    /\ writing' = None
    /\ UNCHANGED <<children, publicUrl, announced, tunnelManifest>>

(* stop(): the child is sent a signal. *)
stopTunnel(r) == children' = [children EXCEPT ![r] = IF @ = "alive" THEN "killed" ELSE @]

(* The child ends, by the signal or by itself; the runner only says so. *)
childExit(r) ==
    /\ children[r] \in {"alive", "killed"}
    /\ children' = [children EXCEPT ![r] = "exited"]
    /\ UNCHANGED <<publicUrl, writing, announced, tunnelManifest>>

-------------------------------------------------------------------------------
(* The tunnel keeps its shape. *)
TunnelTypeOK ==
    /\ children \in [Runs -> ChildStates]
    /\ publicUrl \in Addresses \cup {None}
    /\ writing \in {None, "open", "truncated"} /\ announced \in BOOLEAN
    /\ tunnelManifest \in {Absent, Torn} \cup [run: Runs, url: Addresses]

(* "parses the generated public URL, and writes: .runtime/tunnel.json"       *)
(* (cloudflare-tunnel-kit/README.md): the address published is the tunnel's. *)
PublishedIsTunnel ==
    tunnelManifest \notin {Absent, Torn} => tunnelManifest.url = "tunnel"
=================================================================================

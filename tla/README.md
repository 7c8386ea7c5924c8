# NexusRealtime KitBuilder: a specification

TLA+ modules, TLC configurations and TLAPS proofs for the program in `src/`: the peer fabric
(rooms, host layers, model workers, the live mirror) and the shared ledger, packet and nonce code
under it. A definition carries the name of what it models in the source wherever TLA+ allows.

Run inside this directory: `tlc -workers 2 -config X.cfg M` for a run, `tlapm M.tla` for a proof
module. `PROJECT.json` lists the runs, the source lines of every definition, the hazards, and for
each checked property a mutant of the code that breaks it.

## 1. The system

Everything is JavaScript in one event loop per process: a stretch of code up to an `await` is
atomic, and whatever else is suspended runs in between. Hard behaviour comes from that, from the
transport (peers lose, repeat, delay and reorder packets), from leases and times to live that are
compared by different code at different moments, from process restarts, and, for the scripts, from
several processes on the same files.

| Component | State | Operations | Talks to | What is hard | Correct when |
|---|---|---|---|---|---|
| Append ledger `shared/append-ledger` | `events`, `subjectIndex`, `rejectedEvents`, `conflicts` | `append`, `replay`, `getHeads`, `snapshot` | used by rooms, host layers, meshes | `seq` is taken before the digest is awaited; events conflict by subject and phase in the order their digests resume | one best survivor per subject and phase, index and trail agree with the events, nothing forgotten |
| Job queue `secure-peer-onnx-kit/src/queue` | `jobs`, `claims` | `enqueue`, `claim`, `reapExpiredClaims`, `complete` | the mesh | expiry at a boundary, retries, jobs enqueued or completed twice, given back with the status and attempts they had | status and claim agree, retries bounded, a claim in force is exclusive |
| Mesh `secure-peer-onnx-kit/src/mesh.js` | queue, ledger, `seenOutputHashes` | `enqueue`, `claim`, `acceptResult`, `join` | queue, ledger, loader | results from anyone at any time, three stores changed by one call | outputs are accepted once, the ledger tells what the queue did |
| Startup models `secure-peer-onnx-kit/src/startup` | `modelState`, ledger events | selection, preflight, loading | runtime, ledger | one of several models fails; budget and count | exact is exact or throws, up-to has a verdict for each, the strategy picks the best |
| Nonce store `shared/signed-packet/nonce-store.js` | nonce -> time | `has`, `remember`, `prune`, `assertFresh` | room | times to live, eviction at the limit | forgotten only by age or by newer nonces |
| Packet acknowledgement `peerjs-room-kit/src/packet-ack-tracker.js` | `pending` | `track`, `ack`, `nack`, `nextRetry` | room | a timer racing late, repeated, contradicting answers | one final outcome, given up last |
| Peer room, presence `peerjs-room-kit/src` | `sequence`, `nonces`, `ledger`, `presence` | `broadcast`, `heartbeat`, `receive`, reaping | transport, ledger | unreliable delivery, suspended receives, restarts of peers, reads that evict | a packet acts once, only stale peers are evicted, the ledger accounts for the table |
| Host election, repair `peerjs-room-kit/src` | none: an election is a value | `electHosts`, `resolveHostConflict`, repair | room | peers that elect at the same time from different candidates | peers agree once they have exchanged elections |
| Host layer `peerjs-hostlayer-kit/src` | `rooms` of the table, ledger | `upsertSummary`, `findRoute`, `openDirectLink` | table, ledger, transport | summaries and routes grow stale while callers hold them | callers set out on what was announced lately; outcomes are on record |
| Live server `live-server-kit/src` | events, heads, presence, mailboxes, SSE and WebSocket clients | REST posts, stream, upgrade, relay | its clients | bodies are awaited, clients come and go, handlers throw | a client follows its room without gap or duplicate, relays are handed out once |
| WebSocket framing, chunk transport | a buffer | decode, reassemble | live server, peers | frames and chunks cut, repeated, reordered | what is put together is what was sent |
| Quick tunnel `cloudflare-tunnel-kit/src` | child process, manifest file | start, stop | cloudflared | output cut anywhere, a child that exits | the manifest tells the truth |
| Lifecycle scripts `scripts/*.mjs` | records, issues, lessons in files | advance, issue, lesson | each other, by files | two scripts at once, also in one file; a crash between two writes | no issue or history is lost, summaries match |
| Live fabric runner `apps/live-fabric-runner` | server, tunnel, two manifest files | start, stop on a signal | live server, quick tunnel | signals and crashes between any two awaits, connections that outlive the server | manifests are of the run that is on, only a crash leaves a tunnel behind, stopping ends |
| Lab, registry and doctor scripts | none of their own | wiring, reports | all of the above | | |

## 2. Modules

| Module | Models | Built from |
|---|---|---|
| `Clock` | `now()`: the time a module's own `Tick` lets pass | |
| `AppendLedger` | `append()` in two steps around the digest | `Clock` |
| `KeyedRegister` | abstract: a register per key that keeps the best proposal | |
| `JobQueue` | the queue and its reaper | `Clock` |
| `LeaseTable` | abstract: a key is leased to one owner at a time | |
| `SecurePeerOnnxMesh` | the mesh: every call changes the queue, then is suspended in the ledger | `Clock`, instances of `JobQueue`, `AppendLedger` |
| `StartupModels` | `join()` of a worker: selection and loader, and what a session may come to | |
| `HostLayer` | route table, `findRoute`, negotiation down the ladder | `Clock` |
| `Fabric` | the meshes and the host layer of a fabric: workers that start, rooms that are announced, callers routed to them | `Clock`, `StartupModels`, instance of `HostLayer` |
| `NonceStore` | the nonce store | `Clock` |
| `PacketAckTracker` | the tracker between sends, answers and the retry timer | |
| `ChunkTransport` | cutting a blob, and reassembly or the list of missing chunks | |
| `PacketExchange` | a retrying sender of the chunks of blobs against a receiver that refuses replays | `NonceStore`, `ChunkTransport`, instance of `PacketAckTracker` |
| `PresenceTable` | the table's `upsert` and `markStale` as operators | |
| `PeerRoom` | remote peers, the transport and a room that receives | `Clock`, instances of `PresenceTable`, `NonceStore` |
| `LiveServer` | server, store and clients: events, leases, route summaries, mailboxes | |
| `MinimalWebSocket` | the bytes of one WebSocket and the loop that decodes them | |
| `QuickTunnel` | `cloudflared`, its output, the parser, the manifest | |
| `LiveFabricRunner` | the runner, its server's connections and its tunnel, from start to end and again | `QuickTunnel`, `MinimalWebSocket` |
| `KitLifecycle` | the lifecycle scripts as processes on shared files | |
| `*MC` | values of constants (digests, blobs, manifests, configurations, announcements, the trees a script finds) and symmetry for TLC | |
| `LedgerAndQueueProofs`, `SecurePeerOnnxMeshProofs`, `PacketExchangeProofs`, `PeerRoomProofs`, `LiveServerProofs`, `FabricProofs`, `LiveFabricRunnerProofs`, `KitLifecycleProofs` | the theorems | the modules they are about |

How state and actions correspond to the code:

* A class is a module, its fields are variables, and a method is an action of the same name. A
  method with an `await` is split there, and nowhere else: `Begin`/`Finish` of a ledger append,
  `receive`/`digestReady`/`appendDone` of a room, `post`/`handlePost` of the live server,
  `findRoute` ... `unreachableRecorded` of the host layer, `boot`/`listen`/`truncateLive`/`fillLive`
  of the runner. A variable (`pending`, `calls`, `requests`, `processes`) holds what a suspended
  call or a running script keeps in its locals.
* `writeFile` is two steps, `truncate` and `fill`: between them, and for good if the process dies
  there, the file is `Torn`, and whoever reads it cannot parse it. A script that fills a file which
  another has filled since it was truncated writes over that text from its start; where the old one
  is longer its end stays, and the file is `Mixed`, which nobody can parse either.
* Time is a bounded counter with an action of its own; durations are small numbers that keep the
  order of the source's durations. Comparisons keep their strictness (`<` in the reaper, `>=` in
  `claim`).
* Identifiers, hashes, payloads are model values or small sets. A digest is any injective function
  to integers, since its order decides between events of one time. Where the order is arbitrary
  and nothing else depends on it (`HostLayer`, `Fabric`), either outcome is possible. What
  `cloudflared` prints is a sequence of kinds of addresses: the tunnel's own, another link, and the
  tunnel's cut by the end of a chunk of output.
* A `Map` is a function with a value for "absent". Where its insertion order matters (nonces) it is
  a set of entries with their places; a receiver's chunks are a sequence. `HostLayer` leaves the
  order of equal routes open.
* History variables (marked "history" where they are declared: `enqueued`, `accepted`, `outcomes`,
  `heard`, `unrecorded`, `relayed`, `announced`, `saves`, `saved`, `created`, `contested`,
  `disputed`, `raced`, `listened`, `crashed`, and the `sessions` of a mesh) record what properties
  speak of. Guards ask `created` which ids there are, and the bounds count `accepted`; nothing else
  is decided by them.
* `Mutant:` in a comment marks a definition that is not the code's: a bug put in, which the
  property named with it in `PROJECT.json` must catch.

## 3. Runs

**Fairness.** Nothing in the source calls the reapers, the retry timer or a re-announcement on a
schedule, so those actions are never fair and the modules of the peer fabric state safety only.
Two modules have `FairSpec`:

* `KitLifecycle`: `WF(step(p))`. A script that was started is run by the operating system until it
  ends or is killed. Starting, editing and killing are not fair.
* `LiveFabricRunner`: `WF(exit)`, since `server.close` calls back when no connection is left, and
  `WF(hangUp(c))` of a connection whose response has been ended, which `node:http` closes after its
  `keepAliveTimeout`. A client that sits on an open connection owes nothing.

The program may stop at any time, hence `CHECK_DEADLOCK FALSE` where all bounds can be used up.

| Run | Question | Bounds and why they suffice |
|---|---|---|
| `AppendLedgerMC` | Do overlapping appends reconcile to the best survivor in every order, with index and trail intact? Implements `KeyedRegister`. | 2 callers, 3 appends, 2 terms, 2 times: 3 is the least for a survivor to be replaced, and replaced again or confirmed; the phases are the three real types of a route |
| `JobQueue` | Are status, claim and retries consistent on every path, whatever a job is enqueued with? Implements `LeaseTable`. | 1 job (no operation but the reaper's loop touches two, and its turns are independent), 2 workers, every status, with 0 or 2 attempts and with or without a result, leases and timeouts of 1 and 2, 0 or 1 retry, 5 units of time: a lease can lapse twice, a job can outlive its timeout, and a copy may come with more attempts than it has retries |
| `SecurePeerOnnxMesh` | Do queue, hashes and ledger agree under suspended calls? Does a holder keep its claim? | 2 jobs, 2 workers, 2 outputs, 4 operations of which 2 at a time: both jobs enqueued and a result for each, or one job completed twice; a request is new, or a copy of a job that was completed, under its id or the other one |
| `MeshActiveClaim` | violated: a result needs an active claim | 1 job, 3 operations |
| `PacketExchange` | Nonces, acknowledgement and reassembly under retries | A blob of 3 bytes of which two are equal, in 2 chunks; 3 packets: one with its last chunk, one with a chunk of another blob that has the bytes its first chunk has, one of a third blob that has not. A store of 2 (so it overflows), 4 packets accepted (so one is accepted twice), 1 retry; the spoiling packet is too old before the others |
| `PeerRoom` | Is a packet acted on once; are only stale peers evicted; is the table accounted for? | 2 packets, 3 deliveries with 2 suspended, 1 restart, leases good and bad, nonces kept for as long as the window; the table is read and reaped at any time, and the reaper's append is suspended while the peer comes back or goes again |
| `RoomReplayDefaults` | violated: a packet acts once, with the default times | `nonceTtl = clockSkewMs`, `packetTtl` on top, as in the code |
| `LiveServer` | Do clients follow their room, its leases and its summary; do relays go out once? | 2 rooms, 2 posts at a time, a client that may change its room, rooms of 2 events with 3 operations (so one is cut off), 1 restart |
| `Fabric` | Startup, staleness of summaries and routes, negotiation | 3 manifests the strategies rank differently, two of one modelId, one without test vectors, one no provider runs; 6 configurations; every session; 3 announcements: two of one room that contradict each other in models and trust and live 1 and 0, one of the parent room. A ladder of 3 of the 5 modes (first, middle, last), 3 instants: the least in which a summary is replaced, is used at its last instant and is too old at the next |
| `KitLifecycle` | Are records, issues and lessons kept, and does a closing settle? | An empty tree, and one with a hand-written record in state 2 that lists no gate and with a lesson; 2 processes at once, 3 scripts started, 1 killed, 1 edit; 1 issue, found or made; 3 states, of which 2 depend on what intake writes and 2 on the manifest it overwrites; a summary of 1 lesson while there may be 4: the least in which a record skips, goes back, is overwritten from an old reading, and a lesson drops out of the summary |
| `LiveFabricRunner` | Do manifests tell the truth, are tunnels ended, frames handled in order; does stopping end? | 2 runs (one finds the files of the other), 2 connections (one holds up, one does not), 3 frames of every kind cut anywhere |
| `TunnelUrl` | violated: what is published is the tunnel's address | 1 frame; the same 2 runs |

A violated run is a statement of the repository the code does not keep:

* `MeshActiveClaim`: `validateJobResult` compares the worker only if there is a claim, and never
  looks at `expiresAt`. A test is named "mesh validates active claim before accepting result".
* `RoomReplayDefaults`: a nonce is forgotten after 120 s; a packet is acceptable up to its
  `expiresAt` (30 s) plus 120 s of skew. In between a copy is received again.
* `TunnelUrl`: each chunk of `cloudflared`'s output is parsed by itself and the first address found
  is kept; the parser falls back to any https address. A link printed earlier, or an address cut by
  the end of a chunk, is published as the tunnel's. The README of the kit says it parses "the
  generated public URL".

Read off the models but not stated as properties, because no text of the repository promises
otherwise:

* *Queue.* `enqueue` keeps the `status`, `attempts` and `result` of the object it is given: a job that
  the queue returned once can be given back "completed", without a verdict, or "claimed" by nobody,
  which the reaper will not find.
* *Mesh.* `acceptResult` spends an output hash before `complete()` throws for an unknown job. A
  session that has no `runTestVector` passes with its vectors never run. Nothing refuses two
  manifests of one `modelId`; the ledger, which tells models by `modelId`, then has both verdicts.
* *Room.* `listActive()` and `get()` evict stale peers and leave no record of it, so that a later
  `reapStalePeers` has nothing left to tell; its own append is awaited by nobody, and may be done
  when the peer is back. A heartbeat with a bad lease is recorded and announced before it is
  refused. A damaged copy of a packet takes the nonce of the good one. `upsert` keeps a lease that
  is newer by number *or* by time: after a restart a late heartbeat of the old session wins by
  number, and the peer is evicted while its lease runs; likewise when an older lease is longer than
  a newer one.
* *Live server.* What a POST handler throws passes the `catch` of `handleRequest`, which does not
  `await` it, and ends the process with every other client's connection. Acknowledged events do not
  survive a restart. Expired presence stays in snapshots. A client of the room with the empty id
  hears every room; two identities whose `roomId:identityKey` is the same string share a lease.
  After a blank or binary frame the decoder holds back the frames behind it until more bytes come.
* *Runner.* Manifests stay "online" after a stop. A manifest that could not be written is not
  written again. A request that becomes a stream after `stop()` has swept the streams, or an idle
  connection, holds the process until another signal.
* *Host layer.* An unreachable route leaves `route.failed` among the rejected events, because
  `route.mode.failed` is of the same phase and comes first; with a summary of the parent room as the
  best, `findRoute` throws. Nothing takes a room's summary from a mesh: `apps/fabric-lab` announces
  models it has written down before its mesh has joined, and the table believes any caller, so a
  route promises what was announced and not that a worker has the model.
* *Chunks.* Reassembly looks at neither `blobId` nor `chunkSha256`: a chunk of another blob stands in
  for one with its bytes and spoils the result otherwise, as a repeated one does, which only `sha256`
  of the whole tells. Chunks that are not cut as the blob's are could make up its bytes by chance;
  the converse in `BlobWholeOrNamed` is therefore of chunks of the right lengths.
* *Scripts.* A torn project record is read as absent and begun anew, with its history gone. A record
  that is written by hand is believed: that of `live-server-kit` is in state 16 and lists none of the
  gates. Of two runs that close one issue, one with a lesson and one without, the second may write
  its shorter text over the longer one; nobody can read the closed issue then, and the open one is
  removed. Two runs at the lessons may leave a summary that is of neither.

## 4. Proofs

For every value of the constants, under the assumptions the modules name. Everywhere: bounds, times
and durations are naturals, and a value for "absent" (`None`, `Idle`, `NoJob`, ...) is none of the
values it stands beside. Beyond that: `AppendLedger` and the mesh have finitely many callers,
integer terms, and a digest that is injective and integer (that of the mesh on the events a mesh
makes); `NonceStore` holds at least one entry and `LiveServer` at least one event per room; the
blobs of `PacketExchange` have manifests as `createBlobManifest` makes them, with a positive
`chunkSize`, and every packet carries a chunk of one of them; in `PeerRoom` peers are no packet
numbers and the store holds at least one nonce; the runs of `QuickTunnel` are positive;
`KitLifecycle` has a state, its summary tells at least one lesson, and the records it may find have
the shape of a record; in `Fabric` the manifests are a finite sequence, a ladder has a mode, and
there is at least one configuration. One theorem, `EvictionIsLate`, has a hypothesis of its own,
named below.

A spec is proved about by one inductive invariant, in layers where a later part needs an earlier one:
one lemma per action, the parts that an action cannot disturb settled together, and the theorems
last, by `PTL`.

**Ledger.** The inductive invariant `IInv` is `TypeOK`, finiteness of `events`,
`OneSurvivorPerPhase`, `SurvivorIsBest`, `IndexMatchesEvents` and `SeqNotAhead`. None of the middle
three is inductive alone: that a conflict is found at all needs the index to list every event;
that there is one candidate needs uniqueness; that a replacement still beats everything recorded
needs transitivity of `chooseLedgerWinner`, which is lemma `WinnerTransitive` and rests on the
injective digest. `SeqNotAhead` (no event has a `seq` beyond `events.size` + 1) carries
`ReplayNeverGoesBack`, and needs that the number of events never falls. Each has a lemma of its
own (`OneSurvivorStep`, `SurvivorIsBestStep`, ...), by cases on what `Finish` does. From it:
`TypeCorrect`, `LedgerUnique`, `LedgerReconciles`, `IndexAgrees`, `ReplayOrder`, `LedgerKeeps`,
`LedgerAudit` (with `ConflictTrail` as a second layer over `IInv`) and
`LedgerImplementsRegister`, where `Begin` and `Tick` are stutters and `Finish` is a `Submit`.
`NothingForgotten`, like the types of ledger and queue, is proved and not among the runs' properties.

**Queue.** A job may be enqueued with any status, attempts and result, so the properties compare it
with what it was enqueued as (`enqueued`). `QueueTypeOK`, `StatusMatchesClaim`, `RetryBudget` and
that a known job was enqueued are inductive together: the reaper may assume that a claim is on a
known job, and where attempts have grown since the job was enqueued they are at most its retries.
All but the types is said of each job by itself (`JobInv`), and one lemma per action shows what it
does to a job; then `QueueTypeCorrect`, `QueueStatus`, `QueueRetries`, and
`QueueImplementsLeaseTable`, where `enqueue` is a stutter, `claim` acquires, the reaper expires and
`complete` releases.

**Mesh.** `MeshInv` is the types of the queue, `LedgerInv` (types, `IndexMatchesEvents`, and that
every event in the ledger or in a suspended call is one the mesh makes), that `seenOutputHashes` are
hashes, `OutputsDistinct` and `VerdictsMatchQueue`. That two jobs have different outputs, and two
verdicts too, is inductive only because the hash of each result and of each verdict is among those
seen, also when the job was enqueued again since and its result is gone; a result that a request
brought with it is told apart by `enqueued`. That a job that has got a result has its verdict holds
only because the ledger merely moves events between its sets while calls are suspended
(`BeginOutcome`, `FinishOutcome`), for which a conflict must be found among the recorded events, by
`IndexMatchesEvents`. `MeshHolder` goes through the actions that change a claim. `MeshRunsQueue` and
`MeshRunsLedger` say that every step of the mesh is a step of the queue and of the ledger, or a
stutter of them, so that their theorems hold in the mesh; the mesh's digest is injective on the
mesh's events only, which is why it does not simply reuse `IInv`.

**Exchange.** The store is a *window*: its entries are those of the last so many accepted nonces,
the times of acceptance do not fall, and every nonce before the window is too old or at least
`maxEntries` back. Pruning shortens the window from its old end because times do not fall, eviction
takes exactly its first entry because that is what the stable sort puts first, and a fresh nonce is
none of the window; so `ForgottenByAgeOrPressure` follows (`NoncesForgotten`). The tracker's
invariant ties `pending`, attempts and outcomes: a packet is pending or has one outcome, and has
made at most `Retries` retries (`OneOutcome`, `OutcomeFinal`).

**Chunks.** `BlobWhole` is about the operators, of every list of bytes, chunk size and list of
accepted chunks; of the state it needs only that what is accepted are packets. A stable sort is by
*rank*, the number of chunks that come first, and ranks are 1 to the length, each once (`Ranks`,
`SortedList`); offsets are a recursive function of the lengths, so each chunk's bytes end up from
its offset on (`OffsetsAreSums`, `OutputBytes`). With one chunk of each index that agrees with the
blob, the sorted list is the chunks one after the other (`OneAfterTheOther`), each offset is where
the blob's chunk begins (`OffsetsOfBlob`), and the array is the blob (`WholeAssembles`). Conversely,
let the array be the blob and the chunks have the right lengths. An index that came twice would push
the end of the data over the end of the array (`TwiceTooLong`), so each came once, each chunk begins
where the blob's does, and its bytes are the blob's (`OnlyWholeAssembles`). That bytes repeat and
that blobs share them does no harm. As many as `chunkCount` are all (`EnoughAreAll`, an injection
between sets of one size), and those a nack names, in any order, complete what came
(`NamedComplete`).

**Room.** `RoomTypeCorrect` carries that a suspended call is about a packet that was sent.
`TableOnRecord` adds that what is on record was sent, so that what it carried is fixed; a lease that
has run out has done so for good, so the reaper's append may end at any time.
`ActedOnOnceUnlessForgotten` assumes nothing of the times and of the limit of the store, which in
the code do not suffice (`RoomReplayDefaults`): a packet is acted on again for two reasons only,
that more packets were sent than the store holds, or that the packet is older than `nonceTtl` and
that is less than `packetTtl + clockSkewMs`. Its invariant says that every packet in a call or acted
on is *guarded*: its nonce is in the store, or one of the two reasons is there. Pruning a nonce
gives the age, `RoomForOneMore` counts that eviction needs the number, and a packet that passes both
checks is therefore new or *forgotten*. With `nonceTtl >= packetTtl + clockSkewMs` and room for all
the theorem is `ReceivedOnce`. `EvictionIsLate` assumes leases of one length: until a restart,
numbers and times of a peer's leases agree, so the table holds the lease that expires last
(`lastHeard`) and the reaper evicts only when all have run out.

**Live server.** `ServerInv` is `MirrorInv` (the types of store and clients, that no event is twice in
its room, and `ClientsFollowRoom`), the other types, `SentSoFar` (no operation's number is anywhere
before it was sent), `PendingFresh` (a POST whose body is still read has a number nothing else has)
and `DownIsEmpty`. A client may join at any time because a snapshot is a window of distinct
events; it stays a window when an event is added because the event is new to the room, which is
what `PendingFresh` carries across the awaited body. `Newest`, the cut to `maxEventsPerRoom`, has
lemmas of its own. `RelayedOnce` keeps that a mailbox is what was put in and not yet taken out.

**Fabric.** `FabricInv` has two parts. `StartupInv` says of each mesh (`LoaderInv`) that its models
were selected by its configuration, that what the loader is through with is a prefix of them with
one verdict each, the same in its state and, by `modelId`, in its ledger, that each warm one came to
a session which failed no vector (`Tested`), and that exact startup has no failure so far. What
`select` returns is proved from the data up. `comesBefore` is a strict total order (`StrictOrder`;
for `fit-memory` by cross-multiplied quotients, `RatiosChain`), so there is exactly one list in
order and `ranked` is it (`Ranked`); the loop over it is a recursive function (`LoopExists`), with
the loop invariant `SelectedSoFar`: what is selected after `n` turns is in order, within count and
budget, and whoever was passed over had a reason (`SelectIsBest`). `HostInv` says of each call what
its events in the ledger are (`Outcome`), of each summary which announcement it is and that no later
one is of its room (`SummaryAnnounced`), and of each route the announcement it was made from and
that it ends within the life of a route after any later one (`RouteAnnounced`): the two times to
live add up because a route takes over what its summary said at the instant it is made.
`LinkAsAnnounced` also covers a parent room that is announced at any time, since a path that ends in
the parent is refused.

**Runner and sockets.** `RunnerInv` is the types, `OnlyCrashesOrphan`, `ManifestsTruthful` and what
they need: a tunnel exists only of runs begun, and the present run has none before it has written
its live manifest (`OneTunnelPerRun`); the tunnel's manifest is written while the run is on and
before its address is announced (`WrittenOnce`); whoever is in the live manifest has listened
(`ListensFirst`). The frames of a connection have an invariant of their own (`SocketInv`), which holds
because no action of the runner touches what the decoder has (`RunnerFrames`).

**Scripts.** Four layers. `BaseInv`: types, what a file may hold, and what a running script has in its
locals at each of its steps; it gives `KitTyped` and `KitAdvanced`, whose evidence travels from the
gates read to the record written, whatever record was found. `RecordInv`: a script that has read the
record and sees no save since has the record as it is, which is `KitHistory`. `LessonInv`: a script
between its lesson and the summary has a prefix of the lessons, and all of them if no two met there;
alone there it finds the summary as it has torn it, so what it writes is whole (`SummaryTorn`); for
`KitSummary`, of whatever number of lessons a summary tells.
`IssueInv`: a new issue has nobody else, a closed file is whole before the open one is removed, and
an issue that is not contested has one run that closes it, which finds the closed file as it has torn
it (`CloserTorn`); for `KitIssues`, crashes included.

**How data is dealt with.** The library's induction theorems take a predicate, which the installed
provers cannot instantiate. Where induction is needed it is over a *set* of naturals, by its least
member (`LeastNatural`, `UpTo`); from it come the existence of recursive functions (`Iterate`), the
sorted list of a finite set (`SortedListExists`) and loop invariants.

**Model-checked only.** The two liveness properties, `StopEnds` and `ClosingSettles`: fairness is out
of the prover's reach. The violations of section 3 are TLC's too, by their nature.

## 5. Not modelled, and why

* Formats (room, peer and model names, schemas, hashes) beyond what a guard needs; jitter and delays
  of retries; the payloads of jobs and results; the masks and lengths of frames; `sendToPeer`-like
  hand-overs to the transport; clients of the live server that ignore `relay.enqueued`.
* What nothing in the repository calls outside tests: host election and its repair, duplicate peers,
  `createRouteRepairPlan`, `reapStalePresence`, `getFreshRouteSummaries`. Elections are values
  without state; of two with the same term and primary but different backups `resolveHostConflict`
  returns its first argument, so two peers that exchange them keep different ones.
* Scripts that read the tree and report: registry, validation, doctor. The gates' artifacts are
  edited by developers (`edit`), one kit stands for all.
* In `PacketExchange` what arrives is undamaged; a copy whose payload does not match its hash is in
  `PeerRoom`, and so is the earlier end of the time window. What reassembles blobs from accepted
  packets is not in the repository: `collected` is the application's.
* A `null` or a non-object sent to a WebSocket of `LiveServer` is one of the bodies it refuses.
* `HostLayer` uses the ledger by what `LedgerImplementsRegister` proves of it; a negotiation's trace
  id is fresh, so negotiations do not meet in the ledger and one caller is enough. `PeerRoom` keeps
  of the ledger which subjects it has events of; all peers read one clock.

## 6. Plan

Done: everything in section 2. Next:

1. Abstract specifications: of the live mirror, a log per room that clients read a window of; of a
   room, each packet delivered at most once; with `LiveServer` and `PeerRoom` shown to implement them.
2. `HostElection`, should the room come to call it: peers that elect at once agree once they have
   exchanged their elections, ties included.

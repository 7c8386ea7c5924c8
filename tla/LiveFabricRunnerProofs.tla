------------------------- MODULE LiveFabricRunnerProofs -------------------------
(***************************************************************************)
(* The runner for any runs, connections and bound on the frames.  What it  *)
(* leaves behind follows from where its run is: no tunnel before the run   *)
(* starts one (OneTunnelPerRun), one writing of the tunnel's manifest in a *)
(* run (WrittenOnce), and a live manifest of a run that listens            *)
(* (ListensFirst).  The decoder of its WebSocket has an invariant of its   *)
(* own, SocketInv: it is never ahead of what has arrived.                  *)
(***************************************************************************)
EXTENDS LiveFabricRunner, WellFoundedInduction, NaturalsInduction, TLAPS

(* A later run has no tunnel yet, and a run has none before it starts one;   *)
(* a run that is stopping has signalled its own.                             *)
OneTunnelPerRun ==
    /\ run = 0 => phase = "down"
    /\ \A r \in Runs : r > run => children[r] = "none"
    /\ phase \in {"starting", "listening", "writing", "written"} => children[run] = "none"
    /\ phase = "stopping" => children[run] # "alive"

(* The manifest of the tunnel is written while the run goes on, and never    *)
(* after it was announced.                                                   *)
WrittenOnce ==
    /\ writing # None =>
          /\ phase \in {"running", "stopping"}
          /\ publicUrl # None /\ announced = FALSE
    /\ announced => publicUrl # None

(* Who has its place in the live manifest has listened. *)
ListensFirst ==
    /\ phase \in {"listening", "writing", "written", "running", "stopping"} => run \in listened
    /\ phase \in {"written", "running", "stopping"} => liveManifest = run

RunnerInv ==
    /\ TypeOK
    /\ OneTunnelPerRun /\ WrittenOnce /\ ListensFirst
    /\ OnlyCrashesOrphan /\ ManifestsTruthful

RunnerVarsUsed == <<phase, run, liveManifest, listened, crashed>>

-------------------------------------------------------------------------------
(* What is found in a chunk is an address, or nothing. *)
LEMMA ParsedAddress ==
    ASSUME NEW chunk \in Chunks
    PROVE  parseCloudflaredTunnelUrl(chunk) \in Addresses \cup {None}
<1>1. PICK m \in 0..2 : chunk \in [1..m -> Addresses]
    BY DEF Chunks, SeqOf
<1>2. chunk # <<>> => m > 0
    BY <1>1
<1>3. chunk # <<>> => chunk[1] \in Addresses
    BY <1>1, <1>2
<1> QED
    BY <1>3 DEF parseCloudflaredTunnelUrl, Addresses

LEMMA InitRunnerInv == Init => RunnerInv
BY TunnelAssumption, RunnerAssumption
   DEF Init, TunnelInit, RunnerInv, TypeOK, TunnelTypeOK, Phases, ConnStates, ChildStates,
       OneTunnelPerRun, WrittenOnce, ListensFirst, OnlyCrashesOrphan, ManifestsTruthful, closed

(* The steps of the program itself. *)
LEMMA BootInv == RunnerInv /\ boot => RunnerInv'
<1> SUFFICES ASSUME RunnerInv, boot PROVE RunnerInv'
    OBVIOUS
<1> USE TunnelAssumption, RunnerAssumption DEF boot, noTunnel
<1>1. TypeOK'
    BY DEF RunnerInv, TypeOK, TunnelTypeOK, Phases
<1>2. run \in Nat
    BY DEF RunnerInv, TypeOK
<1>3. OneTunnelPerRun'
    BY <1>2 DEF RunnerInv, OneTunnelPerRun
<1>4. WrittenOnce' /\ ListensFirst' /\ ManifestsTruthful'
    BY DEF RunnerInv, WrittenOnce, ListensFirst, ManifestsTruthful
<1>5. OnlyCrashesOrphan'
    BY <1>2 DEF RunnerInv, OnlyCrashesOrphan, OneTunnelPerRun
<1> QED
    BY <1>1, <1>3, <1>4, <1>5 DEF RunnerInv

(* Steps before the tunnel: listening or not, and the live manifest. *)
LEMMA ListenInv ==
    RunnerInv /\ (listen \/ listenFails \/ truncateLive \/ fillLive) => RunnerInv'
<1> SUFFICES ASSUME RunnerInv, listen \/ listenFails \/ truncateLive \/ fillLive PROVE RunnerInv'
    OBVIOUS
<1> USE TunnelAssumption, RunnerAssumption
    DEF listen, listenFails, truncateLive, fillLive, tunnelVars
<1>1. run \in Runs
    BY DEF RunnerInv, TypeOK, OneTunnelPerRun
<1>2. TypeOK'
    BY <1>1 DEF RunnerInv, TypeOK, TunnelTypeOK, Phases
<1>3. OneTunnelPerRun' /\ WrittenOnce'
    BY DEF RunnerInv, OneTunnelPerRun, WrittenOnce
<1>4. ListensFirst' /\ ManifestsTruthful'
    BY <1>1 DEF RunnerInv, ListensFirst, ManifestsTruthful
<1>5. OnlyCrashesOrphan'
    BY DEF RunnerInv, OnlyCrashesOrphan, OneTunnelPerRun
<1> QED
    BY <1>2, <1>3, <1>4, <1>5 DEF RunnerInv

LEMMA StartRestInv == RunnerInv /\ startRest => RunnerInv'
<1> SUFFICES ASSUME RunnerInv, startRest PROVE RunnerInv'
    OBVIOUS
<1> USE TunnelAssumption, RunnerAssumption DEF startRest, startTunnel, noTunnel
<1>1. run \in Runs
    BY DEF RunnerInv, TypeOK, OneTunnelPerRun
<1>2. TypeOK'
    BY <1>1 DEF RunnerInv, TypeOK, TunnelTypeOK, Phases, ChildStates
<1>3. OneTunnelPerRun'
    <2>1. run \in Nat /\ run > 0 /\ run' = run /\ phase' = "running"
        BY <1>1
    <2>2. \A r \in Runs : r > run => children'[r] = children[r]
        BY <1>1, <2>1 DEF RunnerInv, TypeOK, TunnelTypeOK
    <2> QED
        BY <2>1, <2>2 DEF RunnerInv, OneTunnelPerRun
<1>4. WrittenOnce' /\ ListensFirst' /\ ManifestsTruthful'
    BY <1>1 DEF RunnerInv, WrittenOnce, ListensFirst, ManifestsTruthful
<1>5. OnlyCrashesOrphan'
    BY <1>1 DEF RunnerInv, OnlyCrashesOrphan, TypeOK, TunnelTypeOK
<1> QED
    BY <1>2, <1>3, <1>4, <1>5 DEF RunnerInv

(* The ends of a run. *)
LEMMA StopInv == RunnerInv /\ stop => RunnerInv'
<1> SUFFICES ASSUME RunnerInv, stop PROVE RunnerInv'
    OBVIOUS
<1> USE TunnelAssumption, RunnerAssumption DEF stop, stopTunnel
<1>1. run \in Runs
    BY DEF RunnerInv, TypeOK, OneTunnelPerRun
<1>2. conns' \in [Conns -> ConnStates]
    BY DEF RunnerInv, TypeOK, afterSweep, ConnStates
<1>3. children' \in [Runs -> ChildStates] /\ children'[run] # "alive"
    BY <1>1 DEF RunnerInv, TypeOK, TunnelTypeOK, ChildStates
<1>4. TypeOK'
    BY <1>2, <1>3 DEF RunnerInv, TypeOK, TunnelTypeOK, Phases
<1>5. OneTunnelPerRun'
    BY <1>1, <1>3 DEF RunnerInv, OneTunnelPerRun, TypeOK, TunnelTypeOK
<1>6. WrittenOnce' /\ ListensFirst' /\ ManifestsTruthful'
    BY DEF RunnerInv, WrittenOnce, ListensFirst, ManifestsTruthful
<1>7. OnlyCrashesOrphan'
    BY <1>1, <1>3 DEF RunnerInv, OnlyCrashesOrphan, TypeOK, TunnelTypeOK
<1> QED
    BY <1>4, <1>5, <1>6, <1>7 DEF RunnerInv

LEMMA EndInv == RunnerInv /\ (exit \/ crash) => RunnerInv'
<1> SUFFICES ASSUME RunnerInv, exit \/ crash PROVE RunnerInv'
    OBVIOUS
<1> USE TunnelAssumption, RunnerAssumption DEF exit, crash, closed
<1>1. run \in Runs
    BY DEF RunnerInv, TypeOK, OneTunnelPerRun
<1>2. TypeOK'
    BY <1>1 DEF RunnerInv, TypeOK, TunnelTypeOK, Phases, ConnStates
<1>3. OneTunnelPerRun' /\ WrittenOnce' /\ ListensFirst' /\ ManifestsTruthful'
    BY DEF RunnerInv, OneTunnelPerRun, WrittenOnce, ListensFirst, ManifestsTruthful
<1>4. OnlyCrashesOrphan'
    BY DEF RunnerInv, OnlyCrashesOrphan, OneTunnelPerRun
<1> QED
    BY <1>2, <1>3, <1>4 DEF RunnerInv

(* The tunnel of the run. *)
LEMMA TunnelInv == RunnerInv /\ Tunnel => RunnerInv'
<1> SUFFICES ASSUME RunnerInv, Tunnel PROVE RunnerInv'
    OBVIOUS
<1> USE TunnelAssumption DEF runnerVars
<1>0. UNCHANGED runnerVars
    BY DEF Tunnel
<1>1. CASE \E chunk \in Chunks : phase \in {"running", "stopping"} /\ handleOutput(run, chunk)
    <2>1. PICK chunk \in Chunks : phase \in {"running", "stopping"} /\ handleOutput(run, chunk)
        BY <1>1
    <2>2. publicUrl' \in Addresses /\ publicUrl = None
        BY <2>1, ParsedAddress DEF handleOutput
    <2>3. ~announced /\ writing' = "open" /\ UNCHANGED <<children, announced, tunnelManifest>>
        BY <2>1, <2>2 DEF handleOutput, RunnerInv, WrittenOnce
    <2> QED
        BY <1>0, <2>1, <2>2, <2>3
           DEF RunnerInv, TypeOK, TunnelTypeOK, OneTunnelPerRun, WrittenOnce, ListensFirst,
               OnlyCrashesOrphan, ManifestsTruthful
<1>2. CASE truncateManifest
    BY <1>0, <1>2
       DEF truncateManifest, RunnerInv, TypeOK, TunnelTypeOK, OneTunnelPerRun, WrittenOnce,
           ListensFirst, OnlyCrashesOrphan, ManifestsTruthful
<1>3. CASE fillManifest(run)
    <2>1. run \in Runs /\ publicUrl \in Addresses
        BY <1>3 DEF fillManifest, RunnerInv, TypeOK, TunnelTypeOK, OneTunnelPerRun, WrittenOnce
    <2> QED
        BY <1>0, <1>3, <2>1
           DEF fillManifest, RunnerInv, TypeOK, TunnelTypeOK, OneTunnelPerRun, WrittenOnce,
               ListensFirst, OnlyCrashesOrphan, ManifestsTruthful
<1>4. CASE writeFails
    BY <1>0, <1>4
       DEF writeFails, RunnerInv, TypeOK, TunnelTypeOK, OneTunnelPerRun, WrittenOnce,
           ListensFirst, OnlyCrashesOrphan, ManifestsTruthful
<1>5. CASE \E r \in Runs : childExit(r)
    <2>1. PICK r \in Runs : childExit(r)
        BY <1>5
    <2>2. children' \in [Runs -> ChildStates]
        BY <2>1 DEF childExit, RunnerInv, TypeOK, TunnelTypeOK, ChildStates
    <2>3. \A s \in Runs : /\ children'[s] = "alive" => children[s] = "alive"
                          /\ children[s] = "none" => children'[s] = "none"
        BY <2>1 DEF childExit, RunnerInv, TypeOK, TunnelTypeOK
    <2>4. TypeOK'
        BY <1>0, <2>1, <2>2 DEF childExit, RunnerInv, TypeOK, TunnelTypeOK
    <2>5. OneTunnelPerRun'
        <3>1. phase # "down" => run \in Runs
            BY DEF RunnerInv, TypeOK, OneTunnelPerRun
        <3> QED
            BY <1>0, <2>3, <3>1 DEF RunnerInv, OneTunnelPerRun
    <2>6. OnlyCrashesOrphan'
        BY <1>0, <2>3 DEF RunnerInv, OnlyCrashesOrphan
    <2>7. WrittenOnce' /\ ListensFirst' /\ ManifestsTruthful'
        BY <1>0, <2>1 DEF childExit, RunnerInv, WrittenOnce, ListensFirst, ManifestsTruthful
    <2> QED
        BY <2>4, <2>5, <2>6, <2>7 DEF RunnerInv
<1> QED
    BY <1>1, <1>2, <1>3, <1>4, <1>5 DEF Tunnel

(* Connections change nothing but themselves. *)
LEMMA ConnectionInv == RunnerInv /\ Connection => RunnerInv'
<1> SUFFICES ASSUME RunnerInv, Connection PROVE RunnerInv'
    OBVIOUS
<1>1. UNCHANGED RunnerVarsUsed /\ UNCHANGED tunnelVars
    BY DEF Connection, connect, request, respond, hangUp, handleUpgrade, handleSse, become,
           send, receive, runnerVars, RunnerVarsUsed
<1>2. conns' \in [Conns -> ConnStates]
    BY DEF Connection, connect, request, respond, hangUp, handleUpgrade, handleSse, become,
           send, receive, runnerVars, RunnerInv, TypeOK, ConnStates
<1> QED
    BY <1>1, <1>2
       DEF RunnerVarsUsed, tunnelVars, RunnerInv, TypeOK, TunnelTypeOK, OneTunnelPerRun,
           WrittenOnce, ListensFirst, OnlyCrashesOrphan, ManifestsTruthful

LEMMA NextRunnerInv == RunnerInv /\ [Next]_vars => RunnerInv'
<1>1. RunnerInv /\ UNCHANGED vars => RunnerInv'
    BY DEF vars, runnerVars, tunnelVars, RunnerInv, TypeOK, TunnelTypeOK, OneTunnelPerRun,
           WrittenOnce, ListensFirst, OnlyCrashesOrphan, ManifestsTruthful
<1> QED
    BY <1>1, BootInv, ListenInv, StartRestInv, StopInv, EndInv, TunnelInv, ConnectionInv DEF Next

LEMMA SpecRunnerInv == Spec => []RunnerInv
BY InitRunnerInv, NextRunnerInv, PTL DEF Spec

-------------------------------------------------------------------------------
(* The decoder takes out no more frames than have come in full. *)
SocketInv ==
    /\ stream \in Seq(FrameKinds)
    /\ arrived \in Nat /\ arrived <= 2 * Len(stream)
    /\ decoded \in Nat /\ decoded <= wholeFrames(arrived)
    /\ handled \in Seq(Nat)
    /\ HandledInOrder

LEMMA LeastNatural ==
    ASSUME NEW T \in SUBSET Nat, T # {}
    PROVE  \E x \in T : \A y \in T : x <= y
<1> DEFINE before == {ss \in Nat \X Nat : ss[1] < ss[2]}
<1>1. IsWellFoundedOn(before, Nat)
    BY Zenon, NatLessThanWellFounded DEF OpToRel
<1> HIDE DEF before
<1>2. PICK x \in T : \A y \in T : ~(<<y, x>> \in before)
    BY <1>1, WFMin, Zenon
<1>3. ASSUME NEW y \in T PROVE x <= y
    <2>1. x \in Nat /\ y \in Nat /\ ~(<<y, x>> \in before)
        BY <1>2
    <2>2. ~(y < x)
        BY <2>1 DEF before
    <2> QED
        BY <2>1, <2>2
<1> QED
    BY <1>3

(* The loop goes over texts, to the end of the whole frames or to the first  *)
(* frame that gives no message.                                              *)
LEMMA DecodeLoop ==
    ASSUME NEW from \in Nat, NEW whole \in Nat, from <= whole
    PROVE  /\ decodeLoop(from, whole) \in from..whole
           /\ \A f \in (from + 1)..(decodeLoop(from, whole) - 1) : stream[f] = "text"
           /\ decodeLoop(from, whole) < whole =>
                 from < decodeLoop(from, whole) /\ stream[decodeLoop(from, whole)] # "text"
<1> DEFINE stops == {f \in (from + 1)..whole : stream[f] # "text"}
<1>1. CASE stops = {}
    <2>1. decodeLoop(from, whole) = whole
        BY <1>1 DEF decodeLoop
    <2>2. \A f \in (from + 1)..whole : stream[f] = "text"
        BY <1>1
    <2> QED
        BY <2>1, <2>2
<1>2. CASE stops # {}
    <2>1. \E f \in stops : \A g \in stops : f <= g
        <3>1. stops \in SUBSET Nat
            OBVIOUS
        <3> QED
            BY <1>2, <3>1, LeastNatural
    <2> DEFINE first == CHOOSE f \in stops : \A g \in stops : f <= g
    <2>2. first \in stops /\ \A g \in stops : first <= g
        BY <2>1
    <2>3. decodeLoop(from, whole) = first
        BY <1>2 DEF decodeLoop
    <2> HIDE DEF first
    <2>4. first \in (from + 1)..whole /\ stream[first] # "text"
        BY <2>2
    <2>5. ASSUME NEW f \in (from + 1)..(first - 1) PROVE stream[f] = "text"
        <3>1. f \in (from + 1)..whole /\ ~(first <= f)
            BY <2>4
        <3> QED
            BY <2>2, <3>1
    <2> QED
        BY <2>3, <2>4, <2>5
<1> QED
    BY <1>1, <1>2

LEMMA LastText ==
    ASSUME NEW from \in Nat, NEW to \in Nat, from <= to,
           \A f \in (from + 1)..(to - 1) : stream[f] = "text"
    PROVE  /\ lastText(from, to) \in from..to
           /\ \A f \in (from + 1)..lastText(from, to) : stream[f] = "text"
           /\ \A f \in (lastText(from, to) + 1)..to : stream[f] # "text"
<1>1. CASE from < to /\ stream[to] # "text"
    <2>1. lastText(from, to) = to - 1
        BY <1>1 DEF lastText
    <2>2. \A f \in to..to : stream[f] # "text"
        BY <1>1
    <2> QED
        BY <1>1, <2>1, <2>2
<1>2. CASE ~(from < to /\ stream[to] # "text")
    <2>1. lastText(from, to) = to
        BY <1>2 DEF lastText
    <2>2. ASSUME NEW f \in (from + 1)..to PROVE stream[f] = "text"
        <3>1. f \in (from + 1)..(to - 1) \/ (f = to /\ from < to)
            OBVIOUS
        <3> QED
            BY <1>2, <3>1
    <2> QED
        BY <2>1, <2>2
<1> QED
    BY <1>1, <1>2

LEMMA DataInv == \A n \in 1..(2 * MaxFrames) : SocketInv /\ data(n) => SocketInv'
<1> SUFFICES ASSUME NEW n \in 1..(2 * MaxFrames), SocketInv, data(n) PROVE SocketInv'
    OBVIOUS
<1> DEFINE whole == wholeFrames(arrived')
           last == lastText(decoded, decoded')
           size == Len(handled)
<1>1. /\ stream' = stream /\ stream \in Seq(FrameKinds) /\ arrived' = arrived + n
      /\ arrived' \in Nat /\ arrived' <= 2 * Len(stream)
    BY DEF data, SocketInv
<1>2. whole \in Nat /\ decoded \in Nat /\ decoded <= whole
    BY <1>1 DEF SocketInv, wholeFrames
<1>3. decoded' = decodeLoop(decoded, whole)
    BY DEF data
<1>4. /\ decoded' \in decoded..whole
      /\ \A f \in (decoded + 1)..(decoded' - 1) : stream[f] = "text"
      /\ decoded' < whole => decoded < decoded' /\ stream[decoded'] # "text"
    BY <1>2, <1>3, DecodeLoop
<1>5. /\ last \in decoded..decoded'
      /\ \A f \in (decoded + 1)..last : stream[f] = "text"
      /\ \A f \in (last + 1)..decoded' : stream[f] # "text"
    <2>1. decoded \in Nat /\ decoded' \in Nat /\ decoded <= decoded'
        BY <1>2, <1>4
    <2>2. stream' = stream
        BY <1>1
    <2> QED
        BY <1>4, <2>1, <2>2, LastText
<1> HIDE DEF whole, last, size
<1>6. /\ handled \in Seq(Nat) /\ size \in Nat
      /\ DOMAIN handled = 1..size
      /\ \A i \in 1..size : handled[i] \in 1..decoded /\ stream[handled[i]] = "text"
      /\ \A f \in 1..decoded : stream[f] = "text" => \E i \in 1..size : handled[i] = f
      /\ \A i, j \in 1..size : i < j => handled[i] < handled[j]
    <2>1. handled \in Seq(Nat) /\ size \in Nat /\ DOMAIN handled = 1..size
        BY DEF SocketInv, size
    <2>2. ToSet(handled) = {f \in 1..decoded : stream[f] = "text"}
        BY DEF SocketInv, HandledInOrder
    <2>3. \A i \in 1..size : handled[i] \in ToSet(handled)
        BY <2>1 DEF ToSet
    <2>4. \A f \in ToSet(handled) : \E i \in 1..size : handled[i] = f
        BY <2>1 DEF ToSet
    <2>5. \A i, j \in 1..size : i < j => handled[i] < handled[j]
        BY <2>1 DEF SocketInv, HandledInOrder
    <2> QED
        BY <2>1, <2>2, <2>3, <2>4, <2>5
<1>7. /\ handled' \in Seq(Nat) /\ DOMAIN handled' = 1..(size + (last - decoded))
      /\ \A i \in 1..size : handled'[i] = handled[i]
      /\ \A i \in (size + 1)..(size + (last - decoded)) : handled'[i] = decoded + (i - size)
    <2> DEFINE texts == textsOf(decoded, decoded')
    <2>1. texts \in Seq(Nat) /\ Len(texts) = last - decoded
          /\ \A i \in 1..(last - decoded) : texts[i] = decoded + i
        <3>1. last - decoded \in Nat
            BY <1>2, <1>4, <1>5
        <3>2. texts = [i \in 1..(last - decoded) |-> decoded + i]
            BY DEF textsOf, last
        <3> QED
            BY <1>2, <3>1, <3>2
    <2>2. handled' = handled \o texts
        BY DEF data
    <2> HIDE DEF texts
    <2>3. last - decoded \in Nat /\ decoded \in Nat
        BY <1>2, <1>4, <1>5
    <2>4. handled \in Seq(Nat) /\ Len(handled) = size
        BY <1>6 DEF size
    <2>5. /\ handled \o texts \in Seq(Nat) /\ Len(handled \o texts) = size + (last - decoded)
          /\ \A i \in 1..(size + (last - decoded)) :
                (handled \o texts)[i] = IF i <= size THEN handled[i] ELSE texts[i - size]
        BY <2>1, <2>3, <2>4
    <2>6. \A i \in (size + 1)..(size + (last - decoded)) :
              (handled \o texts)[i] = decoded + (i - size)
        <3> SUFFICES ASSUME NEW i \in (size + 1)..(size + (last - decoded))
                     PROVE  (handled \o texts)[i] = decoded + (i - size)
            OBVIOUS
        <3>1. i \in 1..(size + (last - decoded)) /\ ~(i <= size) /\ i - size \in 1..(last - decoded)
            BY <1>6, <2>3
        <3> QED
            BY <2>1, <2>5, <3>1
    <2> QED
        BY <1>6, <2>2, <2>3, <2>5, <2>6
<1>8. \A i \in DOMAIN handled' : handled'[i] \in 1..decoded' /\ stream[handled'[i]] = "text"
    <2> SUFFICES ASSUME NEW i \in DOMAIN handled'
                 PROVE  handled'[i] \in 1..decoded' /\ stream[handled'[i]] = "text"
        OBVIOUS
    <2>1. CASE i <= size
        BY <1>2, <1>4, <1>6, <1>7, <2>1
    <2>2. CASE i > size
        <3>1. handled'[i] = decoded + (i - size) /\ decoded + (i - size) \in (decoded + 1)..last
            BY <1>2, <1>4, <1>5, <1>6, <1>7, <2>2
        <3> QED
            BY <1>2, <1>4, <1>5, <3>1
    <2> QED
        BY <1>6, <1>7, <2>1, <2>2
<1>9. \A f \in 1..decoded' : stream[f] = "text" => \E i \in DOMAIN handled' : handled'[i] = f
    <2> SUFFICES ASSUME NEW f \in 1..decoded', stream[f] = "text"
                 PROVE  \E i \in DOMAIN handled' : handled'[i] = f
        OBVIOUS
    <2>1. CASE f <= decoded
        <3>1. PICK i \in 1..size : handled[i] = f
            BY <1>2, <1>6, <2>1
        <3>2. i \in 1..(size + (last - decoded))
            BY <1>2, <1>4, <1>5, <1>6
        <3> QED
            BY <1>7, <3>1, <3>2
    <2>2. CASE f > decoded
        <3>1. f <= last
            BY <1>2, <1>4, <1>5, <2>2
        <3>2. size + (f - decoded) \in (size + 1)..(size + (last - decoded))
            BY <1>2, <1>4, <1>5, <1>6, <2>2, <3>1
        <3>3. handled'[size + (f - decoded)] = f
            BY <1>2, <1>4, <1>6, <1>7, <3>2
        <3>4. size + (f - decoded) \in DOMAIN handled'
            BY <1>6, <1>7, <3>2
        <3> QED
            BY <3>3, <3>4
    <2> QED
        BY <1>2, <1>4, <2>1, <2>2
<1>10. ToSet(handled') = {f \in 1..decoded' : stream[f] = "text"}
    BY <1>8, <1>9 DEF ToSet
<1>11. \A i, j \in DOMAIN handled' : i < j => handled'[i] < handled'[j]
    <2> SUFFICES ASSUME NEW i \in DOMAIN handled', NEW j \in DOMAIN handled', i < j
                 PROVE  handled'[i] < handled'[j]
        OBVIOUS
    <2>1. CASE j <= size
        BY <1>6, <1>7, <2>1
    <2>2. CASE i <= size /\ j > size
        <3>1. handled'[i] \in Int /\ handled'[i] <= decoded
            BY <1>2, <1>6, <1>7, <2>2
        <3>2. handled'[j] = decoded + (j - size)
            BY <1>6, <1>7, <2>2
        <3> QED
            BY <1>2, <1>6, <1>7, <2>2, <3>1, <3>2
    <2>3. CASE i > size
        <3>1. /\ i \in (size + 1)..(size + (last - decoded))
              /\ j \in (size + 1)..(size + (last - decoded))
            BY <1>2, <1>4, <1>5, <1>6, <1>7, <2>3
        <3>2. handled'[i] = decoded + (i - size) /\ handled'[j] = decoded + (j - size)
            BY <1>7, <3>1
        <3> QED
            BY <1>2, <1>6, <3>1, <3>2
    <2> QED
        BY <1>6, <1>7, <2>1, <2>2, <2>3
<1>12. HandledInOrder'
    BY <1>1, <1>2, <1>4, <1>10, <1>11 DEF HandledInOrder, whole
<1> QED
    BY <1>1, <1>2, <1>4, <1>7, <1>12 DEF SocketInv, whole

LEMMA WriteFrameInv == \A kind \in FrameKinds : SocketInv /\ writeFrame(kind) => SocketInv'
<1> SUFFICES ASSUME NEW kind \in FrameKinds, SocketInv, writeFrame(kind) PROVE SocketInv'
    OBVIOUS
<1>1. /\ stream \in Seq(FrameKinds) /\ stream' = Append(stream, kind)
      /\ arrived' = arrived /\ decoded' = decoded /\ handled' = handled
    BY DEF writeFrame, SocketInv
<1>2. stream' \in Seq(FrameKinds) /\ Len(stream') = Len(stream) + 1
      /\ \A f \in 1..Len(stream) : stream'[f] = stream[f]
    BY <1>1
<1>3. arrived \in Nat /\ decoded \in Nat /\ decoded <= Len(stream)
    BY <1>1 DEF SocketInv, wholeFrames
<1>4. \A f \in 1..decoded : stream'[f] = stream[f]
    BY <1>1, <1>2, <1>3
<1>5. HandledInOrder'
    BY <1>1, <1>3, <1>4 DEF SocketInv, HandledInOrder
<1> QED
    BY <1>1, <1>2, <1>5 DEF SocketInv

LEMMA SocketResetInv == SocketReset => SocketInv'
<1> SUFFICES ASSUME SocketReset PROVE SocketInv'
    OBVIOUS
<1>1. stream' = <<>> /\ arrived' = 0 /\ decoded' = 0 /\ handled' = <<>>
    BY DEF SocketReset
<1>2. ToSet(handled') = {f \in 1..decoded' : stream'[f] = "text"} /\ DOMAIN handled' = {}
    BY <1>1 DEF ToSet
<1>3. HandledInOrder'
    BY <1>1, <1>2 DEF HandledInOrder, wholeFrames
<1> QED
    BY <1>1, <1>3 DEF SocketInv, wholeFrames

LEMMA SpecSocketInv == Spec => []SocketInv
<1>1. Init => SocketInv
    <2> SUFFICES ASSUME Init PROVE SocketInv
        OBVIOUS
    <2>1. stream = <<>> /\ arrived = 0 /\ decoded = 0 /\ handled = <<>>
        BY DEF Init, SocketInit
    <2>2. ToSet(handled) = {f \in 1..decoded : stream[f] = "text"} /\ DOMAIN handled = {}
        BY <2>1 DEF ToSet
    <2>3. HandledInOrder
        BY <2>1, <2>2 DEF HandledInOrder, wholeFrames
    <2> QED
        BY <2>1, <2>3 DEF SocketInv, wholeFrames
<1>2. SocketInv /\ UNCHANGED socketVars => SocketInv'
    BY DEF socketVars, SocketInv, HandledInOrder
<1>3. SocketInv /\ [Next]_vars => SocketInv'
    <2> SUFFICES ASSUME SocketInv, [Next]_vars PROVE SocketInv'
        OBVIOUS
    <2>1. CASE UNCHANGED vars \/ Tunnel
        BY <1>2, <2>1 DEF vars, Tunnel
    <2>2. CASE \/ boot \/ listen \/ listenFails \/ truncateLive \/ fillLive \/ startRest \/ exit
        BY <1>2, <2>2
           DEF boot, listen, listenFails, truncateLive, fillLive, startRest, exit, socketVars
    <2>3. CASE stop \/ crash
        BY <2>3, SocketResetInv DEF stop, crash
    <2>4. CASE Connection
        <3>1. CASE \E kind \in FrameKinds : send(kind)
            BY <3>1, WriteFrameInv DEF send
        <3>2. CASE \E n \in 1..(2 * MaxFrames) : receive(n)
            BY <3>2, DataInv DEF receive
        <3>3. CASE \E c \in Conns : \/ connect(c) \/ request(c) \/ respond(c) \/ hangUp(c)
                                    \/ handleUpgrade(c) \/ handleSse(c)
            <4>1. SocketReset \/ UNCHANGED socketVars
                BY <3>3 DEF connect, request, respond, hangUp, handleUpgrade, handleSse, become
            <4> QED
                BY <1>2, <4>1, SocketResetInv
        <3> QED
            BY <2>4, <3>1, <3>2, <3>3 DEF Connection
    <2> QED
        BY <2>1, <2>2, <2>3, <2>4 DEF Next
<1> QED
    BY <1>1, <1>3, PTL DEF Spec

-------------------------------------------------------------------------------
(* The runner, its connections and its tunnel keep their shape. *)
THEOREM RunnerTyped == Spec => []TypeOK
<1>1. RunnerInv => TypeOK
    BY DEF RunnerInv
<1> QED
    BY <1>1, SpecRunnerInv, PTL

(* A cloudflared is left unsignalled only by a run that crashed: the stop of *)
(* start.js ends no run without stopping its tunnel.                         *)
THEOREM RunnerOrphans == Spec => []OnlyCrashesOrphan
<1>1. RunnerInv => OnlyCrashesOrphan
    BY DEF RunnerInv
<1> QED
    BY <1>1, SpecRunnerInv, PTL

(* What the two manifests of .runtime say is so: of a run that has listened, *)
(* and of the address that was announced.                                    *)
THEOREM RunnerManifests == Spec => []ManifestsTruthful
<1>1. RunnerInv => ManifestsTruthful
    BY DEF RunnerInv
<1> QED
    BY <1>1, SpecRunnerInv, PTL
(* The texts of a WebSocket are handled once each and in the order they were *)
(* written, however the network cuts their bytes and for any number of them. *)
THEOREM RunnerFrames == Spec => []HandledInOrder
<1>1. SocketInv => HandledInOrder
    BY DEF SocketInv
<1> QED
    BY <1>1, SpecSocketInv, PTL

=================================================================================

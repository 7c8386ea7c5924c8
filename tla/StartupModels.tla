----------------------------- MODULE StartupModels -----------------------------
(***************************************************************************)
(* The startup of a mesh: SecurePeerOnnxMesh.join, the selection of its    *)
(* models and the loader of secure-peer-onnx-kit/src/startup.  A manifest  *)
(* is referred to by its place in the list the mesh is given: nothing      *)
(* refuses two manifests of one modelId, and the ledger tells models by    *)
(* modelId.  The loader takes the selected models one after the other, and *)
(* waits in each; the mesh is nobody else's before join() returns, so      *)
(* loading one model is one step.  The session a runtime creates for a     *)
(* model is a choice.                                                      *)
(***************************************************************************)
EXTENDS Integers, Sequences, SequencesExt, FiniteSets

CONSTANTS
    Workers,            \* the peers that join a mesh
    ModelIds,
    Manifests,          \* the models offered: a sequence of Manifest
    Configs,            \* the startupModels options a peer may use
    providerOrder,      \* fallbackProviderOrder
    supportedProviders, \* what the runtime of the peers supports
    NoProvider,
    MaxJoins            \* bound: how often a peer starts

VARIABLES
    joins,      \* how often each peer has started
    mesh        \* modelState and the model events of the ledger of each peer, with
                \* (a history) the session that each model tried so far came to

startupVars == <<joins, mesh>>

Models == DOMAIN Manifests
Strategies == {"priority", "smallest", "fit-memory", "explicit"}

(* estimatedMemoryMb and sizeBytes in units of their own; `providers` are    *)
(* the executionProviders and fallbackExecutionProviders.                    *)
Manifest == [modelId: ModelIds, priority: Nat, sizeBytes: Nat, estimatedMemoryMb: Nat,
             providers: SUBSET STRING, hasTestVectors: BOOLEAN]

Config == [count: Nat, mode: {"exact", "up-to"}, strategy: Strategies,
           explicitModelIds: Seq(ModelIds), requireTestVector: BOOLEAN, memoryBudgetMb: Nat]

(* A model comes to no session (no provider, or createSession throws), to   *)
(* one without a runTestVector, or to one that answers the test vectors     *)
(* right, as every model's does with no runtime, or one of them wrong.      *)
Sessions == {"none", "silent", "right", "wrong"}

ASSUME ManifestsAssumption == Manifests \in Seq(Manifest)
ASSUME ConfigsAssumption == Configs # {} /\ Configs \subseteq Config /\ MaxJoins \in Nat

-------------------------------------------------------------------------------
(* chooseProvider: the first provider of the order that both sides allow.   *)
chooseProvider(m) ==
    LET usable == SelectSeq(providerOrder,
                     LAMBDA p : p \in supportedProviders /\ p \in Manifests[m].providers)
    IN IF usable = <<>> THEN NoProvider ELSE Head(usable)

atLeast1(n) == IF n = 0 THEN 1 ELSE n

(* The comparisons of the strategies; an explicit list is not sorted.       *)
precedes(strategy, a, b) ==
    \/ /\ strategy = "priority"
       /\ \/ a.priority > b.priority
          \/ a.priority = b.priority /\ a.sizeBytes < b.sizeBytes
    \/ /\ strategy = "smallest"
       /\ \/ a.sizeBytes < b.sizeBytes
          \/ a.sizeBytes = b.sizeBytes /\ a.priority > b.priority
    \/ /\ strategy = "fit-memory"
       /\ a.priority * atLeast1(b.estimatedMemoryMb) > b.priority * atLeast1(a.estimatedMemoryMb)

candidates(cfg) ==
    IF cfg.strategy = "explicit"
      THEN {m \in Models : Manifests[m].modelId \in ToSet(cfg.explicitModelIds)}
      ELSE Models

(* The sort is stable: equal candidates stay in the order of the list.      *)
comesBefore(cfg, i, j) ==
    LET before(a, b) == precedes(cfg.strategy, Manifests[a], Manifests[b])
    IN before(i, j) \/ (~before(j, i) /\ i < j)

ranked(cfg) ==
    CHOOSE order \in [1..Cardinality(candidates(cfg)) -> candidates(cfg)] :
        \A m, n \in DOMAIN order : m < n => comesBefore(cfg, order[m], order[n])

(* The loop of the selection: what it has selected and the memory they use. *)
Selection == [selected: Seq(Models), usedMemory: Nat]
nothingSelected == [selected |-> <<>>, usedMemory |-> 0]

fits(cfg, usedMemory, m) == usedMemory + Manifests[m].estimatedMemoryMb <= cfg.memoryBudgetMb

withModel(taken, m) ==
    [selected |-> Append(taken.selected, m),
     usedMemory |-> taken.usedMemory + Manifests[m].estimatedMemoryMb]

(* A definition with "Mutant:" in its comment is not the code's: it is the   *)
(* next definition with a bug put in, for checking that a property sees it.  *)

(* Mutant: a model that does not fit ends the selection. *)
turnUntilFull(cfg, taken, m) ==
    IF /\ Len(taken.selected) < cfg.count
       /\ \A k \in Models : cfg.strategy = "fit-memory" => fits(cfg, taken.usedMemory, k)
      THEN withModel(taken, m) ELSE taken

(* One turn: past `count` the code breaks off, and a turn changes nothing.  *)
turn(cfg, taken, m) ==
    IF /\ Len(taken.selected) < cfg.count
       /\ cfg.strategy = "fit-memory" => fits(cfg, taken.usedMemory, m)
      THEN withModel(taken, m) ELSE taken

(* selectStartupModels, but for its last check.  A count of zero selects    *)
(* nothing by itself.                                                       *)
select(cfg) ==
    LET order == ranked(cfg)
        loop[n \in 0..Len(order)] ==
            IF n = 0 THEN nothingSelected ELSE turn(cfg, loop[n - 1], order[n])
    IN loop[Len(order)].selected

(* validateModelManifests, normalizeStartupModelsConfig and the last check  *)
(* of selectStartupModels.                                                  *)
startupThrows(cfg) ==
    \/ \E m \in Models : Manifests[m].estimatedMemoryMb > cfg.memoryBudgetMb
    \/ /\ cfg.mode = "exact" /\ cfg.strategy = "explicit"
       /\ Len(cfg.explicitModelIds) # cfg.count
    \/ cfg.mode = "exact" /\ Len(select(cfg)) # cfg.count

-------------------------------------------------------------------------------
newMesh(at, cfg, selected) ==
    [at |-> at, config |-> cfg, selected |-> selected, warm |-> <<>>, failed |-> <<>>,
     events |-> {}, sessions |-> <<>>]

StartupInit ==
    /\ joins = [w \in Workers |-> 0]
    /\ mesh = [w \in Workers |-> newMesh("new", CHOOSE c \in Configs : TRUE, <<>>)]

(* SecurePeerOnnxMesh.join of a peer that starts, or starts again with a    *)
(* new mesh and a new ledger, up to the loop of the loader.                 *)
join(w, cfg) ==
    /\ joins[w] < MaxJoins
    /\ joins' = [joins EXCEPT ![w] = @ + 1]
    /\ mesh' = [mesh EXCEPT ![w] =
         CASE startupThrows(cfg) -> newMesh("rejected", cfg, <<>>)
           [] ~startupThrows(cfg) /\ select(cfg) = <<>> -> newMesh("ready", cfg, <<>>)
           [] OTHER -> newMesh("loading", cfg, select(cfg))]

nextModel(w) == mesh[w].selected[Len(mesh[w].warm) + Len(mesh[w].failed) + 1]
isLast(w) == Len(mesh[w].warm) + Len(mesh[w].failed) + 1 = Len(mesh[w].selected)

told(m, phases) == {Manifests[m].modelId} \X phases

(* Mutant: without test vectors a model is warm, wanted or not. *)
loadUntested(w, m, session) ==
    /\ chooseProvider(m) # NoProvider
    /\ session \in {"silent", "right"}
    /\ mesh' = [mesh EXCEPT ![w].warm = Append(@, m),
                            ![w].sessions = Append(@, session),
                            ![w].events = @ \cup told(m, {"started", "warm"}),
                            ![w].at = IF isLast(w) THEN "ready" ELSE "loading"]

(* With vectors, it is for the session to fail one; one without a           *)
(* runTestVector is not asked.                                              *)
runTestVectors(w, m, session) ==
    IF Manifests[m].hasTestVectors THEN session # "wrong" ELSE ~mesh[w].config.requireTestVector

(* A session was created and no test vector failed. *)
loadSucceeds(w, m, session) ==
    /\ chooseProvider(m) # NoProvider
    /\ session # "none"
    /\ runTestVectors(w, m, session)
    /\ mesh' = [mesh EXCEPT ![w].warm = Append(@, m),
                            ![w].sessions = Append(@, session),
                            ![w].events = @ \cup told(m, {"started", "warm"}),
                            ![w].at = IF isLast(w) THEN "ready" ELSE "loading"]

(* No provider, no session, no test vectors where they are required, or one *)
(* that fails: exact startup throws, the other goes on.                     *)
loadFails(w, m, session) ==
    /\ chooseProvider(m) = NoProvider => session = "none"
    /\ session = "none" \/ ~runTestVectors(w, m, session)
    /\ mesh' = [mesh EXCEPT
         ![w].failed = Append(@, m),
         ![w].sessions = Append(@, session),
         ![w].events = @ \cup told(m, IF chooseProvider(m) = NoProvider
                                       THEN {"failed"} ELSE {"started", "failed"}),
         ![w].at = CASE mesh[w].config.mode = "exact" -> "rejected"
                     [] mesh[w].config.mode = "up-to" /\ isLast(w) -> "ready"
                     [] OTHER -> "loading"]

(* One turn of the loop of loadStartupModels.  In exact mode the loop and   *)
(* the break at `count` warm models end at the same model.                  *)
loadOneModelWithFallback(w) ==
    /\ mesh[w].at = "loading"
    /\ \E session \in Sessions :
          \/ loadSucceeds(w, nextModel(w), session)
          \/ loadFails(w, nextModel(w), session)
    /\ UNCHANGED joins

StartupStep(w) == (\E cfg \in Configs : join(w, cfg)) \/ loadOneModelWithFallback(w)

-------------------------------------------------------------------------------
StartupTypeOK ==
    /\ joins \in [Workers -> 0..MaxJoins]
    /\ \A w \in Workers :
          /\ mesh[w].at \in {"new", "loading", "ready", "rejected"}
          /\ mesh[w].config \in Configs
          /\ \A s \in {mesh[w].selected, mesh[w].warm, mesh[w].failed} : s \in Seq(Models)
          /\ mesh[w].events \subseteq ModelIds \X {"started", "failed", "warm"}
          /\ mesh[w].sessions \in Seq(Sessions)

(* "Startup model loading can fail closed in exact mode or degrade in up-to  *)
(* mode" (docs/architecture.md:31): a mesh that is ready has one verdict for *)
(* every selected model, and in exact mode exactly `count` of them are warm. *)
(* The ledger tells of a warm and of a failed model just as the state does,  *)
(* by modelId (of two manifests of one id it may tell both).  No mesh, ready *)
(* or not, has a model warm without a session, with one that failed a test   *)
(* vector, or without vectors where its peer required them; a session that   *)
(* cannot be asked passes.                                                   *)
StartupVerdict ==
    \A w \in Workers :
        LET m == mesh[w]
            onRecord(phase) == {id \in ModelIds : <<id, phase>> \in m.events}
            idsOf(models) == {Manifests[k].modelId : k \in ToSet(models)}
        IN /\ m.at = "ready" =>
                /\ ToSet(m.selected) = ToSet(m.warm) \cup ToSet(m.failed)
                /\ Len(m.selected) = Len(m.warm) + Len(m.failed)
                /\ m.config.mode = "exact" => Len(m.warm) = m.config.count
           /\ ToSet(m.warm) \cap ToSet(m.failed) = {}
           /\ onRecord("warm") = idsOf(m.warm) /\ onRecord("failed") = idsOf(m.failed)
           /\ \A n \in DOMAIN m.sessions :
                 LET k == m.selected[n]
                 IN k \in ToSet(m.warm) =>
                       /\ m.sessions[n] # "none"
                       /\ Manifests[k].hasTestVectors => m.sessions[n] # "wrong"
                       /\ m.config.requireTestVector => Manifests[k].hasTestVectors

memoryOf(selected) ==
    LET sum[n \in 0..Len(selected)] ==
            IF n = 0 THEN 0 ELSE sum[n - 1] + Manifests[selected[n]].estimatedMemoryMb
    IN sum[Len(selected)]

(* What is selected is what the strategy is for: candidates in its order, no *)
(* more than wanted and, fitting by memory, within the budget.  One is left  *)
(* out only where, of those before it in that order, so many had been taken  *)
(* that the count was reached or that it did not fit beside them.            *)
SelectionIsBest ==
    \A w \in Workers :
        LET cfg == mesh[w].config
            selected == mesh[w].selected
            tight == cfg.strategy = "fit-memory"
        IN selected # <<>> =>
            /\ ToSet(selected) \subseteq candidates(cfg)
            /\ Len(selected) <= cfg.count
            /\ \A i, j \in DOMAIN selected : i < j => comesBefore(cfg, selected[i], selected[j])
            /\ tight => memoryOf(selected) <= cfg.memoryBudgetMb
            /\ \A k \in candidates(cfg) \ ToSet(selected) :
                  \E n \in 0..Len(selected) :
                      /\ \A i \in DOMAIN selected : i <= n <=> comesBefore(cfg, selected[i], k)
                      /\ \/ n = cfg.count
                         \/ tight /\ ~fits(cfg, memoryOf(SubSeq(selected, 1, n)), k)
=================================================================================

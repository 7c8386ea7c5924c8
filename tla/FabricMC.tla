--------------------------------- MODULE FabricMC ---------------------------------
(* Three manifests that the strategies rank differently, two of one model,    *)
(* one untested and one that no provider runs; and announcements of a room   *)
(* that contradict each other, beside one of another room and one of the     *)
(* parent room.                                                              *)
EXTENDS Fabric

CONSTANTS embed, chat, shard

MCModelIds == {embed, chat}
MCManifest(id, priority, size, memory, providers, tested) ==
    [modelId |-> id, priority |-> priority, sizeBytes |-> size, estimatedMemoryMb |-> memory,
     providers |-> providers, hasTestVectors |-> tested]

MCManifests == <<MCManifest(embed, 3, 3, 3, {"webgpu", "wasm"}, TRUE),
                 MCManifest(chat, 2, 1, 1, {"wasm"}, FALSE),
                 MCManifest(embed, 1, 2, 1, {"webgpu"}, TRUE)>>

MCConfig(count, mode, strategy, ids, required, budget) ==
    [count |-> count, mode |-> mode, strategy |-> strategy, explicitModelIds |-> ids,
     requireTestVector |-> required, memoryBudgetMb |-> budget]

MCConfigs == {MCConfig(2, "exact", "priority", <<>>, FALSE, 9),
              MCConfig(3, "up-to", "smallest", <<>>, TRUE, 9),
              MCConfig(3, "up-to", "fit-memory", <<>>, FALSE, 3),
              MCConfig(1, "exact", "explicit", <<chat>>, TRUE, 9),
              MCConfig(1, "exact", "explicit", <<embed, chat>>, TRUE, 9),
              MCConfig(1, "exact", "explicit", <<embed>>, TRUE, 9)}

MCOrder == <<"webgpu", "webgl", "wasm">>
MCAnnouncement(room, models, trust, cost, ttl) ==
    [room |-> room, warmModels |-> models, trust |-> trust, cost |-> cost, ttlMs |-> ttl]
MCAnnouncements == {MCAnnouncement(shard, {embed}, 1, 0, 1),
                    MCAnnouncement(shard, {chat}, 0, 1, 0),
                    MCAnnouncement(parentRoom, MCModelIds, 0, 1, 1)}
MCRequests == {[modelId |-> embed, trust |-> 1], [modelId |-> chat, trust |-> 0],
               [modelId |-> AnyModel, trust |-> 0]}
MCLadder == <<"direct-webrtc", "same-host-bridge", "relay-fallback">>
===================================================================================

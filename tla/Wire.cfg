SPECIFICATION Spec
CONSTANTS
  LayerCount = 8
  RankCount = 2
  MaxContext = 300
  VocabSize = 260
  MaxSlots = 2
  PrefillMax = 2
  AppendMax = 2
  AppendLayerMax = 1
  FetchMax = 2
  Hidden = 1
  Hyper = 1
  Ngram = 1
  Bulk = 1
  TopK = 2
  ExpertCount = 3
  HeadCount = 2
  OutputRank = 1
  Kinds = {"batch_work", "batch_result", "block_work", "block_result", "prefill_work", "prefill_result",
           "page_append", "page_fetch", "page_result", "barrier", "state_fetch", "state_result",
           "slice", "history", "control", "layer_work", "layer_result", "ring_work",
           "ring_result", "tile_work", "tile_result", "expert_work", "expert_result", "expert_tile",
           "shard_sum", "ngram_work", "ngram_result", "config", "output_work", "output_result",
           "partial"}
  Messages <- MCMessages
  Versions = {5, 6}
  Capacities = {12, 60, 80}
  Rooms = {1, 3}
  MaxFrame = 70
  ByteValues = {0, 1, 3, 127}
INVARIANT
    CodecsExact

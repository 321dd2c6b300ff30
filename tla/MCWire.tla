------------------------------- MODULE MCWire -------------------------------
(* The messages handed to the encoders, valid and invalid, for TLC. *)
EXTENDS Wire

One == <<63, 128, 0, 0>>
Inf == <<127, 128, 0, 0>>
Tokens == {0, MaxContext - 1, MaxContext}
Vectors(n) == {[i \in 1..n |-> One], [i \in 1..n |-> IF i = n THEN Inf ELSE One]}
Positions == {<<1, 2, 3, 0>>, <<1, 2, 3, 258>>}
Routes == {<<3, 0, 1>>, <<7, 1, 0>>, <<7, 1, 1>>, <<2, 0, 1>>, <<3, 0, RankCount>>, <<LayerCount + 3, 0, 1>>}
Blob(b) == [i \in 1..Bulk |-> b]

SlotWork(t, s, g) == {[token |-> t, state |-> s, pos |-> q, hyper |-> h, ngram |-> g] :
                      q \in Positions, h \in Vectors(Hyper)}
BatchRoutes == {<<1, 0, 1, 0>>, <<1, 0, 1, 3>>, <<2, 0, 1, 2>>, <<2, 0, 1, 1>>, <<1, 0, 1, 4>>,
                <<LayerCount, 0, 1, 0>>, <<1, RankCount, 1, 0>>}
NgramOf(f) == IF f % 2 = 1 THEN Vectors(Ngram) ELSE {<<>>}
BatchWorks ==
    UNION {UNION {{[layer |-> r[1], src |-> r[2], dst |-> r[3], flags |-> r[4], mode |-> m, slots |-> <<a>>],
                   [layer |-> r[1], src |-> r[2], dst |-> r[3], flags |-> r[4], mode |-> m,
                    slots |-> <<a, [a EXCEPT !.state = 0]>>]}
                  : m \in 0..1,
                    a \in UNION {SlotWork(t, s, g) : t \in Tokens, s \in 0..MaxSlots, g \in NgramOf(r[4])}}
           : r \in BatchRoutes}
BatchResults ==
    {[layer |-> l, src |-> 0, dst |-> d, flags |-> f, slots |-> s] :
        l \in {2, LayerCount}, d \in {1, RankCount}, f \in 0..1,
        s \in {<<>>} \cup UNION {{<<a>>, <<a, a>>, <<a, a, a>>} :
                a \in {[token |-> t, hyper |-> h] : t \in Tokens, h \in Vectors(Hyper)}}}
BlockWorks == {[layer |-> r[1], src |-> r[2], dst |-> r[3], token |-> 258, mode |-> m, pos |-> q,
                hidden |-> h] : r \in Routes, m \in 0..1, q \in Positions, h \in Vectors(Hidden)}
BlockResults == {[layer |-> r[1], src |-> r[2], dst |-> r[3], token |-> 258, hidden |-> h] :
                    r \in Routes, h \in Vectors(Hidden)}
PrefillWorks ==
    UNION {{[layer |-> r[1], src |-> r[2], dst |-> r[3], first |-> 5, n |-> n, mode |-> m,
             pos |-> [i \in 1 .. n * Axes(m) |-> i], hidden |-> h] : h \in Vectors(n * Hidden)}
           : r \in Routes, n \in 0 .. PrefillMax + 1, m \in 0..1}
PrefillResults ==
    UNION {{[layer |-> r[1], src |-> r[2], dst |-> r[3], first |-> 5, n |-> n, hidden |-> h] :
             h \in Vectors(n * Hidden)} : r \in Routes, n \in 0 .. PrefillMax + 1}
Pages(recs) == {[layer |-> l, block |-> b, records |-> recs] :
                l \in {3, 7}, b \in {0, 1, (MaxContext + 3) \div 4}}
PageBatches(recs) ==
    UNION {{[src |-> r[2], dst |-> r[3], id |-> 258, pages |-> s] : r \in {<<3, 0, 1>>, <<7, 1, 1>>}}
           : s \in {<<>>} \cup {<<a>> : a \in Pages(recs)} \cup {<<a, b>> : a, b \in Pages(recs)}
                   \cup {<<a, b, c>> : a, b, c \in Pages(recs)}}
Barriers == {[src |-> s, dst |-> d, id |-> 258] : s, d \in 0..RankCount}
StateFetches == {[layer |-> l, frontier |-> f] : l \in {0, LayerCount - 1, LayerCount}, f \in {0, 258}}
StateResults == {[src |-> s, layer |-> l, frontier |-> 258, conv |-> Blob(1), recurrent |-> Blob(2), ple |-> q] :
                 s \in {0, RankCount}, l \in {2, LayerCount}, q \in {<<>>, Blob(3)}}
Slices == {[src |-> s, dst |-> d, token |-> 258, hidden |-> h] :
           s, d \in 0..RankCount, h \in Vectors(Hidden)}
Histories == {[slot |-> s, tokens |-> t] : s \in 0..MaxSlots,
              t \in {<<>>, <<1>>, <<1, VocabSize - 1>>, <<VocabSize>>}}
Controls ==
    {[version |-> 2, op |-> o, rank |-> 1, mode |-> 1, flags |-> 0, slot |-> 1, nonce |-> <<0, 7>>,
      generation |-> g, committed |-> n, identity |-> Blob(1), frontier |-> f, format |-> Blob(2),
      state |-> s, context |-> c[1], gpu |-> c[2], hot |-> c[3], cache |-> c[4]] :
        o \in 0..9, g \in {<<0, 0>>, <<1, 0>>}, n \in {<<0, 0>>, <<0, 9>>},
        f \in {Blob(0), Blob(3)}, s \in {Blob(0), Blob(4)},
        c \in {<<9, 4, 4, <<0, 0>>>>, <<9, 4, 0, <<0, 0>>>>, <<9, 9, 0, <<0, 1>>>>, <<9, 10, 4, <<0, 0>>>>,
               <<9, 4, 10, <<0, 0>>>>}}

Zero == <<0, 0, 0, 0>>
LayerRoutes == {<<1, 0, 1>>, <<2, 1, 1>>, <<LayerCount, 0, 1>>, <<1, RankCount, 0>>}
LayerWorks ==
    UNION {{[layer |-> r[1], src |-> r[2], dst |-> r[3], flags |-> f, token |-> 258, mode |-> m, pos |-> q,
             hyper |-> h, ngram |-> g] : h \in Vectors(Hyper), g \in NgramOf(f)}
           : r \in LayerRoutes, f \in 0..4, m \in 0..1, q \in Positions}
LayerResults == {[layer |-> r[1], src |-> r[2], dst |-> r[3], token |-> 258, hyper |-> h] :
                 r \in LayerRoutes, h \in Vectors(Hyper)}
TileWorks ==
    UNION {{[layer |-> r[1], src |-> r[2], dst |-> r[3], flags |-> f, first |-> 5, n |-> n, mode |-> m,
             pos |-> [i \in 1 .. n * Axes(m) |-> i], hyper |-> h,
             ngram |-> IF f = 1 THEN [i \in 1 .. n * Ngram |-> One] ELSE <<>>] : h \in Vectors(n * Hyper)}
           : r \in LayerRoutes, f \in 0..2, n \in 0 .. PrefillMax + 1, m \in 0..1}
TileResults ==
    UNION {{[layer |-> r[1], src |-> r[2], dst |-> r[3], first |-> 5, n |-> n, hyper |-> h] :
             h \in Vectors(n * Hyper)} : r \in LayerRoutes, n \in 0 .. PrefillMax + 1}
ExpertWorks ==
    {[layer |-> r[1], src |-> r[2], dst |-> r[3], n |-> n, token |-> 258, ids |-> i, slots |-> s,
      gates |-> g, activation |-> Blob(6)] :
        r \in LayerRoutes, n \in 0 .. TopK + 1, i \in {<<0, 1>>, <<2, 2>>, <<1, ExpertCount>>},
        s \in {<<0, 1>>, <<1, 1>>, <<0, TopK>>}, g \in Vectors(TopK)}
ExpertResults ==
    UNION {{[layer |-> r[1], src |-> r[2], dst |-> r[3], token |-> 258, outputs |-> o] : r \in LayerRoutes}
           : o \in {<<>>} \cup {<<[slot |-> s, values |-> h]>> : s \in {0, TopK, Prereduced}, h \in Vectors(Hidden)}
                   \cup {<<[slot |-> s, values |-> [i \in 1..Hidden |-> One]],
                          [slot |-> t, values |-> [i \in 1..Hidden |-> One]]>> : s, t \in {0, 1, Prereduced}}}
TilePairs == {[token |-> t, expert |-> e, slot |-> s, gate |-> One] : t \in 0..1, e \in {0, ExpertCount}, s \in {0, TopK}}
             \cup {[token |-> 0, expert |-> 1, slot |-> s, gate |-> g] : s \in 0..1, g \in {One, Inf}}
ExpertTiles ==
    UNION {{[layer |-> r[1], src |-> r[2], dst |-> r[3], first |-> 5, n |-> n,
             activations |-> [i \in 1 .. n * Bulk |-> 6], pairs |-> s] : r \in {<<1, 0, 1>>, <<1, RankCount, 0>>}}
           : n \in 0 .. PrefillMax + 1, s \in {<<>>} \cup {<<a>> : a \in TilePairs} \cup {<<a, b>> : a, b \in TilePairs}}
SumPairs == {[token |-> t, slot |-> s] : t \in 0..1, s \in {0, TopK - 1, TopK}}
ShardSums ==
    UNION {{[layer |-> 1, src |-> r[1], dst |-> 0, mask |-> r[2], first |-> 5, n |-> n, pairs |-> s,
             outputs |-> [i \in 1 .. n * Hidden |-> IF i <= Hidden THEN a ELSE b]] :
               r \in {<<0, 1>>, <<1, 1>>, <<1, 3>>}, a, b \in {One, Zero}}
           : n \in 0 .. PrefillMax + 1, s \in {<<>>} \cup {<<a>> : a \in SumPairs} \cup {<<a, b>> : a, b \in SumPairs}}
Ngrams(a, b) ==
    {[src |-> s, dst |-> d, token |-> 258, items |-> i] : s, d \in 0..RankCount,
     i \in {<<>>} \cup {<<[head |-> h, row |-> a]>> : h \in 0..HeadCount}
            \cup {<<[head |-> h, row |-> a], [head |-> g, row |-> b]>> : h, g \in 0 .. HeadCount - 1}}
Half == <<63, 0, 0, 0>>
MinusZero == <<128, 0, 0, 0>>
MinusOne == <<191, 128, 0, 0>>
Three == <<64, 64, 0, 0>>
Samplers == {[temperature |-> t, topP |-> q, topK |-> k, presence |-> a, frequency |-> MinusZero,
              repetition |-> b, minP |-> c] :
             t \in {Zero, One, MinusOne}, q \in {Zero, Half, Three}, k \in {0, 64, 65},
             a \in {Zero, MinusOne, Three}, b \in {Zero, One}, c \in {Zero, Half}}
\* The callers of the configuration encoder set the flags 0, 1 or 3; it does not check them.
Configs == {[src |-> r[1], dst |-> r[2], flags |-> f, slot |-> r[3], token |-> 258, uniform |-> u, sampler |-> s] :
            r \in {<<0, OutputRank, 1>>, <<0, 0, 0>>, <<0, OutputRank, MaxSlots>>}, f \in {0, 1, 3},
            u \in {Zero, Half, One, Inf}, s \in Samplers}
OutputWorks == {[config |-> c, hyper |-> h] : h \in Vectors(Hyper),
                c \in {d \in Configs : d.flags = 0 /\ d.uniform # One /\ d.sampler.presence = Zero}}
OutputResults == {[src |-> s, dst |-> d, token |-> 258, id |-> i, logit |-> l] :
                  s \in 0..1, d \in {0, RankCount}, i \in {1, VocabSize - 1, VocabSize}, l \in {MinusOne, Inf}}
Partials == {[token |-> 258, value |-> l, id |-> i] : i \in {1, VocabSize - 1, VocabSize}, l \in {MinusOne, Inf}}

MCMessages(k) ==
    CASE k = "batch_work" -> BatchWorks       [] k = "batch_result" -> BatchResults
      [] k = "block_work" -> BlockWorks       [] k = "block_result" -> BlockResults
      [] k = "prefill_work" -> PrefillWorks   [] k = "prefill_result" -> PrefillResults
      [] k \in {"page_append", "page_result"} -> PageBatches(Blob(5))
      [] k = "page_fetch" -> PageBatches(<<>>)
      [] k = "barrier" -> Barriers            [] k = "state_fetch" -> StateFetches
      [] k = "state_result" -> StateResults   [] k = "slice" -> Slices
      [] k = "history" -> Histories           [] k = "control" -> Controls
      [] k \in {"layer_work", "ring_work"} -> LayerWorks
      [] k \in {"layer_result", "ring_result"} -> LayerResults
      [] k = "tile_work" -> TileWorks         [] k = "tile_result" -> TileResults
      [] k = "expert_work" -> ExpertWorks     [] k = "expert_result" -> ExpertResults
      [] k = "expert_tile" -> ExpertTiles     [] k = "shard_sum" -> ShardSums
      [] k = "ngram_work" -> Ngrams(<<0, 7>>, <<1, 258>>)
      [] k = "ngram_result" -> Ngrams(Blob(7), Blob(8))
      [] k = "config" -> Configs              [] k = "output_work" -> OutputWorks
      [] k = "output_result" -> OutputResults [] k = "partial" -> Partials
=============================================================================

----------------------------- MODULE LayerCodecs -----------------------------
(***************************************************************************)
(* The codecs of src/src/protocol.c that carry a layer's input and result, *)
(* the routed experts' share of it, n-gram rows and the output head's      *)
(* messages, in the form of WireCodecs.                                    *)
(***************************************************************************)
EXTENDS WireCodecs

CONSTANTS TopK,          \* FG_TOP_K
          ExpertCount,   \* FG_EXPERT_COUNT
          HeadCount,     \* FG_NGRAM_HEAD_COUNT, and FG_NGRAM_SHARD_MAX_ITEMS
          OutputRank     \* rank 4, the output owner

ASSUME RoutesAssumption == /\ {TopK, ExpertCount, HeadCount} \subseteq Nat \ {0}
                           /\ RankCount <= 8 /\ OutputRank < RankCount

Prereduced == 255        \* the slot of a result already summed over the rank's experts

OnRing(m) == m.layer < LayerCount /\ IsRank(m.src) /\ IsRank(m.dst)
Distinct(s) == \A i, j \in DOMAIN s : s[i] = s[j] => i = j
Head3(m) == <<m.layer, m.src, m.dst>>

-----------------------------------------------------------------------------
(* One layer of one token *)

LayerWorkValid(v, w) ==
    /\ OnRing(w) /\ w.flags < 4 /\ (HasNgram(w.flags) => w.layer <= 1)
    /\ w.mode <= FourAxis /\ (w.mode = Text => w.pos[4] = 0)
    /\ AllFinite(w.hyper) /\ (HasNgram(w.flags) => AllFinite(w.ngram))
    /\ v = MinVersion => w.mode = Text

LayerWorkBytes(v, w) ==
    Head3(w) \o <<w.flags>> \o U32(w.token)
      \o (IF v = MinVersion THEN <<>> ELSE <<w.mode, Axes(w.mode), 0, 0>>)
      \o PutWords(SubSeq(w.pos, 1, Axes(w.mode))) \o FlattenSeq(w.hyper)
      \o (IF HasNgram(w.flags) THEN FlattenSeq(w.ngram) ELSE <<>>)

\* The header is what the values leave of the payload.
LayerHeader(p) == Len(p) - 4 * (Hyper + IF HasNgram(At(p, 3)) THEN Ngram ELSE 0)
LayerWorkShape(v, p) ==
    IF v = MinVersion THEN Len(p) >= 20 + 4 * Hyper /\ LayerHeader(p) = 20
    ELSE /\ Len(p) >= 24 + 4 * Hyper
         /\ LayerHeader(p) \in {24, 28}
         /\ Zeros(p, 10, 2) /\ At(p, 8) <= FourAxis /\ At(p, 9) = Axes(At(p, 8))
         /\ LayerHeader(p) = 12 + 4 * At(p, 9)

LayerWorkRead(v, p) ==
    LET old == v = MinVersion
        h == LayerHeader(p)
    IN  [layer |-> At(p, 0), src |-> At(p, 1), dst |-> At(p, 2), flags |-> At(p, 3),
         token |-> G32(p, 4), mode |-> IF old THEN Text ELSE At(p, 8),
         pos |-> Padded(IF old THEN Words(p, 8, 3) ELSE Words(p, 12, At(p, 9))),
         hyper |-> Floats(p, h, Hyper),
         ngram |-> IF HasNgram(At(p, 3)) THEN Floats(p, h + 4 * Hyper, Ngram) ELSE <<>>]

LayerResultValid(r) == OnRing(r) /\ AllFinite(r.hyper)
LayerResultBytes(r) == Head3(r) \o <<0>> \o U32(r.token) \o FlattenSeq(r.hyper)
LayerResultShape(p) == Len(p) = 8 + 4 * Hyper /\ At(p, 3) = 0
LayerResultRead(p) == [layer |-> At(p, 0), src |-> At(p, 1), dst |-> At(p, 2),
                       token |-> G32(p, 4), hyper |-> Floats(p, 8, Hyper)]

-----------------------------------------------------------------------------
(* One layer of a prefill tile *)

LayerTileValid(v, w) ==
    /\ OnRing(w) /\ w.flags < 2 /\ (HasNgram(w.flags) => w.layer <= 1)
    /\ w.mode <= FourAxis /\ w.n \in 1..PrefillMax
    /\ AllFinite(w.hyper) /\ (HasNgram(w.flags) => w.ngram # <<>> /\ AllFinite(w.ngram))
    /\ v = MinVersion => w.mode = Text

LayerTileBytes(v, w) ==
    Head3(w) \o <<w.flags>> \o U32(w.first) \o U16(w.n)
      \o (IF v = MinVersion THEN <<0, 0>> ELSE <<w.mode, Axes(w.mode)>>) \o <<0, 0, 0, 0>>
      \o PutWords(w.pos) \o FlattenSeq(w.hyper)
      \o (IF HasNgram(w.flags) THEN FlattenSeq(w.ngram) ELSE <<>>)

LayerTileShape(v, p) ==
    /\ Len(p) >= 16
    /\ IF v = MinVersion THEN Zeros(p, 10, 2)
       ELSE At(p, 10) <= FourAxis /\ At(p, 11) = Axes(At(p, 10))
    /\ Zeros(p, 12, 4) /\ G16(p, 8) \in 1..PrefillMax
    /\ Len(p) = 16 + 4 * G16(p, 8) * (PrefillAxes(v, p) + Hyper
                                        + IF HasNgram(At(p, 3)) THEN Ngram ELSE 0)

LayerTileRead(v, p) ==
    LET n == G16(p, 8)
        values == 16 + 4 * n * PrefillAxes(v, p)
    IN  [layer |-> At(p, 0), src |-> At(p, 1), dst |-> At(p, 2), flags |-> At(p, 3),
         first |-> G32(p, 4), n |-> n, mode |-> IF v = MinVersion THEN Text ELSE At(p, 10),
         pos |-> Words(p, 16, n * PrefillAxes(v, p)), hyper |-> Floats(p, values, n * Hyper),
         ngram |-> IF HasNgram(At(p, 3)) THEN Floats(p, values + 4 * n * Hyper, n * Ngram) ELSE <<>>]

TileResultValid(r) == OnRing(r) /\ r.n \in 1..PrefillMax /\ AllFinite(r.hyper)
TileResultBytes(r) == Head3(r) \o <<0>> \o U32(r.first) \o U16(r.n)
                        \o <<0, 0, 0, 0, 0, 0>> \o FlattenSeq(r.hyper)
TileResultShape(p) == /\ Len(p) >= 16 /\ At(p, 3) = 0 /\ Zeros(p, 10, 6)
                      /\ G16(p, 8) \in 1..PrefillMax /\ Len(p) = 16 + 4 * G16(p, 8) * Hyper
TileResultRead(p) == [layer |-> At(p, 0), src |-> At(p, 1), dst |-> At(p, 2),
                      first |-> G32(p, 4), n |-> G16(p, 8), hyper |-> Floats(p, 16, G16(p, 8) * Hyper)]

-----------------------------------------------------------------------------
(* Routed experts: one token, with every entry of the route's arrays on the wire whether *)
(* selected or not; and a tile, with one pair per token and expert                       *)

DecodeWorkValid(w) ==
    /\ OnRing(w) /\ w.n \in 1..TopK
    /\ \A i \in 1..w.n : w.ids[i] < ExpertCount /\ w.slots[i] < TopK /\ IsFinite(w.gates[i])
    /\ Distinct(SubSeq(w.ids, 1, w.n)) /\ Distinct(SubSeq(w.slots, 1, w.n))

DecodeWorkBytes(w) ==
    Head3(w) \o <<w.n>> \o U32(w.token) \o FlattenSeq([i \in 1..TopK |-> U16(w.ids[i])])
      \o w.slots \o FlattenSeq(w.gates) \o w.activation
DecodeWorkShape(p) == Len(p) = 8 + 7 * TopK + Bulk
DecodeWorkRead(p) ==
    [layer |-> At(p, 0), src |-> At(p, 1), dst |-> At(p, 2), n |-> At(p, 3), token |-> G32(p, 4),
     ids |-> [i \in 1..TopK |-> G16(p, 8 + 2 * (i - 1))], slots |-> Cut(p, 8 + 2 * TopK, TopK),
     gates |-> Floats(p, 8 + 3 * TopK, TopK), activation |-> Cut(p, 8 + 7 * TopK, Bulk)]

ExpertResultValid(r) ==
    /\ OnRing(r) /\ Len(r.outputs) \in 1..TopK
    /\ \A i \in DOMAIN r.outputs : /\ r.outputs[i].slot \in (0 .. TopK - 1) \cup {Prereduced}
                                   /\ AllFinite(r.outputs[i].values)
    /\ \A i, j \in DOMAIN r.outputs :
          r.outputs[i].slot = r.outputs[j].slot => i = j \/ r.outputs[i].slot = Prereduced

ExpertResultBytes(r) ==
    Head3(r) \o <<Len(r.outputs)>> \o U32(r.token)
      \o FlattenSeq([i \in DOMAIN r.outputs |->
            <<r.outputs[i].slot, 0, 0, 0>> \o FlattenSeq(r.outputs[i].values)])
ExpertResultShape(p) ==
    /\ Len(p) >= 8 /\ At(p, 3) <= TopK /\ Len(p) = 8 + At(p, 3) * (4 + 4 * Hidden)
    /\ \A i \in 1..At(p, 3) : Zeros(p, 8 + (i - 1) * (4 + 4 * Hidden) + 1, 3)
ExpertResultRead(p) ==
    [layer |-> At(p, 0), src |-> At(p, 1), dst |-> At(p, 2), token |-> G32(p, 4),
     outputs |-> [i \in 1..At(p, 3) |->
        LET o == 8 + (i - 1) * (4 + 4 * Hidden)
        IN  [slot |-> At(p, o), values |-> Floats(p, o + 4, Hidden)]]]

ExpertTileValid(w) ==
    /\ OnRing(w) /\ w.n \in 1..PrefillMax /\ Len(w.pairs) \in 1 .. w.n * TopK
    /\ \A i \in DOMAIN w.pairs :
          LET a == w.pairs[i]
          IN  /\ a.token < w.n /\ a.expert < ExpertCount /\ a.slot < TopK /\ IsFinite(a.gate)
              /\ \A j \in 1 .. i - 1 : /\ <<w.pairs[j].token, w.pairs[j].slot>> # <<a.token, a.slot>>
                                       /\ <<w.pairs[j].token, w.pairs[j].expert>> # <<a.token, a.expert>>

ExpertTileBytes(w) ==
    Head3(w) \o <<1>> \o U32(w.first) \o U16(w.n) \o U16(Len(w.pairs)) \o U32(w.n * Bulk) \o w.activations
      \o FlattenSeq([i \in DOMAIN w.pairs |->
            LET a == w.pairs[i]
            IN  U16(a.token) \o U16(a.expert) \o <<a.slot, 0, 0, 0>> \o a.gate])
ExpertTileShape(p) ==
    /\ Len(p) >= 16 /\ At(p, 3) = 1 /\ G16(p, 8) \in 1..PrefillMax
    /\ G16(p, 10) \in 1 .. G16(p, 8) * TopK /\ G32(p, 12) = G16(p, 8) * Bulk
    /\ Len(p) = 16 + G32(p, 12) + 12 * G16(p, 10)
    /\ \A i \in 1..G16(p, 10) : Zeros(p, 16 + G32(p, 12) + 12 * (i - 1) + 5, 3)
ExpertTileRead(p) ==
    [layer |-> At(p, 0), src |-> At(p, 1), dst |-> At(p, 2), first |-> G32(p, 4), n |-> G16(p, 8),
     activations |-> Cut(p, 16, G32(p, 12)),
     pairs |-> [i \in 1..G16(p, 10) |->
        LET o == 16 + G32(p, 12) + 12 * (i - 1)
        IN  [token |-> G16(p, o), expert |-> G16(p, o + 2), slot |-> At(p, o + 4), gate |-> Cut(p, o + 8, 4)]]]

IsZero(f) == f[1] % 128 = 0 /\ f[2] = 0 /\ f[3] = 0 /\ f[4] = 0

\* The sum of a subtree: a bit per contributing rank, the pairs summed, and for a token
\* without a pair nothing but zeros.
ShardSumValid(r) ==
    /\ OnRing(r) /\ (r.mask \div 2 ^ r.src) % 2 = 1
    /\ r.n \in 1..PrefillMax /\ Len(r.pairs) <= r.n * TopK
    /\ \A i \in DOMAIN r.pairs : r.pairs[i].token < r.n /\ r.pairs[i].slot < TopK
    /\ Distinct(r.pairs)
    /\ \A i \in DOMAIN r.outputs :
          /\ IsFinite(r.outputs[i])
          /\ IsZero(r.outputs[i]) \/ \E j \in DOMAIN r.pairs : r.pairs[j].token = (i - 1) \div Hidden

ShardSumBytes(r) ==
    Head3(r) \o <<3>> \o U32(r.first) \o U16(r.n) \o U16(Len(r.pairs)) \o <<r.mask, 0, 0, 0>>
      \o FlattenSeq([i \in DOMAIN r.pairs |-> U16(r.pairs[i].token) \o <<r.pairs[i].slot, 0>>])
      \o FlattenSeq(r.outputs)
ShardSumShape(p) ==
    /\ Len(p) >= 16 /\ At(p, 3) = 3 /\ At(p, 12) # 0 /\ Zeros(p, 13, 3)
    /\ G16(p, 8) \in 1..PrefillMax /\ G16(p, 10) <= G16(p, 8) * TopK
    /\ Len(p) = 16 + 4 * G16(p, 10) + 4 * G16(p, 8) * Hidden
    /\ \A i \in 1..G16(p, 10) : At(p, 16 + 4 * (i - 1) + 3) = 0
ShardSumRead(p) ==
    [layer |-> At(p, 0), src |-> At(p, 1), dst |-> At(p, 2), mask |-> At(p, 12), first |-> G32(p, 4),
     n |-> G16(p, 8),
     pairs |-> [i \in 1..G16(p, 10) |-> [token |-> G16(p, 16 + 4 * (i - 1)), slot |-> At(p, 16 + 4 * (i - 1) + 2)]],
     outputs |-> Floats(p, 16 + 4 * G16(p, 10), G16(p, 8) * Hidden)]

-----------------------------------------------------------------------------
(* N-gram rows held by another rank: a head per item, and its row number or its row *)

NgramValid(m) ==
    /\ IsRank(m.src) /\ IsRank(m.dst) /\ m.src # m.dst /\ Len(m.items) \in 1..HeadCount
    /\ \A i \in DOMAIN m.items : m.items[i].head < HeadCount
    /\ Distinct([i \in DOMAIN m.items |-> m.items[i].head])

RowBytes(kind) == IF kind = "ngram_work" THEN 8 ELSE Bulk
NgramBytes(kind, m) ==
    <<m.src, m.dst, Len(m.items), 0>> \o U32(m.token)
      \o FlattenSeq([i \in DOMAIN m.items |->
            <<m.items[i].head>> \o (IF kind = "ngram_work" THEN U64(m.items[i].row) ELSE m.items[i].row)])
NgramShape(kind, p) == /\ Len(p) >= 8 /\ At(p, 3) = 0 /\ At(p, 2) \in 1..HeadCount
                       /\ Len(p) = 8 + At(p, 2) * (1 + RowBytes(kind))
NgramRead(kind, p) ==
    [src |-> At(p, 0), dst |-> At(p, 1), token |-> G32(p, 4),
     items |-> [i \in 1..At(p, 2) |->
        LET o == 8 + (i - 1) * (1 + RowBytes(kind))
        IN  [head |-> At(p, o), row |-> IF kind = "ngram_work" THEN G64(p, o + 1) ELSE Cut(p, o + 1, Bulk)]]]

-----------------------------------------------------------------------------
(* The output head *)

Magnitude(f) == G32(<<f[1] % 128, f[2], f[3], f[4]>>, 0)
Negative(f) == f[1] >= 128 /\ ~IsZero(f)
OneMagnitude == 1065353216       \* 1.0f
TwoMagnitude == 1073741824       \* 2.0f

SamplerValid(s) ==
    /\ AllFinite(<<s.temperature, s.topP, s.presence, s.frequency, s.repetition>>)
    /\ ~Negative(s.temperature)
    /\ ~Negative(s.topP) /\ ~IsZero(s.topP) /\ Magnitude(s.topP) <= OneMagnitude
    /\ s.topK \in 1..64
    /\ Magnitude(s.presence) <= TwoMagnitude /\ Magnitude(s.frequency) <= TwoMagnitude
    /\ ~Negative(s.repetition) /\ ~IsZero(s.repetition)
    /\ IsZero(s.minP)

\* A sampler of zeros asks for no sampling and is not validated.
SamplerUnset(s) == s.topK = 0 /\ \A f \in {s.temperature, s.topP, s.presence, s.frequency, s.repetition, s.minP} : IsZero(f)

ConfigValid(c) ==
    /\ IsRank(c.src) /\ c.dst = OutputRank /\ c.slot < MaxSlots
    /\ SamplerUnset(c.sampler) \/ SamplerValid(c.sampler)
    /\ IsFinite(c.uniform) /\ ~Negative(c.uniform) /\ Magnitude(c.uniform) < OneMagnitude

ConfigBytes(c) ==
    LET s == c.sampler
    IN  <<c.src, c.dst, c.flags, c.slot>> \o U32(c.token) \o s.temperature \o s.topP \o U32(s.topK) \o c.uniform
          \o s.presence \o s.frequency \o s.repetition \o s.minP
\* Flags: 1 the split head, 2 its four-way form.
ConfigShape(p) == Len(p) = 40 /\ At(p, 2) \in {0, 1, 3}
ConfigRead(p) ==
    [src |-> At(p, 0), dst |-> At(p, 1), flags |-> At(p, 2), slot |-> At(p, 3), token |-> G32(p, 4),
     uniform |-> Cut(p, 20, 4),
     sampler |-> [temperature |-> Cut(p, 8, 4), topP |-> Cut(p, 12, 4), topK |-> G32(p, 16),
                  presence |-> Cut(p, 24, 4), frequency |-> Cut(p, 28, 4),
                  repetition |-> Cut(p, 32, 4), minP |-> Cut(p, 36, 4)]]

\* Output work is a configuration without flags and the hyper state behind it.
OutputWorkValid(w) == ConfigValid(w.config) /\ AllFinite(w.hyper)
OutputWorkBytes(w) == ConfigBytes([w.config EXCEPT !.flags = 0]) \o FlattenSeq(w.hyper)
OutputWorkShape(p) == Len(p) = 40 + 4 * Hyper /\ At(p, 2) = 0
OutputWorkRead(p) == [config |-> ConfigRead(p), hyper |-> Floats(p, 40, Hyper)]

OutputResultValid(r) == r.src = OutputRank /\ IsRank(r.dst) /\ r.id < VocabSize /\ IsFinite(r.logit)
OutputResultBytes(r) == <<r.src, r.dst, 0, 0>> \o U32(r.token) \o U32(r.id) \o r.logit
OutputResultShape(p) == Len(p) = 16 /\ Zeros(p, 2, 2)
OutputResultRead(p) == [src |-> At(p, 0), dst |-> At(p, 1), token |-> G32(p, 4), id |-> G32(p, 8),
                        logit |-> Cut(p, 12, 4)]

PartialValid(q) == q.id < VocabSize /\ IsFinite(q.value)
PartialBytes(q) == U32(q.token) \o q.value \o U32(q.id)
PartialShape(p) == Len(p) = 12
PartialRead(p) == [token |-> G32(p, 0), value |-> Cut(p, 4, 4), id |-> G32(p, 8)]
=============================================================================

----------------------------- MODULE WireCodecs -----------------------------
(***************************************************************************)
(* The payload codecs of src/src/protocol.c, byte for byte with the sizes  *)
(* of the model's arrays scaled down.  For every kind of message           *)
(*   ...Valid  what the encoder requires of the message,                   *)
(*   ...Bytes  the payload it writes,                                      *)
(*   ...Shape  what the decoder requires of the payload before it reads it,*)
(*   ...Read   the message it reads, and                                   *)
(*   ...Sound  what it then requires of that message.                      *)
(* A float is its four bytes, big-endian, as put_f32_be stores it; a 64-bit*)
(* number is the pair of its 32-bit halves; a null pointer is <<>>.        *)
(***************************************************************************)
EXTENDS Naturals, Sequences, SequencesExt

CONSTANTS LayerCount,      \* FG_LAYER_COUNT
          RankCount,       \* FG_RANK_COUNT
          MaxContext,      \* FG_MAX_CONTEXT, and FG_NATIVE_CONTEXT
          VocabSize,       \* FG_Q38_VOCAB_SIZE
          MaxSlots,        \* FG_DECODE_BATCH_MAX_SLOTS
          PrefillMax,      \* FG_PREFILL_MAX_TOKENS
          AppendMax,       \* FG_QSA_PAGE_APPEND_MAX_PAGES
          AppendLayerMax,  \* FG_QSA_PAGE_APPEND_LAYER_MAX_PAGES
          FetchMax,        \* FG_QSA_PAGE_FETCH_MAX_PAGES
          Hidden,          \* values of a hidden vector
          Hyper,           \* values of a hyper vector
          Ngram,           \* values of an n-gram embedding
          Bulk             \* bytes of a page's records, a digest or a state tensor

ASSUME SizesAssumption ==
    /\ {LayerCount, RankCount, MaxContext, VocabSize, MaxSlots, PrefillMax, AppendMax,
        AppendLayerMax, FetchMax, Hidden, Hyper, Ngram, Bulk} \subseteq Nat \ {0}
    /\ LayerCount <= 256 /\ RankCount <= 256

MinVersion == 5
Version == 6
Text == 0
FourAxis == 1

-----------------------------------------------------------------------------
(* Bytes *)

U32(v) == <<v \div 16777216, (v \div 65536) % 256, (v \div 256) % 256, v % 256>>
U16(v) == <<v \div 256, v % 256>>
U64(v) == U32(v[1]) \o U32(v[2])
At(p, o) == p[o + 1]
G16(p, o) == 256 * At(p, o) + At(p, o + 1)
G32(p, o) == 65536 * G16(p, o) + G16(p, o + 2)
G64(p, o) == <<G32(p, o), G32(p, o + 4)>>
Cut(p, o, n) == SubSeq(p, o + 1, o + n)
Words(p, o, n) == [i \in 1..n |-> G32(p, o + 4 * (i - 1))]
Floats(p, o, n) == [i \in 1..n |-> Cut(p, o + 4 * (i - 1), 4)]
PutWords(s) == FlattenSeq([i \in DOMAIN s |-> U32(s[i])])
IsFinite(f) == ~(f[1] % 128 = 127 /\ f[2] >= 128)
AllFinite(s) == \A i \in DOMAIN s : IsFinite(s[i])
Zeros(p, o, n) == \A i \in o .. o + n - 1 : At(p, i) = 0

IsRank(r) == r < RankCount
Axes(mode) == IF mode = FourAxis THEN 4 ELSE 3
HasNgram(flags) == flags % 2 = 1

-----------------------------------------------------------------------------
(* Depth-B decode: DECODE_BATCH_WORK and DECODE_BATCH_RESULT *)

BatchWorkValid(v, w) ==
    /\ v >= Version
    /\ w.layer < LayerCount /\ IsRank(w.src) /\ IsRank(w.dst)
    /\ w.flags < 4 /\ (HasNgram(w.flags) => w.layer <= 1)
    /\ Len(w.slots) \in 1..MaxSlots /\ w.mode <= FourAxis
    /\ \A i \in DOMAIN w.slots :
          LET e == w.slots[i]
          IN  /\ e.state < MaxSlots /\ e.token < MaxContext
              /\ w.mode = Text => e.pos[4] = 0
              /\ \A j \in 1 .. i - 1 : w.slots[j].state # e.state
              /\ AllFinite(e.hyper)
              /\ HasNgram(w.flags) => e.ngram # <<>> /\ AllFinite(e.ngram)

BatchWorkBytes(w) ==
    <<w.layer, w.src, w.dst, w.flags, 0, 0, 0, 0>> \o U16(Len(w.slots))
      \o <<w.mode, Axes(w.mode), 0, 0, 0, 0>>
      \o FlattenSeq([i \in DOMAIN w.slots |->
            LET e == w.slots[i]
            IN  U32(e.token) \o U32(e.state) \o PutWords(SubSeq(e.pos, 1, Axes(w.mode)))
                  \o FlattenSeq(e.hyper)
                  \o (IF HasNgram(w.flags) THEN FlattenSeq(e.ngram) ELSE <<>>)])

BatchSlotBytes(p) == 8 + 4 * (At(p, 11) + Hyper + IF HasNgram(At(p, 3)) THEN Ngram ELSE 0)

\* Mutant: the reserved bytes behind the slot header are not looked at.
BatchWorkShapeLax(v, p) ==
    /\ v >= Version /\ Len(p) >= 16 /\ Zeros(p, 4, 4)
    /\ G16(p, 8) \in 1..MaxSlots /\ Len(p) = 16 + G16(p, 8) * BatchSlotBytes(p)
    /\ At(p, 10) <= FourAxis /\ At(p, 11) = Axes(At(p, 10))
BatchWorkShape(v, p) ==
    /\ v >= Version /\ Len(p) >= 16
    /\ Zeros(p, 4, 4) /\ Zeros(p, 12, 4)
    /\ G16(p, 8) \in 1..MaxSlots
    /\ Len(p) = 16 + G16(p, 8) * BatchSlotBytes(p)
    /\ At(p, 10) <= FourAxis /\ At(p, 11) = Axes(At(p, 10))

\* Axes the payload does not carry keep the zero of memset.
Padded(pos) == [a \in 1..4 |-> IF a <= Len(pos) THEN pos[a] ELSE 0]

BatchWorkRead(p) ==
    LET axes == At(p, 11)
        Slot(o) == [token |-> G32(p, o), state |-> G32(p, o + 4),
                    pos |-> Padded(Words(p, o + 8, axes)),
                    hyper |-> Floats(p, o + 8 + 4 * axes, Hyper),
                    ngram |-> IF HasNgram(At(p, 3))
                              THEN Floats(p, o + 8 + 4 * axes + 4 * Hyper, Ngram) ELSE <<>>]
    IN  [layer |-> At(p, 0), src |-> At(p, 1), dst |-> At(p, 2), flags |-> At(p, 3),
         mode |-> At(p, 10),
         slots |-> [i \in 1..G16(p, 8) |-> Slot(16 + (i - 1) * BatchSlotBytes(p))]]

BatchResultValid(r) ==
    /\ r.layer < LayerCount /\ IsRank(r.src) /\ IsRank(r.dst) /\ r.flags = 0
    /\ Len(r.slots) \in 1..MaxSlots
    /\ \A i \in DOMAIN r.slots : r.slots[i].token < MaxContext /\ AllFinite(r.slots[i].hyper)

BatchResultBytes(r) ==
    <<r.layer, r.src, r.dst, 0, 0, 0, 0, 0>> \o U16(Len(r.slots)) \o <<0, 0, 0, 0, 0, 0>>
      \o FlattenSeq([i \in DOMAIN r.slots |->
            U32(r.slots[i].token) \o FlattenSeq(r.slots[i].hyper)])

BatchResultShape(p) ==
    /\ Len(p) >= 16 /\ Zeros(p, 3, 5) /\ Zeros(p, 10, 6)
    /\ G16(p, 8) \in 1..MaxSlots /\ Len(p) = 16 + G16(p, 8) * (4 + 4 * Hyper)

BatchResultRead(p) ==
    [layer |-> At(p, 0), src |-> At(p, 1), dst |-> At(p, 2), flags |-> 0,
     slots |-> [i \in 1..G16(p, 8) |->
        LET o == 16 + (i - 1) * (4 + 4 * Hyper)
        IN  [token |-> G32(p, o), hyper |-> Floats(p, o + 4, Hyper)]]]

-----------------------------------------------------------------------------
(* QSA blocks: one token, and one prefill tile *)

Route(m) == /\ m.layer < LayerCount /\ m.layer % 4 = 3
            /\ IsRank(m.src) /\ IsRank(m.dst) /\ m.src # m.dst

BlockWorkValid(v, w) ==
    /\ Route(w) /\ w.mode <= FourAxis /\ w.hidden # <<>>
    /\ w.mode = Text => w.pos[4] = 0
    /\ v = MinVersion => w.mode = Text
    /\ AllFinite(w.hidden)

BlockWorkBytes(v, w) ==
    <<w.layer, w.src, w.dst, 0>> \o U32(w.token)
      \o (IF v = MinVersion THEN <<>> ELSE <<w.mode, Axes(w.mode), 0, 0>>)
      \o PutWords(SubSeq(w.pos, 1, Axes(w.mode))) \o FlattenSeq(w.hidden)

BlockWorkShape(v, p) ==
    IF v = MinVersion THEN Len(p) = 20 + 4 * Hidden /\ At(p, 3) = 0
    ELSE /\ Len(p) \in {24 + 4 * Hidden, 28 + 4 * Hidden}
         /\ Zeros(p, 10, 2) /\ At(p, 8) <= FourAxis /\ At(p, 9) = Axes(At(p, 8))
         /\ At(p, 3) = 0 /\ Len(p) = 12 + 4 * At(p, 9) + 4 * Hidden

BlockWorkRead(v, p) ==
    LET old == v = MinVersion
        axes == IF old THEN 3 ELSE At(p, 9)
        o == IF old THEN 8 ELSE 12
    IN  [layer |-> At(p, 0), src |-> At(p, 1), dst |-> At(p, 2), token |-> G32(p, 4),
         mode |-> IF old THEN Text ELSE At(p, 8),
         pos |-> Padded(Words(p, o, axes)), hidden |-> Floats(p, o + 4 * axes, Hidden)]

BlockSound(m) == Route(m) /\ AllFinite(m.hidden)

BlockResultValid(r) == Route(r) /\ r.hidden # <<>> /\ AllFinite(r.hidden)
BlockResultBytes(r) == <<r.layer, r.src, r.dst, 0>> \o U32(r.token) \o FlattenSeq(r.hidden)
BlockResultShape(p) == Len(p) = 8 + 4 * Hidden /\ At(p, 3) = 0
BlockResultRead(p) == [layer |-> At(p, 0), src |-> At(p, 1), dst |-> At(p, 2),
                       token |-> G32(p, 4), hidden |-> Floats(p, 8, Hidden)]

PrefillWorkValid(v, w) ==
    /\ w.n \in 1..PrefillMax /\ Route(w) /\ w.mode <= FourAxis
    /\ v = MinVersion => w.mode = Text
    /\ AllFinite(w.hidden)

PrefillWorkBytes(v, w) ==
    <<w.layer, w.src, w.dst, 0>> \o U32(w.first) \o U16(w.n)
      \o (IF v = MinVersion THEN <<0, 0>> ELSE <<w.mode, Axes(w.mode)>>) \o <<0, 0, 0, 0>>
      \o PutWords(w.pos) \o FlattenSeq(w.hidden)

PrefillAxes(v, p) == IF v = MinVersion THEN 3 ELSE At(p, 11)

PrefillWorkShape(v, p) ==
    /\ Len(p) >= 16
    /\ IF v = MinVersion THEN Zeros(p, 10, 2)
       ELSE At(p, 10) <= FourAxis /\ At(p, 11) = Axes(At(p, 10))
    /\ At(p, 3) = 0 /\ Zeros(p, 12, 4) /\ G16(p, 8) \in 1..PrefillMax
    /\ Len(p) = 16 + 4 * G16(p, 8) * (PrefillAxes(v, p) + Hidden)

PrefillWorkRead(v, p) ==
    LET n == G16(p, 8)
        words == n * PrefillAxes(v, p)
    IN  [layer |-> At(p, 0), src |-> At(p, 1), dst |-> At(p, 2), first |-> G32(p, 4), n |-> n,
         mode |-> IF v = MinVersion THEN Text ELSE At(p, 10),
         pos |-> Words(p, 16, words), hidden |-> Floats(p, 16 + 4 * words, n * Hidden)]

PrefillResultValid(r) == r.n \in 1..PrefillMax /\ Route(r) /\ AllFinite(r.hidden)
PrefillResultBytes(r) == <<r.layer, r.src, r.dst, 0>> \o U32(r.first) \o U16(r.n)
                           \o <<0, 0, 0, 0, 0, 0>> \o FlattenSeq(r.hidden)
PrefillResultShape(p) == /\ Len(p) >= 16 /\ At(p, 3) = 0 /\ Zeros(p, 10, 6)
                         /\ G16(p, 8) \in 1..PrefillMax
                         /\ Len(p) = 16 + 4 * G16(p, 8) * Hidden
PrefillResultRead(p) ==
    [layer |-> At(p, 0), src |-> At(p, 1), dst |-> At(p, 2), first |-> G32(p, 4),
     n |-> G16(p, 8), hidden |-> Floats(p, 16, G16(p, 8) * Hidden)]

-----------------------------------------------------------------------------
(* QSA pages: append, fetch and result batches, and the barrier *)

Carries(kind) == kind # "page_fetch"
PageMax(kind) == IF kind = "page_append" THEN AppendMax ELSE FetchMax
EntryBytes(kind) == 8 + IF Carries(kind) THEN Bulk ELSE 0

AppendSpread(b) ==
    \A l \in 0 .. LayerCount - 1 :
        Len(SelectSeq(b.pages, LAMBDA g : g.layer = l)) <= AppendLayerMax

PagesValid(kind, b) ==
    /\ IsRank(b.src) /\ IsRank(b.dst) /\ b.src # b.dst /\ Len(b.pages) \in 1..PageMax(kind)
    /\ \A i \in DOMAIN b.pages :
          LET g == b.pages[i]
          IN  /\ g.layer < LayerCount /\ g.layer % 4 = 3 /\ g.block < (MaxContext + 3) \div 4
              /\ Carries(kind) => g.records # <<>>
              /\ \A j \in 1 .. i - 1 : <<b.pages[j].layer, b.pages[j].block>> # <<g.layer, g.block>>
    /\ kind = "page_append" => AppendSpread(b)

PagesBytes(kind, b) ==
    <<b.src, b.dst, 1, 0>> \o U32(b.id) \o U16(Len(b.pages)) \o <<0, 0>>
      \o FlattenSeq([i \in DOMAIN b.pages |->
            <<b.pages[i].layer, 0, 0, 0>> \o U32(b.pages[i].block)
              \o (IF Carries(kind) THEN b.pages[i].records ELSE <<>>)])

PagesShape(kind, p) ==
    /\ Len(p) >= 12 /\ At(p, 2) = 1 /\ At(p, 3) = 0 /\ Zeros(p, 10, 2)
    /\ G16(p, 8) \in 1..PageMax(kind) /\ Len(p) = 12 + G16(p, 8) * EntryBytes(kind)
    /\ \A i \in 1..G16(p, 8) : Zeros(p, 12 + (i - 1) * EntryBytes(kind) + 1, 3)

PagesRead(kind, p) ==
    [src |-> At(p, 0), dst |-> At(p, 1), id |-> G32(p, 4),
     pages |-> [i \in 1..G16(p, 8) |->
        LET o == 12 + (i - 1) * EntryBytes(kind)
        IN  [layer |-> At(p, o), block |-> G32(p, o + 4),
             records |-> IF Carries(kind) THEN Cut(p, o + 8, Bulk) ELSE <<>>]]]

BarrierValid(b) == IsRank(b.src) /\ IsRank(b.dst) /\ b.src # b.dst
BarrierBytes(b) == <<b.src, b.dst, 1, 0>> \o U32(b.id)
BarrierShape(p) == Len(p) = 8 /\ At(p, 2) = 1 /\ At(p, 3) = 0
BarrierRead(p) == [src |-> At(p, 0), dst |-> At(p, 1), id |-> G32(p, 4)]

-----------------------------------------------------------------------------
(* Decode-state handoff, output slice, history and session control *)

StateFetchValid(f) == f.layer < LayerCount
StateFetchBytes(f) == U32(f.layer) \o U32(f.frontier)
StateFetchShape(p) == Len(p) = 8
StateFetchRead(p) == [layer |-> G32(p, 0), frontier |-> G32(p, 4)]

StateResultSound(r) == IsRank(r.src) /\ r.layer < LayerCount
StateResultValid(r) == StateResultSound(r) /\ r.conv # <<>> /\ r.recurrent # <<>>
StateResultBytes(r) ==
    <<r.src, r.layer, IF r.ple = <<>> THEN 0 ELSE 1, 0>> \o U32(r.frontier)
      \o <<0, 0, 0, 0, 0, 0, 0, 0>> \o r.conv \o r.recurrent \o r.ple
\* The last four bytes of the header are written as zero and never looked at.
StateResultShape(p) ==
    /\ Len(p) >= 16 + 2 * Bulk /\ At(p, 2) \in {0, 1} /\ At(p, 3) = 0 /\ Zeros(p, 8, 4)
    /\ Len(p) = 16 + 2 * Bulk + At(p, 2) * Bulk
StateResultRead(p) ==
    [src |-> At(p, 0), layer |-> At(p, 1), frontier |-> G32(p, 4),
     conv |-> Cut(p, 16, Bulk), recurrent |-> Cut(p, 16 + Bulk, Bulk),
     ple |-> IF At(p, 2) = 1 THEN Cut(p, 16 + 2 * Bulk, Bulk) ELSE <<>>]

SliceValid(s) == IsRank(s.src) /\ IsRank(s.dst) /\ s.src # s.dst /\ AllFinite(s.hidden)
SliceBytes(s) == <<s.src, s.dst, 0, 0>> \o U32(s.token) \o FlattenSeq(s.hidden)
SliceShape(p) == Len(p) = 8 + 4 * Hidden /\ Zeros(p, 2, 2)
SliceRead(p) == [src |-> At(p, 0), dst |-> At(p, 1), token |-> G32(p, 4),
                 hidden |-> Floats(p, 8, Hidden)]

HistoryValid(h) == /\ Len(h.tokens) <= MaxContext /\ h.slot < MaxSlots
                   /\ \A i \in DOMAIN h.tokens : h.tokens[i] < VocabSize
HistoryBytes(h) == U32(Len(h.tokens)) \o <<h.slot, 0, 0, 0>> \o PutWords(h.tokens)
HistoryShape(p) == /\ Len(p) >= 8 /\ Zeros(p, 5, 3) /\ At(p, 4) < MaxSlots
                   /\ G32(p, 0) <= MaxContext /\ Len(p) = 8 + 4 * G32(p, 0)
HistoryRead(p) == [slot |-> At(p, 4), tokens |-> Words(p, 8, G32(p, 0))]

\* Operations: 1 BEGIN, 2 READY, 3 PREPARE, 4 PREPARED, 5 COMMIT, 6 COMMITTED, 7 RESTORE,
\* 8 RESTORED.
NoDigest(d) == \A i \in DOMAIN d : d[i] = 0
ControlValid(c) ==
    /\ c.version = 2 /\ c.op \in 1..8 /\ IsRank(c.rank) /\ c.mode <= FourAxis /\ c.flags = 0
    /\ c.slot < MaxSlots /\ c.nonce # <<0, 0>>
    /\ ~NoDigest(c.identity) /\ ~NoDigest(c.format)
    /\ c.context > 0 /\ c.gpu \in 1..c.context /\ c.hot <= c.context
    /\ c.hot = 0 => c.cache # <<0, 0>>
    /\ c.op <= 2 => /\ c.generation = <<0, 0>> /\ c.committed = <<0, 0>>
                    /\ NoDigest(c.frontier) /\ NoDigest(c.state)
    /\ c.op >= 3 => c.generation # <<0, 0>> /\ ~NoDigest(c.frontier)
    /\ (c.op \in {4, 8}) = ~NoDigest(c.state)

ControlBytes(c) ==
    U16(c.version) \o <<c.op, c.rank, c.mode, c.flags, c.slot, 0>>
      \o U64(c.nonce) \o U64(c.generation) \o U64(c.committed)
      \o c.identity \o c.frontier \o c.format \o c.state
      \o U32(c.context) \o U32(c.gpu) \o U32(c.hot) \o <<0, 0, 0, 0>> \o U64(c.cache)

ControlShape(p) == /\ Len(p) = 56 + 4 * Bulk /\ At(p, 7) = 0
                   /\ Zeros(p, 32 + 4 * Bulk + 12, 4)

ControlRead(p) ==
    LET o == 32 + 4 * Bulk
    IN  [version |-> G16(p, 0), op |-> At(p, 2), rank |-> At(p, 3), mode |-> At(p, 4),
         flags |-> At(p, 5), slot |-> At(p, 6),
         nonce |-> G64(p, 8), generation |-> G64(p, 16), committed |-> G64(p, 24),
         identity |-> Cut(p, 32, Bulk), frontier |-> Cut(p, 32 + Bulk, Bulk),
         format |-> Cut(p, 32 + 2 * Bulk, Bulk), state |-> Cut(p, 32 + 3 * Bulk, Bulk),
         context |-> G32(p, o), gpu |-> G32(p, o + 4), hot |-> G32(p, o + 8),
         cache |-> G64(p, o + 16)]
=============================================================================

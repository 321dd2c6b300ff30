----------------------------- MODULE NgramStore -----------------------------
(***************************************************************************)
(* The n-gram embedding store of rank 0 (src/src/ngram.c): which table     *)
(* rows the last tokens of a history select, the plan of direct reads that *)
(* fetches their blocks, the set-associative block cache and the packing   *)
(* of rows, some of which straddle two blocks.                             *)
(*                                                                         *)
(* A byte of the table is its address, so a block is the address of its    *)
(* first byte and a wrong byte is visible.  The hash of a window is a sum  *)
(* instead of a product mix, one head stands for the eight of each order,  *)
(* and a cache set is the sequence of its entries, most recent first (the  *)
(* order of the stamps).  A read batch or a single read may fail.          *)
(***************************************************************************)
EXTENDS Integers, Sequences, FiniteSets, SequencesExt, FiniteSetsExt

CONSTANTS
    Words,       \* tokens other than the end of text
    Eos,         \* FG_Q38_EOS_TOKEN
    Vocab2,      \* rows of the heads that see two tokens
    Vocab3,      \* rows of the heads that see three tokens
    RowBytes,    \* FG_NGRAM_ROW_BYTES
    BlockBytes,  \* FG_NGRAM_BLOCK_BYTES
    CacheSets, CacheWays, IoSlots,
    MaxTokens,   \* store->max_tokens: the longest chunk of one lookup
    MaxHistory,  \* bound: tokens of a conversation
    MaxLookups   \* bound: lookups

\* What the constants of every instance satisfy.
NgramStoreAssumption ==
    /\ {Vocab2, Vocab3, RowBytes, BlockBytes, CacheSets, CacheWays, IoSlots, MaxTokens}
         \subseteq Nat \ {0}
    /\ RowBytes <= BlockBytes /\ {MaxHistory, MaxLookups} \subseteq Nat
    /\ Words \cup {Eos} \subseteq Nat

VARIABLES
    history,  \* the tokens of the conversation
    cache,    \* cache[s]: entries of set s, most recent first
    lookups,  \* lookups made (bound)
    last      \* the last lookup: its first token, plan, packed rows and status

vars == <<history, cache, lookups, last>>

Tokens     == Words \cup {Eos}
Heads      == <<2, 3>>
Rows       == Vocab2 + Vocab3
TableBytes == Rows * RowBytes
PaddedEnd  == ((TableBytes + BlockBytes - 1) \div BlockBytes) * BlockBytes
BlockOf(a) == a - (a % BlockBytes)

-----------------------------------------------------------------------------
(* Rows: the hash of the token and its predecessors in the same segment.     *)
\* The token before position `end' (counted from 1) and the two before it, as
\* far as they lie at or after `start'; outside the segment counts as Eos.
Window(t, end, start) ==
    [k \in 0..2 |-> IF k = 0 \/ end - 1 - k >= start THEN t[end - k] ELSE Eos]

Mixed(w, n) == w[0] + 2 * w[1] + (IF n = 3 THEN 4 * w[2] ELSE 0)

\* q38_ngram_fill
RowsAt(t, end, start) ==
    LET w == Window(t, end, start)
    IN  <<Mixed(w, 2) % Vocab2, Vocab2 + (Mixed(w, 3) % Vocab3)>>

\* fg_q38_ngram_lookup: the segment starts after the last Eos before the token.
LookupRows(t, count) ==
    RowsAt(t, count, Max({0} \cup {i \in 1..(count - 1) : t[i] = Eos}))

\* The start of the segment when the i-th token of the chunk is reached: only
\* two tokens before the chunk are looked at, then every token passed.
Segment(t, first, i) ==
    LET begin == IF first > 2 THEN first - 2 ELSE 0
    IN  Max({begin} \cup {p \in (begin + 1)..(first + i) : t[p] = Eos})

\* fg_q38_ngram_lookup_range: the rows of tokens first+1 .. first+count.
LookupRange(t, first, count) ==
    FlattenSeq([i \in 1..count |-> RowsAt(t, first + i, Segment(t, first, i - 1))])

-----------------------------------------------------------------------------
(* Direct reads.                                                             *)
\* The blocks of both ends of every row.
BlocksOf(rows) ==
    UNION {{BlockOf(rows[i] * RowBytes), BlockOf(rows[i] * RowBytes + RowBytes - 1)} :
              i \in DOMAIN rows}

\* The sorted blocks.
Ascending(S) ==
    SelectSeq([i \in 1..(PaddedEnd \div BlockBytes) |-> (i - 1) * BlockBytes], LAMBDA b : b \in S)

\* fg_ngram_plan_reads: sorted, each block once, adjacent blocks in pairs.
PlanReads(rows) ==
    FoldLeft(LAMBDA plan, b :
        IF plan # <<>> /\ plan[Len(plan)] = [off |-> b - BlockBytes, n |-> 1]
        THEN [plan EXCEPT ![Len(plan)].n = 2]
        ELSE Append(plan, [off |-> b, n |-> 1]), <<>>, Ascending(BlocksOf(rows)))

-----------------------------------------------------------------------------
(* The block cache.                                                          *)
SetOf(off) == (off \div BlockBytes) % CacheSets
Entry(c, off) == SelectSeq(c[SetOf(off)], LAMBDA e : e.off = off)
Cached(c, off) == Entry(c, off) # <<>>

\* fg_ngram_cache_get: a hit gets the newest stamp.
Get(c, off) ==
    IF ~Cached(c, off) THEN c
    ELSE [c EXCEPT ![SetOf(off)] = Entry(c, off) \o SelectSeq(@, LAMBDA e : e.off # off)]

\* fg_ngram_cache_put: in place of the same block, a free way or the oldest.
Put(c, off, data) ==
    LET others == SelectSeq(c[SetOf(off)], LAMBDA e : e.off # off)
    IN  [c EXCEPT ![SetOf(off)] = <<[off |-> off, data |-> data]>>
                                    \o SubSeq(others, 1, Min({Len(others), CacheWays - 1}))]

-----------------------------------------------------------------------------
(* One lookup.  s is the call's progress: cache, reads collected, reads made,  *)
(* whether one failed; `fail' is the number of the read that fails, 0 if none. *)
Start(c) == [cache |-> c, batch |-> <<>>, io |-> 0, dead |-> FALSE, packed |-> <<>>]
Read(s, fail) == [s EXCEPT !.io = @ + 1, !.dead = (s.io + 1 = fail)]

\* Mutant: both blocks of a pair are cached from the start of its buffer.
PutReadOnce(c, r) ==
    IF r.n = 1 THEN Put(c, r.off, r.off)
    ELSE Put(Put(c, r.off, r.off), r.off + BlockBytes, r.off)

\* The blocks of one completed read.
PutRead(c, r) ==
    IF r.n = 1 THEN Put(c, r.off, r.off)
    ELSE Put(Put(c, r.off, r.off), r.off + BlockBytes, r.off + BlockBytes)

\* fg_uring_pread_batch and the puts that follow it.
Flush(s, fail) ==
    LET r == Read(s, fail)
    IN  IF s.batch = <<>> THEN s
        ELSE IF r.dead THEN [r EXCEPT !.batch = <<>>]
        ELSE [r EXCEPT !.cache = FoldLeft(PutRead, s.cache, s.batch), !.batch = <<>>]

\* The part of a planned read the cache does not have.
Missing(c, r) ==
    LET second == r.off + BlockBytes
    IN  IF r.n = 1 THEN IF Cached(c, r.off) THEN <<>> ELSE <<r>>
        ELSE IF Cached(c, r.off)
             THEN IF Cached(c, second) THEN <<>> ELSE <<[off |-> second, n |-> 1]>>
             ELSE IF Cached(c, second) THEN <<[off |-> r.off, n |-> 1]>> ELSE <<r>>

\* load_missing_blocks: batches of at most IoSlots reads.
LoadMissing(s, plan, fail) ==
    LET visit(t, r) ==
            LET seen == IF r.n = 1 THEN Get(t.cache, r.off)
                        ELSE Get(Get(t.cache, r.off), r.off + BlockBytes)
                next == [t EXCEPT !.cache = seen, !.batch = @ \o Missing(t.cache, r)]
            IN  IF t.dead THEN t
                ELSE IF Len(next.batch) = IoSlots THEN Flush(next, fail) ELSE next
    IN  Flush(FoldLeft(visit, s, plan), fail)

\* get_or_reload_block
Reload(s, off, fail) ==
    IF Cached(s.cache, off) THEN [s EXCEPT !.cache = Get(@, off)]
    ELSE LET r == Read(s, fail)
         IN  IF r.dead THEN r ELSE [r EXCEPT !.cache = Get(Put(@, off, off), off)]
DataOf(s, off) == Entry(s.cache, off)[1].data

\* pack_rows, one row: the bytes of its first block, then those of the second,
\* whose load may push the first one out.
PackRow(s, a, fail) ==
    LET block  == BlockOf(a)
        first  == Min({RowBytes, BlockBytes - (a - block)})
        one    == Reload(s, block, fail)
        two    == IF first = RowBytes THEN one ELSE Reload(one, block + BlockBytes, fail)
        byte(k) == IF k < first THEN DataOf(one, block) + (a - block) + k
                   ELSE DataOf(two, block + BlockBytes) + (k - first)
    IN  IF one.dead THEN one ELSE IF two.dead THEN two
        ELSE [two EXCEPT !.packed = Append(@, [k \in 0..(RowBytes - 1) |-> byte(k)])]

PackRows(s, rows, fail) ==
    FoldLeft(LAMBDA t, r : IF t.dead THEN t ELSE PackRow(t, r * RowBytes, fail), s, rows)

-----------------------------------------------------------------------------
NoLookup == [first |-> 0, rows |-> <<>>, plan |-> <<>>, packed |-> <<>>, ok |-> TRUE]

Init ==
    /\ history = <<>> /\ cache = [s \in 0..(CacheSets - 1) |-> <<>>]
    /\ lookups = 0 /\ last = NoLookup

(* fg_ngram_store_lookup_prefill on the next tokens of the history; a decoded
   token is a chunk of one (fg_ngram_store_lookup). *)
LookupPrefill(new, fail) ==
    /\ lookups < MaxLookups /\ Len(history) + Len(new) <= MaxHistory
    /\ \E t \in {history \o new} :
       \E rows \in {LookupRange(t, Len(history), Len(new))} :
       \E plan \in {PlanReads(rows)} :
       \E done \in {PackRows(LoadMissing(Start(cache), plan, fail), rows, fail)} :
           /\ fail = 0 \/ done.dead
           /\ history' = t /\ cache' = done.cache /\ lookups' = lookups + 1
           /\ last' = [first |-> Len(history), rows |-> rows, plan |-> plan,
                       packed |-> IF done.dead THEN <<>> ELSE done.packed, ok |-> ~done.dead]

\* Another conversation; the store keeps its blocks.
NewConversation ==
    /\ history # <<>> /\ lookups < MaxLookups
    /\ history' = <<>> /\ last' = NoLookup
    /\ UNCHANGED <<cache, lookups>>

Over == lookups = MaxLookups /\ UNCHANGED vars

Next ==
    \/ \E n \in 1..MaxTokens : \E new \in [1..n -> Tokens] :
          \E fail \in 0..(2 * MaxTokens) : LookupPrefill(new, fail)
    \/ NewConversation \/ Over

Spec == Init /\ [][Next]_vars

-----------------------------------------------------------------------------
(* Types; a set never holds more blocks than it has ways. *)
TypeOK ==
    /\ history \in Seq(Tokens) /\ Len(history) <= MaxHistory /\ lookups \in 0..MaxLookups
    /\ \A s \in DOMAIN cache : Len(cache[s]) <= CacheWays
    /\ last.ok \in BOOLEAN

(* A lookup that succeeds packs, for every token of its chunk and every head, the
   bytes of the row that hashing the whole history would select: chunks, segment
   ends before and inside a chunk, rows across two blocks, evictions by the same
   lookup and earlier failed reads make no difference (lookup_range, pack_rows). *)
RowsExact ==
    last.ok => \A i \in DOMAIN last.packed :
        LET token == last.first + 1 + ((i - 1) \div Len(Heads))
            row   == LookupRows(history, token)[1 + ((i - 1) % Len(Heads))]
        IN  last.packed[i] = [k \in 0..(RowBytes - 1) |-> row * RowBytes + k]

(* A cached block holds its own bytes and is cached once, also after a paired read
   of which one half was cached, and after failed reads (fg_ngram_cache_put). *)
CacheHonest ==
    \A s \in DOMAIN cache :
        /\ \A k \in DOMAIN cache[s] : cache[s][k].data = cache[s][k].off /\ SetOf(cache[s][k].off) = s
        /\ \A j, k \in DOMAIN cache[s] : cache[s][j].off = cache[s][k].off => j = k

(* "Sorted, deduplicated 4-8 KiB O_DIRECT reads. Adjacent blocks are paired, never
   widened beyond 8 KiB": the plan covers the blocks of the rows exactly once, in
   reads of one or two blocks that end inside the padded table. *)
PlanExact ==
    LET p == last.plan
        covered(k) == {p[k].off + j * BlockBytes : j \in 0..(p[k].n - 1)}
    IN  /\ UNION {covered(k) : k \in DOMAIN p} = BlocksOf(last.rows)
        /\ \A k \in DOMAIN p : p[k].n \in {1, 2} /\ p[k].off + p[k].n * BlockBytes <= PaddedEnd
        /\ \A j, k \in DOMAIN p : j < k => p[j].off + p[j].n * BlockBytes <= p[k].off

\* A lookup, its cache and its plan: the rows packed are those of the history,
\* cached blocks hold their own bytes, each block is read once.
LookupExact ==
    /\ TypeOK
    /\ RowsExact
    /\ CacheHonest
    /\ PlanExact
=============================================================================

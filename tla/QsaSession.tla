----------------------------- MODULE QsaSession -----------------------------
(***************************************************************************)
(* The QSA records of one session on the rank that owns its layers:        *)
(* src/src/qsa.c over the page cache (src/src/qsa_cache.c) and the state   *)
(* file with its read-ahead ring (src/src/qsa_state.c).                    *)
(*                                                                         *)
(* A page holds Ratio token records.  Records are opaque: `life' counts    *)
(* the histories of the session (it grows when a reset or a rollback       *)
(* discards tokens) and a record names the life, layer and token it was    *)
(* computed for; zeroed memory is <<>>.  truth is what each layer has      *)
(* committed; every attention compares the records it gathers with it.  A  *)
(* session runs on one thread; only the kernel's read-ahead is concurrent. *)
(***************************************************************************)
EXTENDS Integers, Sequences, FiniteSets, SequencesExt, FiniteSetsExt

CONSTANTS
    Layers,      \* the QSA layers of the rank, 0..n
    Ratio,       \* FG_Q38_QSA_COMPRESS_RATIO
    Blocks,      \* max_blocks: pages of a layer
    Capacity,    \* cache_pages, shared by the layers
    MaxSelected, \* FG_QSA_MAX_SELECTED_BLOCKS
    Pool,        \* FG_QSA_PREFETCH_PAGES
    Microbatch,  \* max_tokens: the longest prefill
    MaxDecoded,  \* bound: tokens decoded in a row
    MaxLife,     \* bound: histories
    MayRollBack  \* whether a decode step may be rolled back

\* What the constants of every instance satisfy.
QsaSessionAssumption ==
    /\ {Ratio, Blocks, Capacity, MaxSelected, Microbatch, MaxLife} \subseteq Nat \ {0}
    /\ {Pool, MaxDecoded} \subseteq Nat /\ MayRollBack \in BOOLEAN

VARIABLES
    committed, \* committed[l]
    truth,     \* truth[l]: the records of the committed tokens (history)
    cache,     \* the page cache, its records and the slot table
    file,      \* file[l][b]: the page in the state file
    frontier,  \* frontier[l]: state->layer_tokens
    staged,    \* state->prefetch, in pool order
    life, decoded, mark,
    width,     \* what the layers are executing: 0 one decode, n a prefill of n
    fault,     \* the error of the last operation, "none" if it succeeded
    exact      \* whether the last attention gathered the committed records

vars == <<committed, truth, cache, file, frontier, staged, life, decoded, mark, width, fault, exact>>

Slots   == 0..(Capacity - 1)
NoSlot  == -1
NoPage  == <<>>
Zero    == [i \in 1..Ratio |-> <<>>]
Limit   == Blocks * Ratio
Rec(l, token) == <<life, l, token>>

-----------------------------------------------------------------------------
(* The page cache: entries, pins, least recently used order, slot table.     *)
Find(c, p) ==
    LET at == {s \in Slots : c.page[s] = p}
    IN  IF at = {} THEN NoSlot ELSE CHOOSE s \in at : TRUE

\* cache_lru_front
ToFront(c, s) == [c EXCEPT !.lru = <<s>> \o SelectSeq(@, LAMBDA x : x # s)]

\* qsa_slot_store
Store(c, p, s) ==
    [c EXCEPT !.table[p[1]][p[2]] = s,
              !.prefix[p[1]] = IF s = NoSlot THEN Min({@, p[2]})
                               ELSE IF p[2] = @ THEN @ + 1 ELSE @]

\* Mutant: pins are not looked at.
VictimAny(c, soft) == c.lru[Len(c.lru)]

\* The slot to recycle: the oldest that is not pinned; with every page pinned a
\* soft request gets none and a hard one the oldest.
Victim(c, soft) ==
    LET loose == {k \in DOMAIN c.lru : ~c.pin[c.lru[k]]}
    IN  IF loose # {} THEN c.lru[Max(loose)]
        ELSE IF soft THEN NoSlot ELSE c.lru[Len(c.lru)]

\* The slot of a page: its own, a fresh one, or that of the page to evict.
SlotFor(c, p, soft) ==
    IF Find(c, p) # NoSlot THEN Find(c, p)
    ELSE IF Len(c.lru) < Capacity THEN Len(c.lru) ELSE Victim(c, soft)

\* Page p takes slot s, and the page there before leaves (the evict hook).
Evicted(c, s) == IF c.page[s] = NoPage THEN c ELSE Store(c, c.page[s], NoSlot)
Placed(c, p, s) ==
    IF c.page[s] = p THEN c ELSE [Evicted(c, s) EXCEPT !.page[s] = p, !.pin[s] = FALSE]

\* cache_acquire, and qsa_cache_acquire(_soft).
AcquireAt(c, p, s) == IF s = NoSlot THEN c ELSE Store(ToFront(Placed(c, p, s), s), p, s)
Acquire(c, p, soft) == AcquireAt(c, p, SlotFor(c, p, soft))

Put(c, p, d) == IF Find(c, p) = NoSlot THEN c ELSE [c EXCEPT !.data[Find(c, p)] = d]

\* fg_qsa_page_cache_lookup, a hit moves the page to the front.
Touch(c, p) == IF Find(c, p) = NoSlot THEN c ELSE ToFront(c, Find(c, p))
TouchAll(c, l, bs) == FoldLeft(LAMBDA d, b : Touch(d, <<l, b>>), c, bs)

\* fg_qsa_page_cache_unpin
Unpin(c, p) == IF Find(c, p) = NoSlot THEN c ELSE [c EXCEPT !.pin[Find(c, p)] = FALSE]

EmptyCache ==
    [page |-> [s \in Slots |-> NoPage], pin |-> [s \in Slots |-> FALSE], lru |-> <<>>,
     table |-> [l \in Layers |-> [b \in 0..(Blocks - 1) |-> NoSlot]],
     prefix |-> [l \in Layers |-> 0], data |-> [s \in Slots |-> Zero]]

\* The cache after qsa_cache_reset; the records stay where they are.
ResetCache(c) == [EmptyCache EXCEPT !.data = c.data]

-----------------------------------------------------------------------------
Ascending(S) == SetToSortSeq(S, <)
Pages(seq) == {seq[k] : k \in DOMAIN seq}

\* Commit one record: acquire its page, pin it, write the record
\* (commit_and_attend_cache, commit_prefill_records).
Written(c, s, l, token) ==
    [c EXCEPT !.pin[s] = TRUE, !.data[s][(token % Ratio) + 1] = Rec(l, token)]
Acquired(c, p, l, token) == Written(c, Find(c, p), l, token)
CommitRecord(c, l, token) ==
    LET p == <<l, token \div Ratio>> IN Acquired(Acquire(c, p, FALSE), p, l, token)

\* What a page of the layer should hold, up to `tokens' tokens.
Due(l, b, tokens, t) == [i \in 1..Min({Ratio, tokens - b * Ratio}) |-> t[b * Ratio + i]]
Holds(d, due) == \A i \in DOMAIN due : d[i] = due[i]

\* The outcome of a top-k reduction over unknown scores (qsa_select_scan).
TopBlocks(whole) == {s \in [1..MaxSelected -> whole] : IsInjective(s)}

\* The blocks an attention selects: all of them while they fit, otherwise the
\* MaxSelected best in the order of their scores.
Selections(tokens) ==
    LET whole == 0..((tokens \div Ratio) - 1)
    IN  IF Cardinality(whole) <= MaxSelected THEN {[i \in 1..Cardinality(whole) |-> i - 1]}
        ELSE TopBlocks(whole)

\* fg_qsa_page_cache_plan_fetch: the missing pages and, while there is room, the
\* page after each of them.
PlanFetch(c, l, missing, complete) ==
    FoldLeft(LAMBDA plan, b : IF /\ b + 1 < complete /\ Find(c, <<l, b + 1>>) = NoSlot
                                /\ ~Contains(plan, b + 1) /\ Len(plan) < MaxSelected
                             THEN Append(plan, b + 1) ELSE plan, missing, missing)

\* state_fetch_pages refuses a page that is not complete.
Fetchable(l, bs) == \A k \in DOMAIN bs : file[l][bs[k]].count = Ratio
Insert(c, l, bs, soft) ==
    FoldLeft(LAMBDA d, b : Put(Acquire(d, <<l, b>>, soft), <<l, b>>, file[l][b].data), c, bs)

\* qsa_prefetch_reap: pages of the layer the kernel has read go into the cache
\* unless it holds them, until one finds no slot; a failed read is dropped.
Ready(l) == SelectSeq(staged, LAMBDA e : e.layer = l /\ e.read /\ e.page.count # 0)
Full(c) == Len(c.lru) = Capacity /\ Victim(c, TRUE) = NoSlot
Serve(c, l, e) ==
    IF Find(c, <<l, e.block>>) # NoSlot THEN Touch(c, <<l, e.block>>)
    ELSE Put(Acquire(c, <<l, e.block>>, TRUE), <<l, e.block>>, e.page.data)

Reaped(c, l) ==
    FoldLeft(LAMBDA s, e : IF s.done THEN s
                           ELSE IF Find(s.c, <<l, e.block>>) = NoSlot /\ Full(s.c)
                                THEN [s EXCEPT !.done = TRUE]
                           ELSE [s EXCEPT !.c = Serve(s.c, l, e)],
             [c |-> c, done |-> FALSE], Ready(l)).c

Waiting(l) == SelectSeq(staged, LAMBDA e : ~(e.read /\ (e.layer = l \/ e.page.count = 0)))

\* fg_qsa_state_prefetch: hints that fit the pool and are not in it.
Staged(l, bs) ==
    FoldLeft(LAMBDA q, b : IF Len(q) = Pool \/ \E k \in DOMAIN q : q[k].layer = l /\ q[k].block = b
                          THEN q
                          ELSE Append(q, [layer |-> l, block |-> b, read |-> FALSE,
                                          page |-> [count |-> 0, data |-> Zero]]),
            Waiting(l), bs)

-----------------------------------------------------------------------------
Init ==
    /\ committed = [l \in Layers |-> 0] /\ truth = [l \in Layers |-> <<>>]
    /\ cache = EmptyCache
    /\ file = [l \in Layers |-> [b \in 0..(Blocks - 1) |-> [count |-> 0, data |-> Zero]]]
    /\ frontier = [l \in Layers |-> 0]
    /\ staged = <<>> /\ life = 1 /\ decoded = 0 /\ mark = 0 /\ width = 0
    /\ fault = "none" /\ exact = TRUE

Level == \A l \in Layers : committed[l] = committed[0]

\* The layers run in order, all of them on the same tokens.
Turn(l, n) ==
    /\ fault = "none" /\ (Level \/ width = n)
    /\ \A k \in Layers : IF k < l THEN committed[k] > committed[l] ELSE committed[k] = committed[l]
    /\ width' = n

\* select_blocks_resolve: every selected page has a slot in the table, and the
\* gather goes through the table.
Resolved(c, l, S, complete) == complete > MaxSelected /\ \A b \in S : c.table[l][b] # NoSlot

Missing(c, l, sel, complete) ==
    IF Resolved(c, l, Pages(sel), complete) THEN <<>>
    ELSE SelectSeq(sel, LAMBDA b : Find(c, <<l, b>>) = NoSlot)

\* The end of attend_cache: c is the cache the selection was resolved with, d the
\* one after the fetch; the gather reads the selected pages and the tail page.
Gathered(l, sel, c, d, missing, tokens, now) ==
    LET complete == tokens \div Ratio
        tail     == tokens % Ratio # 0
        slot(b)  == IF Resolved(c, l, Pages(sel), complete) THEN c.table[l][b]
                    ELSE Find(d, <<l, b>>)
        status   == IF \E b \in Pages(sel) : slot(b) = NoSlot THEN "uncached"
                    ELSE IF tail /\ Find(d, <<l, complete>>) = NoSlot THEN "tail" ELSE "none"
    IN  [cache  |-> IF tail THEN Touch(d, <<l, complete>>) ELSE d,
         fault  |-> status,
         staged |-> IF status = "none" THEN Staged(l, missing) ELSE Waiting(l),
         exact  |-> status = "none" =>
                      /\ \A b \in Pages(sel) : Holds(d.data[slot(b)], Due(l, b, tokens, now))
                      /\ tail => Holds(d.data[Find(d, <<l, complete>>)],
                                      Due(l, complete, tokens, now))]

\* The missing pages are fetched with their successors.
Fetched(l, sel, c, missing, plan, tokens, now) ==
    IF missing = <<>> THEN Gathered(l, sel, c, TouchAll(c, l, sel), missing, tokens, now)
    ELSE IF Fetchable(l, plan)
    THEN Gathered(l, sel, c, TouchAll(Insert(TouchAll(c, l, sel), l, plan, FALSE), l, sel),
                  missing, tokens, now)
    ELSE [cache |-> TouchAll(c, l, sel), fault |-> "fetch", staged |-> Waiting(l), exact |-> TRUE]

LookedUp(l, sel, c, missing, tokens, now) ==
    Fetched(l, sel, c, missing, PlanFetch(c, l, missing, tokens \div Ratio), tokens, now)
AfterReap(l, sel, c, tokens, now) ==
    LookedUp(l, sel, c, Missing(c, l, sel, tokens \div Ratio), tokens, now)

(* attend_cache: pages read ahead are served, the selected pages looked up, the
   missing ones fetched with their successors, the tail page looked up. *)
Attend(l, sel, cached, tokens, now) == AfterReap(l, sel, Reaped(cached, l), tokens, now)

(* fg_qsa_session_decode on the cached path: commit_and_attend_cache. *)
Decode(l) ==
    /\ Turn(l, 0) /\ committed[l] < Limit /\ (decoded < MaxDecoded \/ ~Level)
    /\ LET token == committed[l]
           now   == Append(truth[l], Rec(l, token))
       IN  /\ \E c \in {CommitRecord(cache, l, token)} : \E sel \in Selections(token + 1) :
              \E done \in {Attend(l, sel, c, token + 1, now)} :
                 /\ cache' = done.cache /\ staged' = done.staged
                 /\ fault' = done.fault /\ exact' = done.exact
           /\ committed' = [committed EXCEPT ![l] = token + 1]
           /\ truth' = [truth EXCEPT ![l] = now]
           /\ mark' = IF Level THEN token ELSE mark
    /\ decoded' = IF Level THEN decoded + 1 ELSE decoded
    /\ UNCHANGED <<file, frontier, life>>

\* persist_prefill_state: every page from the file's frontier to `end' is looked
\* up, written with the records it has, and published.
PersistFrom(l) == frontier[l] \div Ratio

PersistOrder(l, end) ==
    [k \in 1..(((end + Ratio - 1) \div Ratio) - PersistFrom(l)) |-> PersistFrom(l) + k - 1]

\* fg_qsa_session_page_published on each page that was found.
Published(c, l, bs) == FoldLeft(LAMBDA d, b : Unpin(Touch(d, <<l, b>>), <<l, b>>), c, bs)

PersistedPage(c, l, b, end) ==
    [count |-> Min({Ratio, end - b * Ratio}),
     data  |-> [i \in 1..Ratio |-> IF i <= end - b * Ratio THEN c.data[Find(c, <<l, b>>)][i] ELSE <<>>]]

\* One selection sweep for the whole microbatch (attend_prefill_tiles).
Sweeps(first, n) ==
    {pick \in [1..n -> UNION {Selections(first + q) : q \in 1..n}] :
        \A q \in 1..n : pick[q] \in Selections(first + q)}

(* prefill_tile_attention: each query looks its pages and its tail up; missing
   pages are read from the file and kept if the cache has room for them. *)
AttendTile(l, first, pick, c, now) ==
    LET Q       == DOMAIN pick
        tail(q) == (first + q) \div Ratio
        cut(q)  == (first + q) % Ratio # 0
        missing == {b \in UNION {Pages(pick[q]) : q \in Q} : Find(c, <<l, b>>) = NoSlot}
        looked  == FoldLeft(LAMBDA d, q : LET e == TouchAll(d, l, pick[q])
                                          IN  IF cut(q) THEN Touch(e, <<l, tail(q)>>) ELSE e,
                            c, [q \in Q |-> q])
        status  == IF \E q \in Q : cut(q) /\ Find(c, <<l, tail(q)>>) = NoSlot THEN "tail"
                   ELSE IF ~Fetchable(l, Ascending(missing)) THEN "fetch" ELSE "none"
    IN  [fault |-> status,
         cache |-> IF status = "none" THEN Insert(looked, l, Ascending(missing), TRUE) ELSE looked,
         exact |-> status = "none" => \A q \in Q :
             /\ \A b \in Pages(pick[q]) :
                   Holds(IF b \in missing THEN file[l][b].data ELSE c.data[Find(c, <<l, b>>)],
                         Due(l, b, first + q, now))
             /\ cut(q) => Holds(c.data[Find(c, <<l, tail(q)>>)], Due(l, tail(q), first + q, now))]

\* commit_prefill_records
CommitRecords(c, l, first, n) ==
    FoldLeft(LAMBDA d, i : CommitRecord(d, l, first + i - 1), c, [i \in 1..n |-> i])

\* The pages of `order' the cache still holds, up to the first it has lost.
Kept(c, l, order) ==
    LET found == {k \in DOMAIN order : \A j \in 1..k : Find(c, <<l, order[j]>>) # NoSlot}
    IN  SubSeq(order, 1, Cardinality(found))

\* The end of a prefill: the pages `kept' of cache c are written and published,
\* and unless something failed the records `now' are committed.
PrefillEnds(l, c, kept, status, now) ==
    LET end == Len(now)
    IN  /\ fault' = status
        /\ cache' = Published(c, l, kept)
        /\ file' = [file EXCEPT ![l] = [b \in 0..(Blocks - 1) |->
                        IF Contains(kept, b) THEN PersistedPage(c, l, b, end) ELSE @[b]]]
        /\ frontier' = [frontier EXCEPT ![l] =
                        IF kept = <<>> THEN @ ELSE Min({end, (kept[Len(kept)] + 1) * Ratio})]
        /\ committed' = [committed EXCEPT ![l] = IF status = "none" THEN end ELSE @]
        /\ truth' = [truth EXCEPT ![l] = IF status = "none" THEN now ELSE @]

(* fg_qsa_session_prefill with a cache: the records are committed, every query
   attends, then the pages are persisted and the tokens count as committed. *)
Prefill(l, n) ==
    /\ Turn(l, n) /\ committed[l] + n <= Limit
    /\ LET first == committed[l]
           now   == truth[l] \o [i \in 1..n |-> Rec(l, first + i - 1)]
           order == PersistOrder(l, first + n)
       IN  \E c \in {CommitRecords(cache, l, first, n)} : \E pick \in Sweeps(first, n) :
           \E tile \in {AttendTile(l, first, pick, c, now)} :
              /\ exact' = tile.exact
              /\ IF tile.fault # "none" THEN PrefillEnds(l, tile.cache, <<>>, tile.fault, now)
                 ELSE \E kept \in {Kept(tile.cache, l, order)} :
                         PrefillEnds(l, tile.cache, kept,
                                     IF Len(kept) < Len(order) THEN "lost" ELSE "none", now)
    /\ decoded' = 0
    /\ UNCHANGED <<staged, life, mark>>

\* The kernel finishes a read-ahead: the page as the file has it now, or nothing.
KernelReads(k) ==
    /\ ~staged[k].read
    /\ \E page \in {file[staged[k].layer][staged[k].block], [count |-> 0, data |-> Zero]} :
          staged' = [staged EXCEPT ![k].read = TRUE, ![k].page = page]
    /\ UNCHANGED <<committed, truth, cache, file, frontier, life, decoded, mark, width, fault, exact>>

\* fg_qsa_session_reset: the read-ahead is drained, tokens and cache are
\* forgotten, the pages stay in the file.
Reset ==
    /\ life < MaxLife /\ life' = life + 1
    /\ committed' = [l \in Layers |-> 0] /\ truth' = [l \in Layers |-> <<>>]
    /\ frontier' = [l \in Layers |-> 0]
    /\ cache' = ResetCache(cache) /\ staged' = <<>>
    /\ decoded' = 0 /\ mark' = 0 /\ fault' = "none" /\ exact' = TRUE
    /\ width' = 0 /\ UNCHANGED file

\* fg_owner_qsa_rollback: the decode step is undone on every layer.
RollBack ==
    /\ MayRollBack /\ life < MaxLife /\ decoded > 0
    /\ life' = life + 1
    /\ committed' = [l \in Layers |-> mark]
    /\ truth' = [l \in Layers |-> SubSeq(truth[l], 1, mark)]
    /\ frontier' = [l \in Layers |-> mark]
    /\ decoded' = 0 /\ fault' = "none" /\ exact' = TRUE
    /\ width' = 0 /\ UNCHANGED <<cache, file, staged, mark>>

\* The context is full, or the caller is left with an error.
Over == (committed[0] = Limit \/ fault # "none") /\ UNCHANGED vars

Next ==
    \/ \E l \in Layers : Decode(l) \/ \E n \in 1..Microbatch : Prefill(l, n)
    \/ \E k \in DOMAIN staged : KernelReads(k)
    \/ Reset \/ RollBack \/ Over

Spec == Init /\ [][Next]_vars

-----------------------------------------------------------------------------
(* Types, and the frontier of the file is never ahead of the session. *)
TypeOK ==
    /\ committed \in [Layers -> 0..Limit] /\ life \in 1..MaxLife
    /\ \A l \in Layers : Len(truth[l]) = committed[l]
    /\ Len(staged) <= Pool
    /\ fault \in {"none", "fetch", "uncached", "tail", "lost"}
    /\ \A l \in Layers : frontier[l] <= committed[l]

(* Attention that reports success has read the records the session committed,
   whether they came from the cache, the slot table, the read-ahead or the file
   (attend_cache, prefill_tile_attention, qsa_prefetch_reap). *)
AttendExact == exact

(* The table the GPU resolves selected pages with names a slot exactly when the
   cache holds the page there, and the pages below cached_prefix are all resident
   (qsa_slot_store, the evict hook, fg_qsa_session_submit_group_ready). *)
TableExact ==
    /\ \A l \in Layers, b \in 0..(Blocks - 1) : cache.table[l][b] = Find(cache, <<l, b>>)
    /\ \A l \in Layers : \A b \in 0..(cache.prefix[l] - 1) : cache.table[l][b] # NoSlot

(* "The block owner's state-backed QSA session persists every completed block":
   each page the file is said to have holds the committed records. *)
FileExact ==
    \A l \in Layers : \A b \in 0..(Blocks - 1) :
        b * Ratio < frontier[l] => /\ file[l][b].count = Min({Ratio, frontier[l] - b * Ratio})
                                   /\ Holds(file[l][b].data, Due(l, b, frontier[l], truth[l]))

(* "The pages are pinned, so the lookup below cannot miss them": no operation
   fails for a page that is neither in the cache nor in the file. *)
NothingLost == fault = "none"

=============================================================================

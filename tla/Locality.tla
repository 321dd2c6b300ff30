------------------------------ MODULE Locality ------------------------------
(***************************************************************************)
(* The page locality statistics of a QSA session (src/src/qsa_locality.c): *)
(* a selection's pages are made distinct with a generation stamp, split    *)
(* into the hot tail and cold pages, and every cold page's reuse distance  *)
(* is read off a treap over the times of last access, from which the hits  *)
(* of an LRU cache of each budget are counted.                             *)
(*                                                                         *)
(* The reference is kept beside it: the pages in order of last access and  *)
(* the contents of a real LRU cache per budget.  Node priorities are a     *)
(* mix of a random key, so any order of the nodes; digests, traces and the *)
(* page cache's own hit counters are left out.                             *)
(***************************************************************************)
EXTENDS Integers, Sequences, FiniteSets, SequencesExt, FiniteSetsExt

CONSTANTS
    LayerSlots,      \* FG_QSA_LOCALITY_LAYER_COUNT
    MaxBlocks,       \* trace->max_blocks
    Ratio,           \* FG_Q38_QSA_COMPRESS_RATIO: tokens of a page
    HotTokens,       \* trace->hot_tokens
    Budgets,         \* capacities in pages
    Generations,     \* the generation stamp is unsigned: 2^32
    TokenCounts,     \* context lengths of the selections tried
    MaxPages,        \* bound: page ids of a selection
    MaxSelections    \* bound: selections recorded

\* What the constants of every instance satisfy.
LocalityAssumption ==
    /\ {LayerSlots, MaxBlocks, Ratio, HotTokens, Generations, MaxPages} \subseteq Nat \ {0}
    /\ Generations > 1 /\ Budgets \subseteq Nat /\ TokenCounts \subseteq Nat

VARIABLES
    prio,      \* node -> its priority
    tree,      \* left, right, subtree and last_access of the nodes, and the root
    clock, generation, seen,
    previous,  \* slot -> pages of its last selection
    stats,     \* hits per budget, first and reused cold references, distances, overlap
    last,      \* the last selection: page ids and the distinct pages found
    order,     \* reference: the cold pages, last used first
    caches,    \* reference: budget -> pages of an LRU cache, last used first
    expect,    \* reference: what stats should be
    selections

vars == <<prio, tree, clock, generation, seen, previous, stats, last, order, caches, expect, selections>>

Nodes   == 1..(LayerSlots * MaxBlocks)
NodeOf(s, block) == s * MaxBlocks + block + 1

EmptyTree == [left |-> [n \in Nodes |-> 0], right |-> [n \in Nodes |-> 0],
              size |-> [n \in Nodes |-> 0], last |-> [n \in Nodes |-> 0], root |-> 0]
NoStats == [hits |-> [b \in Budgets |-> 0], first |-> 0, reused |-> 0, sum |-> 0, max |-> 0,
            hot |-> 0, overlap |-> 0]

-----------------------------------------------------------------------------
(* The treap.  An operator that changes it returns the new arrays and the     *)
(* root of the part it worked on.                                             *)
SizeOf(t, n) == IF n = 0 THEN 0 ELSE t.size[n]

Update(t, n) == [t EXCEPT !.size[n] = 1 + SizeOf(t, t.left[n]) + SizeOf(t, t.right[n])]

RECURSIVE Merge(_, _, _)
Merge(t, l, r) ==
    IF l = 0 THEN [t |-> t, n |-> r]
    ELSE IF r = 0 THEN [t |-> t, n |-> l]
    ELSE IF prio[l] > prio[r]
         THEN LET m == Merge(t, t.right[l], r)
              IN  [t |-> Update([m.t EXCEPT !.right[l] = m.n], l), n |-> l]
         ELSE LET m == Merge(t, l, t.left[r])
              IN  [t |-> Update([m.t EXCEPT !.left[r] = m.n], r), n |-> r]

\* split_nodes: what is older than key, and the rest.
RECURSIVE Split(_, _, _)
Split(t, n, key) ==
    IF n = 0 THEN [t |-> t, l |-> 0, r |-> 0]
    ELSE IF t.last[n] < key
         THEN LET s == Split(t, t.right[n], key)
              IN  [t |-> Update([s.t EXCEPT !.right[n] = s.l], n), l |-> n, r |-> s.r]
         ELSE LET s == Split(t, t.left[n], key)
              IN  [t |-> Update([s.t EXCEPT !.left[n] = s.r], n), l |-> s.l, r |-> n]

RECURSIVE Insert(_, _, _)
Insert(t, root, n) ==
    IF root = 0 THEN [t |-> t, n |-> n]
    ELSE IF prio[n] > prio[root]
         THEN LET s == Split(t, root, t.last[n])
              IN  [t |-> Update([s.t EXCEPT !.left[n] = s.l, !.right[n] = s.r], n), n |-> n]
    ELSE IF t.last[n] < t.last[root]
         THEN LET i == Insert(t, t.left[root], n)
              IN  [t |-> Update([i.t EXCEPT !.left[root] = i.n], root), n |-> root]
         ELSE LET i == Insert(t, t.right[root], n)
              IN  [t |-> Update([i.t EXCEPT !.right[root] = i.n], root), n |-> root]

RECURSIVE Erase(_, _, _)
Erase(t, root, key) ==
    IF root = 0 THEN [t |-> t, n |-> 0]
    ELSE IF t.last[root] = key THEN Merge(t, t.left[root], t.right[root])
    ELSE IF key < t.last[root]
         THEN LET e == Erase(t, t.left[root], key)
              IN  [t |-> Update([e.t EXCEPT !.left[root] = e.n], root), n |-> root]
         ELSE LET e == Erase(t, t.right[root], key)
              IN  [t |-> Update([e.t EXCEPT !.right[root] = e.n], root), n |-> root]

\* newer_nodes: how many pages were used after key.
RECURSIVE Newer(_, _, _)
Newer(t, root, key) ==
    IF root = 0 THEN 0
    ELSE IF t.last[root] > key
         THEN 1 + SizeOf(t, t.right[root]) + Newer(t, t.left[root], key)
         ELSE Newer(t, t.right[root], key)

-----------------------------------------------------------------------------
Init ==
    /\ prio \in {p \in [Nodes -> Nodes] : IsInjective(p)}
    /\ tree = EmptyTree /\ clock = 0 /\ generation = 0 /\ seen = [b \in 0..(MaxBlocks - 1) |-> 0]
    /\ previous = [s \in 0..(LayerSlots - 1) |-> {}]
    /\ stats = NoStats /\ last = [ids |-> <<>>, pages |-> <<>>]
    /\ order = <<>> /\ caches = [b \in Budgets |-> <<>>] /\ expect = NoStats
    /\ selections = 0

Hit(distance, capacity) == distance < capacity

\* record_reuse: p is the progress of the call: tree, clock, stats.
RecordReuse(p, node) ==
    LET prev     == p.tree.last[node]
        distance == Newer(p.tree, p.tree.root, prev)
        erased   == IF prev = 0 THEN [t |-> p.tree, n |-> p.tree.root]
                    ELSE Erase(p.tree, p.tree.root, prev)
        fresh    == [erased.t EXCEPT !.last[node] = p.clock + 1, !.left[node] = 0,
                                     !.right[node] = 0, !.size[node] = 1]
        into     == Insert(fresh, erased.n, node)
        hit(b)   == prev # 0 /\ Hit(distance, b)
    IN  [tree  |-> [into.t EXCEPT !.root = into.n], clock |-> p.clock + 1,
         stats |-> [p.stats EXCEPT
            !.hits   = [b \in Budgets |-> @[b] + (IF hit(b) THEN 1 ELSE 0)],
            !.first  = @ + (IF prev = 0 THEN 1 ELSE 0),
            !.reused = @ + (IF prev = 0 THEN 0 ELSE 1),
            !.sum    = @ + (IF prev = 0 THEN 0 ELSE distance),
            !.max    = Max({@, IF prev = 0 THEN 0 ELSE distance})]]

\* Mutant: the stamp wraps without clearing the marks.
NextGenerationKept == [gen |-> (generation + 1) % Generations, seen |-> seen]

\* ++generation; at zero the marks are cleared and it starts again at one.
NextGeneration ==
    IF (generation + 1) % Generations = 0
    THEN [gen |-> 1, seen |-> [b \in DOMAIN seen |-> 0]]
    ELSE [gen |-> generation + 1, seen |-> seen]

\* The distinct pages inside the table, in order of appearance.
Distinct(ids) ==
    FoldLeft(LAMBDA p, b :
                IF b >= MaxBlocks \/ p.seen[b] = NextGeneration.gen THEN p
                ELSE [seen |-> [p.seen EXCEPT ![b] = NextGeneration.gen], pages |-> Append(p.pages, b)],
             [seen |-> NextGeneration.seen, pages |-> <<>>], ids)

\* A page of the hot tail is not counted as a reference.
Cold(block, tokens) ==
    block * Ratio < (IF tokens > HotTokens THEN tokens - HotTokens ELSE 0)

\* The reference: a cold reference moves its page to the front of the order and
\* of every cache, which then drops what it has no place for.
Touch(s, n) == <<n>> \o SelectSeq(s, LAMBDA m : m # n)
Reference(p, n) ==
    LET hit(b) == n \in Range(p.caches[b])
        used   == n \in Range(p.order)
        at     == IF used THEN (CHOOSE i \in DOMAIN p.order : p.order[i] = n) - 1 ELSE 0
    IN  [order  |-> Touch(p.order, n),
         caches |-> [b \in Budgets |-> SubSeq(Touch(p.caches[b], n), 1,
                                              Min({b, Len(Touch(p.caches[b], n))}))],
         expect |-> [p.expect EXCEPT
            !.hits   = [b \in Budgets |-> @[b] + (IF hit(b) THEN 1 ELSE 0)],
            !.first  = @ + (IF used THEN 0 ELSE 1), !.reused = @ + (IF used THEN 1 ELSE 0),
            !.sum    = @ + at, !.max = Max({@, at})]]

(* fg_qsa_locality_record_selection *)
RecordSelection(s, tokens, ids) ==
    /\ selections < MaxSelections
    /\ \E d \in {Distinct(ids)} :
       \E cold \in {SelectSeq(d.pages, LAMBDA b : Cold(b, tokens))} :
       \E run \in {FoldLeft(LAMBDA p, b : RecordReuse(p, NodeOf(s, b)),
                           [tree |-> tree, clock |-> clock, stats |-> stats], cold)} :
       \E ref \in {FoldLeft(LAMBDA p, b : Reference(p, NodeOf(s, b)),
                           [order |-> order, caches |-> caches, expect |-> expect], cold)} :
           /\ tree' = run.tree /\ clock' = run.clock
           /\ stats' = [run.stats EXCEPT !.hot = @ + Len(d.pages) - Len(cold),
                  !.overlap = @ + Cardinality({i \in DOMAIN d.pages : d.pages[i] \in previous[s]})]
           /\ generation' = NextGeneration.gen /\ seen' = d.seen
           /\ previous' = [previous EXCEPT ![s] = Range(d.pages)]
           /\ last' = [ids |-> ids, pages |-> d.pages]
           /\ order' = ref.order /\ caches' = ref.caches
           /\ expect' = [ref.expect EXCEPT
                  !.hot = @ + Cardinality({b \in Range(ids) : b < MaxBlocks /\ ~Cold(b, tokens)}),
                  !.overlap = @ + Cardinality(Range(ids) \cap previous[s])]
    /\ selections' = selections + 1
    /\ UNCHANGED prio

(* fg_qsa_locality_reset *)
Reset ==
    /\ selections > 0 /\ clock > 0
    /\ tree' = EmptyTree /\ clock' = 0 /\ generation' = 0
    /\ seen' = [b \in DOMAIN seen |-> 0]
    /\ previous' = [s \in DOMAIN previous |-> {}]
    /\ stats' = NoStats /\ last' = [ids |-> <<>>, pages |-> <<>>]
    /\ order' = <<>> /\ caches' = [b \in Budgets |-> <<>>] /\ expect' = NoStats
    /\ UNCHANGED <<prio, selections>>

Over == selections = MaxSelections /\ UNCHANGED vars

Next ==
    \/ \E s \in 0..(LayerSlots - 1) : \E tokens \in TokenCounts : \E k \in 1..MaxPages :
          \E ids \in [1..k -> 0..MaxBlocks] : RecordSelection(s, tokens, ids)
    \/ Reset \/ Over

Spec == Init /\ [][Next]_vars

-----------------------------------------------------------------------------
(* Types. *)
TypeOK ==
    /\ tree.root \in Nodes \cup {0} /\ \A n \in Nodes : tree.size[n] \in 0..Cardinality(Nodes)
    /\ generation \in 0..(Generations - 1) /\ \A b \in DOMAIN seen : seen[b] \in 0..(Generations - 1)

\* Pages below n from the oldest to the newest.
RECURSIVE InOrder(_)
InOrder(n) == IF n = 0 THEN <<>> ELSE InOrder(tree.left[n]) \o <<n>> \o InOrder(tree.right[n])
Children(n) == {tree.left[n], tree.right[n]} \ {0}

(* The treap holds every cold page once, in the order of last access, with the size
   of every part and no child above its parent's priority, through any sequence of
   erasures and insertions (merge_nodes, split_nodes, insert_node, erase_node). *)
TreeIsOrder ==
    /\ Reverse(InOrder(tree.root)) = order
    /\ \A n \in Range(order) : /\ tree.size[n] = Len(InOrder(n))
                               /\ \A c \in Children(n) : prio[c] < prio[n]

(* The statistics are those of the reference: the hits of each budget are the hits a
   real LRU cache of that many pages would have had on the same cold references, the
   distances those of the LRU stack, across layers, repeated ids and resets. *)
StatsExact == stats = expect

(* A selection's distinct pages are exactly the ids inside the table, also when the
   generation stamp has wrapped (record_selection: seen, dedup). *)
DistinctExact ==
    /\ Range(last.pages) = {b \in Range(last.ids) : b < MaxBlocks}
    /\ IsInjective(last.pages)

\* The treap is the LRU stack and the statistics are those of LRU caches.
LocalityExact ==
    /\ TypeOK
    /\ TreeIsOrder
    /\ StatsExact
    /\ DistinctExact
=============================================================================

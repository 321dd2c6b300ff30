----------------------------- MODULE ReadAhead ------------------------------
(***************************************************************************)
(* The read-ahead ring of the QSA state file (src/src/qsa_state.c) on its  *)
(* io_uring (src/src/uring.c): slots of the page pool, requests prepared   *)
(* and flushed, the kernel that writes the pool on its own time, the       *)
(* completion queue with its wrapping counters, the drain before a reset   *)
(* and before the file is closed.                                          *)
(*                                                                         *)
(* QsaSession has the same ring as a set of pages on their way and asks    *)
(* whether a stale page is served; this module asks who owns the buffers.  *)
(***************************************************************************)
EXTENDS Integers, Sequences, FiniteSets, SequencesExt, FiniteSetsExt

CONSTANTS
    Layers, Blocks,  \* layer slots, blocks of a layer
    Pages,           \* FG_QSA_PREFETCH_PAGES: slots of the pool, entries of the ring
    Modulus,         \* the ring's counters are unsigned: 2^32
    Spins,           \* looks at the completion queue before a drain gives up: 250
    FlushFaults,     \* may io_uring_enter fail or submit a part?
    MaxTag           \* bound: hints issued

\* What the constants of every instance satisfy.
ReadAheadAssumption ==
    /\ {Pages, Modulus, Spins} \subseteq Nat \ {0} /\ Pages < Modulus
    /\ Blocks \subseteq Nat /\ FlushFaults \in BOOLEAN /\ MaxTag \in Nat

VARIABLES
    slot,      \* slot[i]: [st, layer, block, tag]; st 0 free, 1 in flight, 2 ready, 3 failed
    next,      \* prefetch_next
    live,      \* prefetch_live
    tag,       \* prefetch_tag
    disabled, abandoned,
    kernel,    \* requests the kernel works on: [tag, buf]
    cq,        \* completions not taken yet: [tag, ok]
    cqHead, cqTail,
    pc,        \* "run", or inside a drain: "reset", "close"; "closed"
    spins,     \* looks of this drain
    freed      \* pool and ring are freed

ring == <<kernel, cq, cqHead, cqTail>>
pool == <<slot, next, live, tag>>
vars == <<pool, disabled, abandoned, ring, pc, spins, freed>>

Buffers   == 0..(Pages - 1)
FreeSlot  == [st |-> 0, layer |-> 0, block |-> 0, tag |-> 0]
Used(s)   == {i \in Buffers : s[i].st # 0}

Init ==
    /\ slot = [i \in Buffers |-> FreeSlot]
    /\ next = 0 /\ live = 0 /\ tag = 0
    /\ disabled = FALSE /\ abandoned = FALSE
    /\ kernel = {} /\ cq = <<>> /\ cqHead = 0 /\ cqTail = 0
    /\ pc = "run" /\ spins = 0 /\ freed = FALSE

-----------------------------------------------------------------------------
(* fg_qsa_state_prefetch.                                                    *)
Advance(i) == (i + 1) % Pages

\* One hint: p is the progress of the call.  Hints of a page that already has a
\* slot are skipped; when no slot is free the rest is dropped.
Stage(p, layer, block) ==
    LET known == \E i \in Buffers :
                    p.slot[i].st # 0 /\ p.slot[i].layer = layer /\ p.slot[i].block = block
        free  == {k \in 0..(Pages - 1) : p.slot[(p.next + k) % Pages].st = 0}
        i     == (p.next + Min(free)) % Pages
    IN  IF known \/ free = {} THEN p
        ELSE [slot |-> [p.slot EXCEPT ![i] =
                          [st |-> 1, layer |-> layer, block |-> block, tag |-> p.tag + 1]],
              next |-> Advance(i), tag |-> p.tag + 1,
              sq   |-> Append(p.sq, [tag |-> p.tag + 1, buf |-> i])]

\* sent: how many of the prepared requests the kernel takes, -1 for an error.
Prefetch(layer, blocks, sent) ==
    /\ pc = "run" /\ ~disabled /\ tag + Len(blocks) <= MaxTag
    /\ LET p == FoldLeft(LAMBDA q, b : Stage(q, layer, b),
                         [slot |-> slot, next |-> next, tag |-> tag, sq |-> <<>>], blocks)
           n == Len(p.sq)
       IN  /\ next' = p.next /\ tag' = p.tag
           /\ sent <= n /\ (sent # n => FlushFaults /\ n > 0)
           /\ kernel' = kernel \cup {p.sq[k] : k \in 1..sent}
           /\ IF sent = n
              THEN slot' = p.slot /\ live' = live + n /\ UNCHANGED disabled
              ELSE \* "Unflushed SQEs are never seen by the kernel"
                   /\ slot' = [i \in Buffers |-> FreeSlot]
                   /\ disabled' = TRUE /\ UNCHANGED live
    /\ UNCHANGED <<abandoned, cq, cqHead, cqTail, pc, spins, freed>>

\* The kernel completes a read: the whole page or less than it.
KernelComplete(r, ok) ==
    /\ r \in kernel /\ kernel' = kernel \ {r}
    /\ cq' = Append(cq, [tag |-> r.tag, ok |-> ok])
    /\ cqTail' = (cqTail + 1) % Modulus
    /\ UNCHANGED <<slot, next, live, tag, disabled, abandoned, cqHead, pc, spins, freed>>

-----------------------------------------------------------------------------
\* fg_uring_peek: while(cq_head<cq_tail && completed<capacity).
Visible == IF cqHead < cqTail THEN Min({cqTail - cqHead, Pages}) ELSE 0

Peek ==
    /\ cq' = SubSeq(cq, Visible + 1, Len(cq))
    /\ cqHead' = (cqHead + Visible) % Modulus
    /\ UNCHANGED <<kernel, cqTail>>

\* prefetch_complete for every completion taken.
Completed ==
    FoldLeft(LAMBDA s, c : [i \in Buffers |->
                IF s[i].st = 1 /\ s[i].tag = c.tag
                THEN [s[i] EXCEPT !.st = IF c.ok THEN 2 ELSE 3] ELSE s[i]],
             slot, SubSeq(cq, 1, Visible))

\* The slots a reap empties: every failed one, and the ready ones of the layer,
\* whether their page passes its checks (served) or not (dropped).
Gone(s, layer) == {i \in Buffers : s[i].st = 3 \/ (s[i].st = 2 /\ s[i].layer = layer)}

\* fg_qsa_state_prefetch_reap; the caller's capacity exceeds the pool.
Reap(layer) ==
    /\ pc = "run" /\ ~disabled
    /\ Peek
    /\ slot' = [i \in Buffers |->
                  IF Completed[i].st = 3 \/ (Completed[i].st = 2 /\ Completed[i].layer = layer)
                  THEN FreeSlot ELSE Completed[i]]
    /\ live' = live - Min({live, Cardinality(Gone(Completed, layer))})
    /\ UNCHANGED <<next, tag, disabled, abandoned, pc, spins, freed>>

-----------------------------------------------------------------------------
(* fg_qsa_state_prefetch_cancel, called by fg_qsa_state_reset and _close.     *)
StartDrain(why) ==
    /\ pc = "run" /\ pc' = why /\ spins' = 0
    /\ UNCHANGED <<pool, disabled, abandoned, ring, freed>>

\* Mutant: every slot in use is waited for.
InFlightUsed(s) == Used(s)

\* "count state==1 explicitly"
InFlight(s) == {i \in Buffers : s[i].st = 1}

\* Mutant: looks without a completion are not counted.
LookedForever == spins

Looked == spins + 1

\* One look at the completion queue.
Spin ==
    /\ pc \in {"reset", "close"} /\ InFlight(slot) # {} /\ spins < Spins
    /\ spins' = Looked
    /\ Peek /\ slot' = Completed
    /\ UNCHANGED <<next, live, tag, disabled, abandoned, pc, freed>>

MayFree == ~abandoned'

\* The drain ends: nothing in flight, or given up; close then frees.
EndDrain ==
    /\ pc \in {"reset", "close"}
    /\ \/ /\ InFlight(slot) = {}
          /\ slot' = [i \in Buffers |-> FreeSlot] /\ live' = 0
          /\ UNCHANGED <<disabled, abandoned>>
       \/ /\ InFlight(slot) # {} /\ spins = Spins
          /\ disabled' = TRUE /\ abandoned' = TRUE
          /\ UNCHANGED <<slot, live>>
    /\ pc' = IF pc = "reset" THEN "run" ELSE "closed"
    /\ freed' = (pc = "close" /\ MayFree)
    /\ UNCHANGED <<next, tag, ring, spins>>

Closed == pc = "closed" /\ UNCHANGED vars

Next ==
    \/ \E layer \in Layers : \E blocks \in SetToAllKPermutations(Blocks) :
          \E sent \in (-1)..Pages : blocks # <<>> /\ Prefetch(layer, blocks, sent)
    \/ \E r \in kernel : \E ok \in BOOLEAN : KernelComplete(r, ok)
    \/ \E layer \in Layers : Reap(layer)
    \/ \E why \in {"reset", "close"} : StartDrain(why)
    \/ Spin \/ EndDrain \/ Closed

Spec == Init /\ [][Next]_vars

(* The session's thread inside a drain keeps running; the kernel owes nothing. *)
FairSpec == Spec /\ WF_vars(Spin) /\ WF_vars(EndDrain)

-----------------------------------------------------------------------------
(* Types. *)
TypeOK ==
    /\ \A i \in Buffers : slot[i].st \in 0..3
    /\ next \in Buffers /\ live \in 0..Pages /\ tag \in 0..MaxTag
    /\ cqHead \in 0..(Modulus - 1) /\ cqTail \in 0..(Modulus - 1)
    /\ Len(cq) = (cqTail - cqHead) % Modulus
    /\ pc \in {"run", "reset", "close", "closed"} /\ spins \in 0..Spins

(* As long as the ring is in use, a read the kernel works on writes a buffer whose
   slot waits for exactly that read: no ready page is overwritten and no buffer is
   filled twice, across reaps, resets and reuse of slots (prefetch, prefetch_reap). *)
BufferHasOneOwner ==
    ~disabled => \A r \in kernel : slot[r.buf].st = 1 /\ slot[r.buf].tag = r.tag

(* "the kernel may still write the pool, so neither the pool nor the ring may be
   freed" (fg_qsa_state_prefetch_cancel): freed memory has no read in flight. *)
NoFreeInFlight == freed => kernel = {}

(* The ring is given up only when a read has not completed or its completion came
   after the last look: pages that are ready do not count (prefetch_cancel). *)
GiveUpBusy == (abandoned' /\ ~abandoned) => (kernel # {} \/ cq # <<>>)
GivenUpOnlyBusy == [][GiveUpBusy]_vars

(* "copies whatever the CQ already holds" (include/fg_uring.h): after a reap the
   completion queue is empty. *)
TakesAll == (\E layer \in Layers : Reap(layer)) => cq' = <<>>
PeekTakesAll == [][TakesAll]_vars

(* "one bounded leak, never a stuck session": a drain ends whatever the kernel does. *)
Draining == pc \in {"reset", "close"}
DrainEnds == Draining ~> ~ Draining
=============================================================================

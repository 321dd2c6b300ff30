---------------------------- MODULE PrefillTree ----------------------------
(***************************************************************************)
(* Expert-parallel prefill (src/src/runtime.c).  Rank 0 runs several       *)
(* frames through the layers as a pipeline.  For every frame and layer it  *)
(* broadcasts the activations to the ranks that hold a selected expert,    *)
(* along a binary heap of those ranks, and the ranks reduce their partial  *)
(* sums back along the same heap, tile by tile.  Channels are the BULK     *)
(* sockets: ordered, with a bounded number of frames in their buffers.     *)
(***************************************************************************)
EXTENDS Naturals, Sequences, FiniteSets, SequencesExt, FiniteSetsExt

CONSTANTS
    W,          \* workers are the ranks 1 .. W; rank 0 coordinates
    F,          \* frames of the pipeline, FG_PREFILL_FRAMES in the code
    L,          \* layers
    Tiles,      \* reduction tiles of one frame
    Cap,        \* tiles that fit in the buffers of one BULK socket pair
    Routings,   \* sets of ranks that one frame's selected experts may live on
    Faults      \* bound: how many ranks or owner steps fail

\* What the constants of every instance satisfy.
TreeAssumption ==
    /\ {W, F, L, Tiles, Cap} \subseteq Nat \ {0}
    /\ Faults \in Nat
    /\ \A A \in Routings : A # {} /\ A \subseteq 0 .. W

WorkerRanks == 1 .. W
Ranks == 0 .. W
Slots == 0 .. F - 1

VARIABLES
    pc,         \* "slot", "collect", "reduce", "begin", "drain" or "done"
    at,         \* [round, slot]: the two loop variables i and f
    failed,     \* status is not FG_OK
    frame,      \* [Slots -> prefill_frame]
    transport,  \* transport_state
    worker,     \* [WorkerRanks -> state of handle_prefill_expert_work]
    wire,       \* [Ranks -> [Ranks -> Seq]]: BULK frames in flight
    faults

vars == <<pc, at, failed, frame, transport, worker, wire, faults>>
hostVars == <<pc, at, failed, frame, transport>>

(* prefill_tree_ranks: the active remote ranks in ascending order.         *)
TreeRanks(A) ==
    LET below(r) == {q \in A \ {0} : q < r}
    IN  [n \in 1 .. Cardinality(A \ {0}) |->
            CHOOSE r \in A \ {0} : Cardinality(below(r)) = n - 1]

(* Children and parent of a node of the heap (nodes count from 1 here).    *)
NodeOf(t, w) == CHOOSE n \in 1 .. Len(t) : t[n] = w
Children(t, w) == SelectSeq(<<2 * NodeOf(t, w), 2 * NodeOf(t, w) + 1>>, LAMBDA n : n <= Len(t))
Parent(t, w) == IF NodeOf(t, w) = 1 THEN 0 ELSE t[NodeOf(t, w) \div 2]

(* prefill_subtree_mask: everything whose path to the root meets the node. *)
Ancestors(n) == {m \in 1 .. n : \E k \in 0 .. n : m = n \div 2 ^ k}
Subtree(t, w) == {t[n] : n \in {m \in 1 .. Len(t) : NodeOf(t, w) \in Ancestors(m)}}

(* A partial sum remembers, for the properties only, which frame, layer and *)
(* tile it was computed for and how often each rank entered it.            *)
Partial(seq, tile, w) == [from |-> {<<seq, tile>>}, count |-> [v \in WorkerRanks |-> IF v = w THEN 1 ELSE 0]]
Merge(a, b) == [from |-> a.from \cup b.from, count |-> [v \in WorkerRanks |-> a.count[v] + b.count[v]]]
Exact(sum, seq, tile, A) ==
    /\ sum.from = {<<seq, tile>>}
    /\ sum.count = [v \in WorkerRanks |-> IF v \in A THEN 1 ELSE 0]

Work(seq, A) == [type |-> "work", seq |-> seq, ranks |-> A]
Result(seq, w, tile, mask, sum) ==
    [type |-> "result", seq |-> seq, source |-> w, tile |-> tile, mask |-> mask, sum |-> sum]

NoFrame == [seq |-> <<0, 0>>, ranks |-> {}, sent |-> FALSE, collected |-> FALSE,
            got |-> 0, bad |-> FALSE, sums |-> <<>>]
Idle == [pc |-> "idle", seq |-> <<0, 0>>, ranks |-> {}, next |-> 1, tile |-> 1,
         sum |-> Partial(<<0, 0>>, 0, 1)]

Init ==
    /\ pc = "slot"
    /\ at = [round |-> 0, slot |-> 0]
    /\ failed = FALSE
    /\ frame = [f \in Slots |-> NoFrame]
    /\ transport = "READY"
    /\ worker = [w \in WorkerRanks |-> Idle]
    /\ wire = [p \in Ranks |-> [q \in Ranks |-> <<>>]]
    /\ faults = 0

Dead(r) == r # 0 /\ worker[r].pc = "dead"

(* A send returns once the socket buffers take the frame.                    *)
HasRoom(p, q) == Len(wire[p][q]) < Cap

Send(p, q, m) == wire' = [wire EXCEPT ![p][q] = Append(@, m)]
Receive(p, q) == wire' = [wire EXCEPT ![p][q] = Tail(@)]

-----------------------------------------------------------------------------
(* The coordinator.  transport_pending, transport_complete, transport_poison. *)
Pending(t) == IF t = "READY" THEN "PENDING" ELSE t
Complete(t) == IF t = "PENDING" THEN "READY" ELSE t

f == at.slot
LayerAt == at.round - f        \* meaningful when the slot has entered
Entered == at.round >= f

NextSlot ==
    IF f < F - 1 THEN [at EXCEPT !.slot = @ + 1] ELSE [round |-> at.round + 1, slot |-> 0]

(* A slot has a layer to finish once it is past its first one.               *)
Finishes == Entered /\ LayerAt \in 1 .. L

(* The schedule of coordinator_prefill_batches: slot f is at layer round - f; *)
(* it finishes the layer before and begins this one.                         *)
Slot ==
    /\ pc = "slot"
    /\ IF at.round > L + F - 1 THEN pc' = "done" /\ UNCHANGED at
       ELSE IF Finishes THEN pc' = "collect" /\ UNCHANGED at
       ELSE IF Entered /\ LayerAt < L THEN pc' = "begin" /\ UNCHANGED at
       ELSE pc' = "slot" /\ at' = NextSlot
    /\ UNCHANGED <<failed, frame, transport, worker, wire, faults>>

(* What makes the coordinator accept a tile: prefill_collect's checks of the *)
(* header, the sender, the tile and the contributors.                        *)
TileAccepted(fr, m) ==
    LET t == TreeRanks(fr.ranks) IN
        /\ m.type = "result"
        /\ m.seq = fr.seq
        /\ m.source = t[1]
        /\ m.tile = fr.got + 1
        /\ m.mask = Subtree(t, t[1])

(* The channel of the tree's first rank is closed.                           *)
RootLost(s) ==
    /\ frame' = [frame EXCEPT ![s].bad = TRUE, ![s].collected = TRUE]
    /\ transport' = "POISONED"

(* One turn of the tile loop for the frame in slot s; a rejected tile is     *)
(* remembered and the rest is still drained, a closed channel ends the loop. *)
DrainTile(s) ==
    LET fr == frame[s]
        root == TreeRanks(fr.ranks)[1]
        m == Head(wire[root][0])
        ok == ~fr.bad /\ TileAccepted(fr, m)
        last == fr.got + 1 = Tiles
    IN  /\ fr.sent
        /\ ~fr.collected
        /\ \/ /\ wire[root][0] # <<>>
              /\ Receive(root, 0)
              /\ frame' = [frame EXCEPT ![s] =
                    [fr EXCEPT !.got = @ + 1, !.bad = ~ok, !.collected = last,
                               !.sums = IF ok THEN Append(@, m.sum) ELSE @]]
              /\ transport' = IF ~last THEN transport
                              ELSE IF ok THEN Complete(transport) ELSE "POISONED"
           \/ /\ wire[root][0] = <<>>
              /\ Dead(root)
              /\ RootLost(s)
              /\ UNCHANGED wire
        /\ UNCHANGED <<worker, faults>>

(* fg_owner_prefill_layer_finish: collect, then reduce on the device.        *)
Collect ==
    /\ pc = "collect"
    /\ \/ DrainTile(f) /\ UNCHANGED <<pc, at, failed>>
       \/ /\ frame[f].collected \/ ~frame[f].sent
          /\ pc' = IF frame[f].bad THEN "drain" ELSE "reduce"
          /\ failed' = frame[f].bad
          /\ UNCHANGED <<at, transport, worker, wire, faults>>
          /\ frame' = [frame EXCEPT ![f].collected = TRUE]

OwnerFault == faults < Faults /\ faults' = faults + 1 /\ pc' = "drain" /\ failed' = TRUE

Reduce ==
    /\ pc = "reduce"
    /\ \/ /\ IF LayerAt < L THEN pc' = "begin" /\ UNCHANGED at
             ELSE pc' = "slot" /\ at' = NextSlot
          /\ UNCHANGED <<failed, faults>>
       \/ OwnerFault /\ UNCHANGED at
    /\ UNCHANGED <<frame, transport, worker, wire>>

(* prefill_fire: the broadcast goes to the first rank of the tree; the local *)
(* experts and the shared expert that follow may fail after the send.        *)
Fire(A) ==
    LET fr == [NoFrame EXCEPT !.seq = <<f, LayerAt>>, !.ranks = A]
        root == TreeRanks(A)[1]
    IN  IF A \subseteq {0}
        THEN frame' = [frame EXCEPT ![f] = fr] /\ UNCHANGED <<transport, wire>>
        ELSE /\ ~Dead(root)
             /\ HasRoom(0, root)
             /\ frame' = [frame EXCEPT ![f] = [fr EXCEPT !.sent = TRUE]]
             /\ transport' = Pending(transport)
             /\ Send(0, root, Work(fr.seq, A))

FireFails(A) ==
    /\ A \ {0} # {}
    /\ Dead(TreeRanks(A)[1])
    /\ frame' = [frame EXCEPT ![f] = [NoFrame EXCEPT !.seq = <<f, LayerAt>>, !.ranks = A]]
    /\ transport' = "POISONED"

Begin ==
    /\ pc = "begin"
    /\ \/ \E A \in Routings : Fire(A) /\ pc' = "slot" /\ at' = NextSlot /\ UNCHANGED <<failed, faults>>
       \/ \E A \in Routings : Fire(A) /\ OwnerFault /\ UNCHANGED at
       \/ OwnerFault /\ UNCHANGED <<at, frame, transport, wire>>
       \/ \E A \in Routings : FireFails(A) /\ pc' = "drain" /\ failed' = TRUE
                              /\ UNCHANGED <<at, wire, faults>>
    /\ UNCHANGED worker

(* Mutant: the error path forgets the frames already fired.                  *)
OwedNone == {}

(* The frames the error path still owes: fired and not collected.            *)
Owed == {s \in Slots : frame[s].sent /\ ~frame[s].collected}

Drain ==
    /\ pc = "drain"
    /\ IF Owed # {} THEN DrainTile(Min(Owed)) /\ UNCHANGED <<pc, at, failed>>
       ELSE pc' = "done" /\ UNCHANGED <<at, failed, frame, transport, worker, wire, faults>>

-----------------------------------------------------------------------------
(* A worker inside handle_prefill_expert_work.                               *)
Tree(w) == TreeRanks(worker[w].ranks)
Set(w, new) == worker' = [worker EXCEPT ![w] = new]
Die(w) == Set(w, [worker[w] EXCEPT !.pc = "dead"])

(* The worker loop takes a frame from any peer that has one; it must be work *)
(* from this rank's parent in the tree the routing list describes.           *)
Take(w) ==
    /\ worker[w].pc = "idle"
    /\ \E p \in Ranks \ {w} :
        /\ wire[p][w] # <<>>
        /\ Receive(p, w)
        /\ LET m == Head(wire[p][w]) IN
             IF /\ m.type = "work"
                /\ w \in m.ranks
                /\ Parent(TreeRanks(m.ranks), w) = p
             THEN Set(w, [Idle EXCEPT !.pc = "forward", !.seq = m.seq, !.ranks = m.ranks])
             ELSE Die(w)
    /\ UNCHANGED <<hostVars, faults>>

(* Before computing, the work goes on to the children, one send each.        *)
Forward(w) ==
    /\ worker[w].pc = "forward"
    /\ \E t \in {Tree(w)} : \E kids \in {Children(t, w)} :
         LET me  == worker[w]
             kid == t[kids[me.next]]
         IN  IF me.next > Len(kids)
             THEN /\ Set(w, [me EXCEPT !.pc = "merge", !.next = 1,
                                       !.sum = Partial(me.seq, 1, w)])
                  /\ UNCHANGED wire
             ELSE IF Dead(kid) THEN Die(w) /\ UNCHANGED wire
             ELSE /\ HasRoom(w, kid)
                  /\ Send(w, kid, Work(me.seq, me.ranks))
                  /\ Set(w, [me EXCEPT !.next = @ + 1])
    /\ UNCHANGED <<hostVars, faults>>

(* A child's tile must carry this work's sequence, the expected sender, tile *)
(* and contributors (fg_prefill_result_validate_subset).                     *)
SubtreeTile(w, t, kid, m) ==
    /\ m.type = "result"
    /\ m.seq = worker[w].seq
    /\ m.source = kid
    /\ m.tile = worker[w].tile
    /\ m.mask = Subtree(t, kid)

(* For each tile: one receive per child, in order, then the sum goes up.     *)
MergeChild(w) ==
    /\ worker[w].pc = "merge"
    /\ \E t \in {Tree(w)} : \E kids \in {Children(t, w)} :
         LET me  == worker[w]
             kid == t[kids[me.next]]
             m   == Head(wire[kid][w])
         IN  /\ me.next <= Len(kids)
             /\ \/ /\ wire[kid][w] # <<>>
                   /\ Receive(kid, w)
                   /\ IF SubtreeTile(w, t, kid, m)
                      THEN Set(w, [me EXCEPT !.next = @ + 1, !.sum = Merge(@, m.sum)])
                      ELSE Die(w)
                \/ /\ wire[kid][w] = <<>>
                   /\ Dead(kid)
                   /\ Die(w)
                   /\ UNCHANGED wire
    /\ UNCHANGED <<hostVars, faults>>

SendUp(w) ==
    /\ worker[w].pc = "merge"
    /\ \E t \in {Tree(w)} :
         LET me == worker[w]
             up == Parent(t, w)
             after == IF me.tile = Tiles THEN Idle
                      ELSE [me EXCEPT !.tile = @ + 1, !.next = 1,
                                      !.sum = Partial(me.seq, me.tile + 1, w)]
         IN  /\ me.next > Len(Children(t, w))
             /\ IF Dead(up) THEN Die(w) /\ UNCHANGED wire
                ELSE /\ HasRoom(w, up)
                     /\ Send(w, up, Result(me.seq, w, me.tile, Subtree(t, w), me.sum))
                     /\ Set(w, after)
    /\ UNCHANGED <<hostVars, faults>>

(* Any error inside the handler ends the worker and closes its channels.     *)
WorkerFault(w) ==
    /\ faults < Faults
    /\ worker[w].pc \in {"forward", "merge"}
    /\ faults' = faults + 1
    /\ Die(w)
    /\ UNCHANGED <<hostVars, wire>>

-----------------------------------------------------------------------------
Over == pc = "done" /\ UNCHANGED vars

HostStep == Slot \/ Collect \/ Reduce \/ Begin \/ Drain
WorkerStep(w) == Take(w) \/ Forward(w) \/ MergeChild(w) \/ SendUp(w)

Next ==
    \/ HostStep
    \/ \E w \in WorkerRanks : WorkerStep(w) \/ WorkerFault(w)
    \/ Over

Spec == Init /\ [][Next]_vars /\ WF_vars(HostStep) /\ \A w \in WorkerRanks : WF_vars(WorkerStep(w))

-----------------------------------------------------------------------------
(* Types, and no channel holds more than its buffers.                        *)
TypeOK ==
    /\ pc \in {"slot", "collect", "reduce", "begin", "drain", "done"}
    /\ transport \in {"READY", "PENDING", "POISONED"}
    /\ \A s \in Slots : frame[s].got \in 0 .. Tiles
    /\ \A w \in WorkerRanks : worker[w].tile \in 1 .. Tiles
    /\ \A p, q \in Ranks : Len(wire[p][q]) <= Cap

(* Every tile the coordinator accepts was computed for that frame, layer and *)
(* tile and counts each active rank exactly once, although frames overtake   *)
(* each other in the tree and the ranks take them in different orders.       *)
ReductionExact ==
    \A s \in Slots : \A k \in 1 .. Len(frame[s].sums) :
        Exact(frame[s].sums[k], frame[s].seq, k, frame[s].ranks \ {0})

(* The prefill ends, well or with an error, in one of two conditions: the    *)
(* transport is poisoned, or nothing of it is in flight or being computed.   *)
QuietOrPoisoned ==
    (pc = "done" /\ transport # "POISONED") =>
        /\ transport = "READY"
        /\ \A p, q \in Ranks : wire[p][q] = <<>>
        /\ \A w \in WorkerRanks : worker[w].pc = "idle"

(* A prefill reported as done delivered every tile of every frame's last     *)
(* layer; a fault of any rank on the way is never swallowed.                 *)
SuccessIsComplete ==
    (pc = "done" /\ ~failed) =>
        \A s \in Slots :
            /\ frame[s].seq = <<s, L - 1>>
            /\ frame[s].sent => Len(frame[s].sums) = Tiles

(* With buffers that hold a frame's tiles the coordinator always returns,    *)
(* whichever ranks fail.                                                     *)
Returned == pc = "done"
AlwaysReturns == <>Returned

(* What a prefill sums and what it leaves: exact tiles, a quiet or poisoned  *)
(* transport, and success only when every tile of every frame arrived.       *)
TreeInv ==
    /\ TypeOK
    /\ ReductionExact
    /\ QuietOrPoisoned
    /\ SuccessIsComplete
=============================================================================

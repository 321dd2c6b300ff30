----------------------- MODULE OwnerTransactionProofs -----------------------
(***************************************************************************)
(* Proofs about the batch step on separate owners, OwnerTransaction: for   *)
(* any number of peers, any chain of blocks with one block per rank and    *)
(* any slots, TransactionInv is an invariant, whoever dies and whichever   *)
(* transaction fails.                                                      *)
(*                                                                         *)
(* The invariant has an unconditional part, Frontier: whatever happened,   *)
(* an owner is at the committed frontier of a slot or one token past it,   *)
(* its checkpoint is that frontier, and a block that is still to run or a  *)
(* prepare that is still to be served finds the owner at the frontier.     *)
(* The rest, StepOK, says where the owners are at every place of rank 0 in *)
(* the step, as long as no failure is being cleaned up with a rank gone.   *)
(*                                                                         *)
(* The second part of the module is about the layer ring that the batch    *)
(* travels, RingBlocks.                                                    *)
(***************************************************************************)
EXTENDS OwnerTransaction, RingBlocks, SequenceTheorems, FiniteSetTheorems,
        WellFoundedInduction, TLAPS

Ops == {"prepare", "commit", "restore"}
Txns == [op : Ops, slot : Slots]
Message == [op : Ops, slot : Slots, gen : Nat]
Answer == [op : {"prepared", "committed", "restored"}, slot : Slots, gen : Nat]
Batch == {b \in Seq(Slots) : b # <<>> /\ \A i, j \in DOMAIN b : b[i] = b[j] => i = j}

\* Rank 0 inside a transaction, and while the batch is out.
InTxn == [pc : {"send", "recv"}, todo : Seq(Txns) \ {<<>>}, batch : Batch \cup {<<>>},
          then : {"ring", "idle", "halted"}, peer : Peers]
InRing == [pc : {"ring", "failed"}, batch : Batch]

Types ==
    /\ tokens \in [Ranks -> [Slots -> Nat]]
    /\ checkpoint \in [Ranks -> [Slots -> Nat \cup {None}]]
    /\ active \in [Ranks -> Slots]
    /\ alive \in [Peers -> BOOLEAN]
    /\ req \in [Peers -> Seq(Message)] /\ rep \in [Peers -> Seq(Answer)]
    /\ work \in [at : 0..(Len(Chain) + 1), batch : Seq(Slots)]
    /\ host \in [Slots -> 0..MaxSteps]
    /\ gen \in Nat
    /\ ctl \in {Idle, Halted} \cup InTxn \cup InRing

AllAlive == \A p \in Peers : alive[p]
Quiet == \A p \in Peers : req[p] = <<>> /\ rep[p] = <<>>
Working == work.at \in DOMAIN Chain

\* The owner's tokens and checkpoint against the committed frontier.
NearFrontier ==
    \A r \in Ranks, s \in Slots :
        tokens[r][s] \in {host[s], host[s] + 1} /\ checkpoint[r][s] \in {None, host[s]}

\* A batch on the ring: the blocks to come have not run, and it is this step's.
WorkOK ==
    Working =>
        /\ work.batch \in Batch
        /\ \A i \in DOMAIN Chain : i >= work.at =>
              \A s \in SlotsOf(work.batch) : tokens[Chain[i]][s] = host[s]
        /\ ctl.pc # "idle"
        /\ ctl.pc = "ring" => work.batch = ctl.batch
        /\ ctl.pc \in {"send", "recv"} => ctl.then = "halted"

\* A prepare on its way, also one that rank 0 has given up.
PreparesOK ==
    \A p \in Peers : \A i \in DOMAIN req[p] : req[p][i].op = "prepare" =>
        /\ ~Working
        /\ tokens[p][req[p][i].slot] = host[req[p][i].slot]

Frontier == NearFrontier /\ WorkOK /\ PreparesOK

\* What an owner has when the slots `rem' of a transaction sweep remain for it:
\* tok and cp are its tokens and checkpoints, B the slots of the batch.
OwnerAt(tok, cp, h, op, B, rem) ==
    \A s \in Slots :
        /\ op = "prepare" => /\ tok[s] = h[s]
                             /\ cp[s] = IF s \in B \ rem THEN h[s] ELSE None
        /\ op = "commit" => /\ tok[s] = IF s \in B THEN h[s] + 1 ELSE h[s]
                            /\ cp[s] = IF s \in rem THEN h[s] ELSE None
        /\ op = "restore" => \/ cp[s] = None /\ tok[s] = h[s]
                             \/ cp[s] = h[s] /\ s \in rem

SlotsLeft(todo) == {todo[i].slot : i \in DOMAIN todo}
Told(p) == ctl.pc = "recv" \/ p < ctl.peer
Heard(p) == ctl.pc = "recv" /\ p < ctl.peer
Applied(r) == r = 0 \/ Heard(r) \/ rep[r] # <<>>
Rest(todo) == SlotsLeft(todo) \ {Head(todo).slot}
Request == [op |-> Head(ctl.todo).op, slot |-> Head(ctl.todo).slot, gen |-> gen]
Expected == [op |-> Reply[Head(ctl.todo).op], slot |-> Head(ctl.todo).slot, gen |-> gen]

\* The transactions to do are of one kind and of distinct slots; what follows them
\* tells which kind.
TodoOK(todo, batch, then) ==
    /\ \A i \in DOMAIN todo : todo[i].op = Head(todo).op
    /\ Head(todo).op = "prepare" <=> then = "ring"
    /\ Head(todo).op = "commit" => then = "idle" /\ batch # <<>>
    /\ Head(todo).op = "restore" /\ then = "idle" => batch = <<>>
    /\ then = "ring" =>
          /\ Len(todo) <= Len(batch)
          /\ \A i \in DOMAIN todo : todo[i].slot = batch[Len(batch) - Len(todo) + i]

Distinct(todo) == \A i, j \in DOMAIN todo : todo[i].slot = todo[j].slot => i = j

\* The connection of a peer in a transaction.
LinkOK(p) ==
    IF Told(p) /\ ~Heard(p)
    THEN \/ req[p] = <<Request>> /\ rep[p] = <<>> /\ alive[p]
         \/ req[p] = <<>> /\ rep[p] = <<Expected>>
         \/ req[p] = <<>> /\ rep[p] = <<>> /\ ~alive[p]
    ELSE req[p] = <<>> /\ rep[p] = <<>>

\* A transaction that no failure precedes, or that cleans up with every rank there.
TxnOK ==
    /\ Distinct(ctl.todo)
    /\ Head(ctl.todo).op = "commit" => SlotsLeft(ctl.todo) \subseteq SlotsOf(ctl.batch)
    /\ ~Working
    /\ \A p \in Peers : LinkOK(p)
    /\ \A r \in Ranks : Applied(r) =>
          /\ OwnerAt(tokens[r], checkpoint[r], host, Head(ctl.todo).op, SlotsOf(ctl.batch),
                     Rest(ctl.todo))
          /\ Head(ctl.todo).op # "prepare" => active[r] = 0
    /\ \A r \in Ranks : ~Applied(r) =>
          OwnerAt(tokens[r], checkpoint[r], host, Head(ctl.todo).op, SlotsOf(ctl.batch),
                  SlotsLeft(ctl.todo))

\* Every owner at the frontier with no checkpoint.
AtRest == Quiet /\ \A r \in Ranks, s \in Slots : tokens[r][s] = host[s] /\ checkpoint[r][s] = None

\* Every owner can go back to the frontier of the slots in B and is there on the others.
Protected(B) ==
    /\ Quiet
    /\ \A r \in Ranks, s \in Slots :
          IF s \in B THEN checkpoint[r][s] = host[s]
          ELSE checkpoint[r][s] = None /\ tokens[r][s] = host[s]

StepOK ==
    /\ ctl.pc = "idle" => AtRest /\ \A r \in Ranks : active[r] = 0
    /\ ctl.pc = "halted" /\ AllAlive => AtRest /\ ~Working
    /\ ctl.pc = "failed" /\ AllAlive => Protected(SlotsOf(ctl.batch)) /\ ~Working
    /\ ctl.pc = "ring" =>
          /\ Protected(SlotsOf(ctl.batch))
          /\ work.at # 0 => \A i \in DOMAIN Chain : i < work.at =>
                \A s \in SlotsOf(ctl.batch) : tokens[Chain[i]][s] = host[s] + 1
    /\ ctl.pc \in {"send", "recv"} =>
          /\ TodoOK(ctl.todo, ctl.batch, ctl.then)
          /\ AllAlive \/ ctl.then # "halted" => TxnOK
    /\ ctl.pc \notin {"idle", "halted"} => \A s \in SlotsOf(ctl.batch) : host[s] < MaxSteps

TInv == Types /\ Frontier /\ StepOK
-----------------------------------------------------------------------------
(* Sequences of slots and of transactions. *)

\* The batches of a step are non-empty sequences of distinct slots.
LEMMA BatchesAre ==
    ASSUME ChainAssumption, NEW b \in Batches
    PROVE  b \in Batch
  <1>1. Cardinality(Slots) \in Nat
    BY FS_CardinalityType DEF ChainAssumption
  <1>2. PICK n \in 1..Cardinality(Slots) : b \in [1..n -> Slots]
    BY DEF Batches
  <1>3. b \in Seq(Slots) /\ Len(b) = n /\ n >= 1
    BY <1>1, <1>2
  <1>4. b # <<>>
    BY <1>3
  <1> QED
    BY <1>3, <1>4 DEF Batches, Batch

\* The sweep of one operation over a batch.
LEMMA AllFacts ==
    ASSUME NEW op \in Ops, NEW b \in Batch
    PROVE  /\ All(op, b) \in Seq(Txns) \ {<<>>}
           /\ Len(All(op, b)) = Len(b) /\ DOMAIN All(op, b) = DOMAIN b
           /\ \A i \in DOMAIN b : All(op, b)[i].op = op /\ All(op, b)[i].slot = b[i]
           /\ Head(All(op, b)).op = op /\ Head(All(op, b)).slot = b[1]
           /\ Distinct(All(op, b))
           /\ SlotsLeft(All(op, b)) = SlotsOf(b)
           /\ b[1] \in Slots /\ SlotsOf(b) \subseteq Slots
  <1>1. b \in Seq(Slots) /\ Len(b) \in Nat /\ Len(b) >= 1 /\ DOMAIN b = 1..Len(b)
    BY DEF Batch
  <1>2. \A i \in 1..Len(b) : b[i] \in Slots /\ Txn(op, b[i]) \in Txns
    BY <1>1 DEF Txn, Txns
  <1>3. All(op, b) \in [1..Len(b) -> Txns]
    BY <1>1, <1>2 DEF All
  <1>4. All(op, b) \in Seq(Txns) /\ Len(All(op, b)) = Len(b)
    BY <1>1, <1>3
  <1>5. All(op, b) # <<>>
    BY <1>1, <1>4
  <1>6. \A i \in DOMAIN b : All(op, b)[i].op = op /\ All(op, b)[i].slot = b[i]
    BY DEF All, Txn
  <1>7. Head(All(op, b)) = All(op, b)[1]
    BY <1>4, <1>5
  <1>8. Distinct(All(op, b))
    BY <1>1, <1>3, <1>6 DEF Distinct, Batch
  <1>9. SlotsLeft(All(op, b)) = SlotsOf(b)
    BY <1>1, <1>3, <1>6 DEF SlotsLeft, SlotsOf
  <1> QED
    BY <1>1, <1>2, <1>3, <1>4, <1>5, <1>6, <1>7, <1>8, <1>9 DEF SlotsOf

\* What a transaction done leaves of the sweep.
LEMMA TailFacts ==
    ASSUME NEW todo \in Seq(Txns) \ {<<>>}
    PROVE  /\ Head(todo) \in Txns /\ Head(todo) = todo[1] /\ 1 \in DOMAIN todo
           /\ Head(todo).op \in Ops /\ Head(todo).slot \in Slots
           /\ Head(todo).slot \in SlotsLeft(todo)
           /\ Tail(todo) \in Seq(Txns) /\ Len(Tail(todo)) = Len(todo) - 1
           /\ DOMAIN Tail(todo) = 1..(Len(todo) - 1) /\ DOMAIN todo = 1..Len(todo)
           /\ \A i \in DOMAIN Tail(todo) : Tail(todo)[i] = todo[i + 1]
           /\ Distinct(todo) => Distinct(Tail(todo)) /\ SlotsLeft(Tail(todo)) = Rest(todo)
  <1>1. /\ Len(todo) \in Nat /\ Len(todo) >= 1 /\ DOMAIN todo = 1..Len(todo)
        /\ Head(todo) = todo[1] /\ Head(todo) \in Txns
        /\ Tail(todo) \in Seq(Txns) /\ Len(Tail(todo)) = Len(todo) - 1
        /\ DOMAIN Tail(todo) = 1..(Len(todo) - 1)
        /\ \A i \in 1..(Len(todo) - 1) : Tail(todo)[i] = todo[i + 1]
    OBVIOUS
  <1>2. Head(todo).op \in Ops /\ Head(todo).slot \in Slots
    BY <1>1 DEF Txns
  <1>3. Head(todo).slot \in SlotsLeft(todo)
    BY <1>1 DEF SlotsLeft
  <1>4. ASSUME Distinct(todo)
        PROVE  Distinct(Tail(todo)) /\ SlotsLeft(Tail(todo)) = Rest(todo)
    <2>1. Distinct(Tail(todo))
      BY <1>1, <1>4 DEF Distinct
    <2>2. ASSUME NEW s \in SlotsLeft(Tail(todo)) PROVE s \in Rest(todo)
      BY <1>1, <1>4 DEF SlotsLeft, Rest, Distinct
    <2>3. ASSUME NEW s \in Rest(todo) PROVE s \in SlotsLeft(Tail(todo))
      <3>1. PICK i \in 1..Len(todo) : s = todo[i].slot
        BY <1>1 DEF Rest, SlotsLeft
      <3>2. i # 1
        BY <1>1, <3>1 DEF Rest
      <3>3. i - 1 \in 1..(Len(todo) - 1) /\ Tail(todo)[i - 1] = todo[i]
        BY <1>1, <3>1, <3>2
      <3> QED
        BY <1>1, <3>1, <3>3 DEF SlotsLeft
    <2> QED
      BY <2>1, <2>2, <2>3
  <1> QED
    BY <1>1, <1>2, <1>3, <1>4

\* The slot that is being prepared is one of the batch.
LEMMA HeadInBatch ==
    ASSUME NEW todo \in Seq(Txns) \ {<<>>}, NEW batch \in Batch \cup {<<>>}, NEW then,
           TodoOK(todo, batch, then), Head(todo).op = "prepare"
    PROVE  /\ then = "ring" /\ batch \in Batch
           /\ Len(batch) - Len(todo) + 1 \in DOMAIN batch
           /\ Head(todo).slot = batch[Len(batch) - Len(todo) + 1]
           /\ Head(todo).slot \in SlotsOf(batch)
  <1>1. then = "ring"
    BY DEF TodoOK
  <1>2. /\ Len(todo) <= Len(batch)
        /\ \A i \in DOMAIN todo : todo[i].slot = batch[Len(batch) - Len(todo) + i]
    BY <1>1 DEF TodoOK
  <1>3. Len(todo) \in Nat /\ Len(todo) >= 1 /\ 1 \in DOMAIN todo /\ Head(todo) = todo[1]
    OBVIOUS
  <1>4. batch \in Batch
    BY <1>2, <1>3
  <1>5. batch \in Seq(Slots)
    BY <1>4 DEF Batch
  <1>6. Len(batch) - Len(todo) + 1 \in DOMAIN batch
    BY <1>2, <1>3, <1>5
  <1>7. Head(todo).slot = batch[Len(batch) - Len(todo) + 1]
    BY <1>2, <1>3
  <1> QED
    BY <1>1, <1>4, <1>6, <1>7 DEF SlotsOf

\* A failed prepare restores its slot and the slots before it; any failure leaves
\* only restores to do.
LEMMA RecoveryFacts ==
    ASSUME ctl \in InTxn, TodoOK(ctl.todo, ctl.batch, ctl.then)
    PROVE  /\ Recovery \in Seq(Txns)
           /\ \A i \in DOMAIN Recovery : Recovery[i].op = "restore"
  <1> DEFINE todo == ctl.todo
             batch == ctl.batch
             s == Head(todo).slot
  <1>1. todo \in Seq(Txns) \ {<<>>} /\ batch \in Batch \cup {<<>>}
    BY DEF InTxn
  <1>2. /\ Head(todo) = todo[1] /\ Head(todo).op \in Ops /\ s \in Slots
        /\ Tail(todo) \in Seq(Txns) /\ Len(todo) \in Nat /\ Len(todo) >= 1
        /\ DOMAIN Tail(todo) = 1..(Len(todo) - 1) /\ DOMAIN todo = 1..Len(todo)
        /\ \A i \in DOMAIN Tail(todo) : Tail(todo)[i] = todo[i + 1]
    BY <1>1, TailFacts
  <1>3. CASE Head(todo).op = "prepare"
    <2>1. /\ Len(batch) - Len(todo) + 1 \in DOMAIN batch
          /\ s = batch[Len(batch) - Len(todo) + 1]
      BY <1>1, <1>3, HeadInBatch
    <2>2. batch \in Batch
      BY <1>1, <1>3, HeadInBatch
    <2>3. batch \in Seq(Slots) /\ Len(batch) \in Nat /\ DOMAIN batch = 1..Len(batch)
      BY <2>2 DEF Batch
    <2> DEFINE at == CHOOSE i \in DOMAIN batch : batch[i] = s
               all == All("restore", batch)
    <2>4. at \in 1..Len(batch)
      BY <2>1, <2>3
    <2>5. all \in Seq(Txns) /\ Len(all) = Len(batch) /\ \A i \in 1..Len(batch) : all[i].op = "restore"
      BY <2>2, <2>3, AllFacts DEF Ops
    <2>6. Before = SubSeq(all, 1, at - 1)
      BY DEF Before
    <2> HIDE DEF at, all
    <2>7. /\ Before \in Seq(Txns) /\ Len(Before) = at - 1
          /\ \A i \in 1..(at - 1) : Before[i] = all[i]
      BY <2>3, <2>4, <2>5, <2>6
    <2>8. Txn("restore", s) \in Txns /\ Txn("restore", s).op = "restore"
      BY <1>2 DEF Txn, Txns, Ops
    <2>9. Recovery = <<Txn("restore", s)>> \o Before
      BY <1>3 DEF Recovery
    <2> DEFINE x == Txn("restore", s)
               b == Before
    <2> HIDE DEF x, b
    <2>10. /\ <<x>> \o b \in Seq(Txns) /\ DOMAIN (<<x>> \o b) = 1..(Len(b) + 1)
           /\ (<<x>> \o b)[1] = x
           /\ \A i \in 2..(Len(b) + 1) : (<<x>> \o b)[i] = b[i - 1]
      BY <2>7, <2>8 DEF x, b
    <2>11. \A i \in 1..Len(b) : b[i].op = "restore"
      BY <2>3, <2>4, <2>5, <2>7 DEF b
    <2>12. ASSUME NEW i \in 1..(Len(b) + 1) PROVE (<<x>> \o b)[i].op = "restore"
      <3>1. Len(b) \in Nat
        BY <2>7, <2>4, <2>3 DEF b
      <3>2. CASE i = 1
        BY <2>8, <2>10, <3>2 DEF x
      <3>3. CASE i # 1
        BY <2>10, <2>11, <3>1, <3>3
      <3> QED
        BY <3>2, <3>3
    <2> QED
      BY <2>9, <2>10, <2>12 DEF x, b
  <1>4. CASE Head(todo).op = "commit"
    <2>1. batch \in Batch /\ Recovery = All("restore", batch)
      BY <1>1, <1>4 DEF TodoOK, Recovery
    <2> QED
      BY <2>1, AllFacts DEF Ops
  <1>5. CASE Head(todo).op = "restore"
    <2>1. Recovery = Tail(todo)
      BY <1>5 DEF Recovery
    <2>2. \A i \in DOMAIN todo : todo[i].op = "restore"
      BY <1>5 DEF TodoOK
    <2> QED
      BY <1>2, <2>1, <2>2
  <1> QED
    BY <1>2, <1>3, <1>4, <1>5 DEF Ops
-----------------------------------------------------------------------------
(* One owner. *)

\* What a transaction does to the owner that serves it, and to no other.
LEMMA ApplyFacts ==
    ASSUME ChainAssumption, Types, NEW r \in Ranks, NEW op \in Ops, NEW s \in Slots,
           Apply(r, op, s)
    PROVE  /\ tokens' \in [Ranks -> [Slots -> Nat]]
           /\ checkpoint' \in [Ranks -> [Slots -> Nat \cup {None}]]
           /\ active' \in [Ranks -> Slots]
           /\ \A q \in Ranks \ {r} : /\ tokens'[q] = tokens[q] /\ active'[q] = active[q]
                                     /\ checkpoint'[q] = checkpoint[q]
           /\ \A x \in Slots \ {s} : /\ tokens'[r][x] = tokens[r][x]
                                     /\ checkpoint'[r][x] = checkpoint[r][x]
           /\ op = "restore" /\ checkpoint[r][s] # None => tokens'[r][s] = checkpoint[r][s]
           /\ op # "restore" \/ checkpoint[r][s] = None => tokens'[r][s] = tokens[r][s]
           /\ op = "prepare" => checkpoint'[r][s] = tokens[r][s]
           /\ op # "prepare" => checkpoint'[r][s] = None /\ active'[r] = 0
  <1>1. checkpoint[r][s] \in Nat \cup {None} /\ tokens[r][s] \in Nat /\ 0 \in Slots
    BY DEF Types, ChainAssumption
  <1>2. /\ active' \in [Ranks -> Slots] /\ \A q \in Ranks \ {r} : active'[q] = active[q]
        /\ op # "prepare" => active'[r] = 0
    BY <1>1 DEF Apply, ActiveAfter, Types
  <1>3. /\ checkpoint' \in [Ranks -> [Slots -> Nat \cup {None}]]
        /\ \A q \in Ranks \ {r} : checkpoint'[q] = checkpoint[q]
        /\ \A x \in Slots \ {s} : checkpoint'[r][x] = checkpoint[r][x]
        /\ op = "prepare" => checkpoint'[r][s] = tokens[r][s]
        /\ op # "prepare" => checkpoint'[r][s] = None
    BY <1>1 DEF Apply, CheckpointAfter, Types
  <1>4. /\ tokens' \in [Ranks -> [Slots -> Nat]]
        /\ \A q \in Ranks \ {r} : tokens'[q] = tokens[q]
        /\ \A x \in Slots \ {s} : tokens'[r][x] = tokens[r][x]
        /\ op = "restore" /\ checkpoint[r][s] # None => tokens'[r][s] = checkpoint[r][s]
        /\ op # "restore" \/ checkpoint[r][s] = None => tokens'[r][s] = tokens[r][s]
    <2>1. CASE op = "restore" /\ checkpoint[r][s] # None
      BY <1>1, <2>1 DEF Apply, RolledBack, Types
    <2>2. CASE ~(op = "restore" /\ checkpoint[r][s] # None)
      BY <2>2 DEF Apply, RolledBack, Types
    <2> QED
      BY <2>1, <2>2
  <1> QED
    BY <1>2, <1>3, <1>4

\* A transaction leaves every owner near the frontier, and moves none off it.
LEMMA ApplyNear ==
    ASSUME ChainAssumption, Types, NearFrontier, NEW r \in Ranks, NEW op \in Ops, NEW s \in Slots,
           Apply(r, op, s), host' = host, op = "prepare" => tokens[r][s] = host[s]
    PROVE  /\ NearFrontier'
           /\ \A q \in Ranks, x \in Slots : tokens'[q][x] = tokens[q][x] \/ tokens'[q][x] = host[x]
  <1>1. ASSUME NEW q \in Ranks, NEW x \in Slots
        PROVE  /\ tokens'[q][x] \in {host[x], host[x] + 1} /\ checkpoint'[q][x] \in {None, host[x]}
               /\ tokens'[q][x] = tokens[q][x] \/ tokens'[q][x] = host[x]
    <2>1. CASE q = r /\ x = s
      BY <2>1, ApplyFacts DEF NearFrontier, Ops
    <2>2. CASE ~(q = r /\ x = s)
      BY <2>2, ApplyFacts DEF NearFrontier
    <2> QED
      BY <2>1, <2>2
  <1> QED
    BY <1>1 DEF NearFrontier

\* The owner that serves the transaction of slot s has one slot less to go.
LEMMA ApplyOwner ==
    ASSUME ChainAssumption, Types, NearFrontier, NEW r \in Ranks, NEW op \in Ops, NEW s \in Slots,
           Apply(r, op, s), NEW B, NEW rem,
           OwnerAt(tokens[r], checkpoint[r], host, op, B, rem),
           s \in rem, op = "prepare" => s \in B
    PROVE  OwnerAt(tokens'[r], checkpoint'[r], host, op, B, rem \ {s})
  <1> SUFFICES ASSUME NEW x \in Slots
      PROVE  /\ op = "prepare" => /\ tokens'[r][x] = host[x]
                                  /\ checkpoint'[r][x] =
                                        IF x \in B \ (rem \ {s}) THEN host[x] ELSE None
             /\ op = "commit" => /\ tokens'[r][x] = IF x \in B THEN host[x] + 1 ELSE host[x]
                                 /\ checkpoint'[r][x] = IF x \in rem \ {s} THEN host[x] ELSE None
             /\ op = "restore" => \/ checkpoint'[r][x] = None /\ tokens'[r][x] = host[x]
                                  \/ checkpoint'[r][x] = host[x] /\ x \in rem \ {s}
    BY DEF OwnerAt
  <1>1. CASE x = s
    <2>1. CASE op = "prepare"
      BY <1>1, <2>1, ApplyFacts DEF OwnerAt
    <2>2. CASE op = "commit"
      BY <1>1, <2>2, ApplyFacts DEF OwnerAt
    <2>3. CASE op = "restore"
      <3>1. host[s] # None
        BY DEF Types, None
      <3>2. checkpoint'[r][s] = None
        BY <2>3, ApplyFacts
      <3>3. tokens'[r][s] = host[s]
        BY <2>3, <3>1, ApplyFacts DEF OwnerAt
      <3> QED
        BY <1>1, <2>3, <3>2, <3>3
    <2> QED
      BY <2>1, <2>2, <2>3 DEF Ops
  <1>2. CASE x # s
    <2>1. tokens'[r][x] = tokens[r][x] /\ checkpoint'[r][x] = checkpoint[r][x]
      BY <1>2, ApplyFacts
    <2> QED
      BY <1>2, <2>1 DEF OwnerAt
  <1> QED
    BY <1>1, <1>2
-----------------------------------------------------------------------------
(* Rank 0 starts a transaction. *)

\* A transaction of one owner keeps the unconditional part: no prepare is added, and
\* rank 0 stays or leaves a batch that is on the ring to a failure.
LEMMA ApplyFrontier ==
    ASSUME ChainAssumption, Types, Frontier, NEW r \in Ranks, NEW op \in Ops, NEW s \in Slots,
           Apply(r, op, s), host' = host, work' = work,
           \A p \in Peers : \A i \in DOMAIN req'[p] :
               \E j \in DOMAIN req[p] : req'[p][i] = req[p][j],
           op = "prepare" => tokens[r][s] = host[s],
           Working => \/ ctl' = ctl
                      \/ /\ ctl'.pc # "idle" /\ ctl'.pc # "ring"
                         /\ ctl'.pc \in {"send", "recv"} => ctl'.then = "halted"
    PROVE  Frontier'
  <1>1. /\ NearFrontier'
        /\ \A q \in Ranks, x \in Slots : tokens'[q][x] = tokens[q][x] \/ tokens'[q][x] = host[x]
    BY ApplyNear DEF Frontier
  <1>2. WorkOK'
    <2> SUFFICES ASSUME Working
        PROVE  /\ work.batch \in Batch
               /\ \A i \in DOMAIN Chain : i >= work.at =>
                     \A x \in SlotsOf(work.batch) : tokens'[Chain[i]][x] = host[x]
      BY DEF WorkOK, Working, Frontier
    <2>1. work.batch \in Batch
      BY DEF Frontier, WorkOK
    <2>2. SlotsOf(work.batch) \subseteq Slots
      BY <2>1 DEF Batch, SlotsOf
    <2>3. \A i \in DOMAIN Chain : Chain[i] \in Ranks
      BY DEF ChainAssumption, Ranks
    <2> QED
      BY <1>1, <2>1, <2>2, <2>3 DEF Frontier, WorkOK
  <1>3. PreparesOK'
    <2> SUFFICES ASSUME NEW p \in Peers, NEW i \in DOMAIN req[p], req[p][i].op = "prepare"
        PROVE  ~Working /\ tokens'[p][req[p][i].slot] = host[req[p][i].slot]
      BY Zenon DEF PreparesOK, Working
    <2> req[p] \in Seq(Message)
      BY DEF Types
    <2>1. req[p][i] \in Message /\ p \in Ranks
      BY DEF Peers, Ranks
    <2>2. req[p][i].slot \in Slots
      BY <2>1 DEF Message
    <2> QED
      BY <1>1, <2>1, <2>2 DEF Frontier, PreparesOK
  <1> QED
    BY <1>1, <1>2, <1>3 DEF Frontier

\* The next transaction of a sweep that no failure has touched.
LEMMA BeginTxn ==
    ASSUME ChainAssumption, Types, Frontier, ~Working, Quiet',
           NEW todo \in Seq(Txns) \ {<<>>}, NEW batch \in Batch \cup {<<>>},
           NEW then \in {"ring", "idle", "halted"},
           TodoOK(todo, batch, then), Distinct(todo),
           Head(todo).op = "commit" => SlotsLeft(todo) \subseteq SlotsOf(batch),
           \A r \in Ranks : OwnerAt(tokens[r], checkpoint[r], host, Head(todo).op,
                                    SlotsOf(batch), SlotsLeft(todo)),
           \A s \in SlotsOf(batch) : host[s] < MaxSteps,
           Apply(0, Head(todo).op, Head(todo).slot),
           gen' = gen + 1,
           ctl' = [pc |-> "send", todo |-> todo, batch |-> batch, then |-> then, peer |-> 1],
           work' = work, host' = host, alive' = alive, req' = req,
           rep' \in [Peers -> Seq(Answer)]
    PROVE  TInv'
  <1> DEFINE op == Head(todo).op
             s == Head(todo).slot
  <1>1. /\ op \in Ops /\ s \in Slots /\ s \in SlotsLeft(todo)
        /\ Head(todo) = todo[1] /\ 1 \in DOMAIN todo /\ DOMAIN todo = 1..Len(todo)
    BY TailFacts
  <1>2. 0 \in Ranks /\ 1 \in Peers /\ Peers \subseteq Ranks /\ 0 \notin Peers
    BY DEF ChainAssumption, Ranks, Peers
  <1>3. op = "prepare" => s \in SlotsOf(batch) /\ tokens[0][s] = host[s]
    <2> SUFFICES ASSUME op = "prepare" PROVE s \in SlotsOf(batch) /\ tokens[0][s] = host[s]
      OBVIOUS
    <2>1. s \in SlotsOf(batch)
      BY HeadInBatch
    <2>2. tokens[0][s] = host[s]
      BY <1>1, <1>2 DEF OwnerAt
    <2> QED
      BY <2>1, <2>2
  <1>4. /\ ctl'.pc = "send" /\ ctl'.todo = todo /\ ctl'.batch = batch
        /\ ctl'.then = then /\ ctl'.peer = 1 /\ ctl' \in InTxn
    BY <1>2 DEF InTxn
  <1> HIDE DEF op, s
  <1>5. Types'
    <2>1. /\ tokens' \in [Ranks -> [Slots -> Nat]] /\ active' \in [Ranks -> Slots]
          /\ checkpoint' \in [Ranks -> [Slots -> Nat \cup {None}]]
      BY <1>1, <1>2, ApplyFacts DEF op, s
    <2> QED
      BY <1>4, <2>1 DEF Types
  <1>6. Frontier'
    BY <1>1, <1>2, <1>3, ApplyFrontier DEF op, s
  <1>7. (~Working)'
    BY DEF Working
  <1>8. ASSUME NEW r \in Ranks
        PROVE  /\ Applied(r)' => /\ OwnerAt(tokens'[r], checkpoint'[r], host, op, SlotsOf(batch),
                                            Rest(todo))
                                 /\ op # "prepare" => active'[r] = 0
               /\ ~Applied(r)' => OwnerAt(tokens'[r], checkpoint'[r], host, op, SlotsOf(batch),
                                          SlotsLeft(todo))
    <2>1. CASE r = 0
      <3>1. Applied(r)'
        BY <2>1 DEF Applied
      <3>2. OwnerAt(tokens[0], checkpoint[0], host, op, SlotsOf(batch), SlotsLeft(todo))
        BY <1>2 DEF op
      <3>3. OwnerAt(tokens'[0], checkpoint'[0], host, op, SlotsOf(batch), SlotsLeft(todo) \ {s})
        BY <1>1, <1>2, <1>3, <3>2, ApplyOwner DEF op, s, Frontier
      <3>4. op # "prepare" => active'[0] = 0
        BY <1>1, <1>2, ApplyFacts DEF op, s
      <3> QED
        BY <2>1, <3>1, <3>3, <3>4 DEF Rest, s
    <2>2. CASE r # 0
      <3>1. ~Applied(r)'
        BY <1>4, <2>2 DEF Applied, Heard, Quiet, Ranks, Peers
      <3>2. tokens'[r] = tokens[r] /\ checkpoint'[r] = checkpoint[r]
        BY <1>1, <1>2, <2>2, ApplyFacts DEF op, s
      <3> QED
        BY <3>1, <3>2 DEF op
    <2> QED
      BY <2>1, <2>2
  <1>9. \A p \in Peers : LinkOK(p)'
    <2> SUFFICES ASSUME NEW p \in Peers PROVE LinkOK(p)'
      OBVIOUS
    <2>1. ~Told(p)'
      BY <1>4 DEF Told, Peers
    <2> QED
      BY <2>1 DEF LinkOK, Quiet
  <1>10. TxnOK'
    BY <1>4, <1>7, <1>8, <1>9 DEF TxnOK, op
  <1>11. StepOK'
    BY <1>4, <1>10 DEF StepOK
  <1> QED
    BY <1>5, <1>6, <1>11 DEF TInv

\* A failure is only noticed when a rank is gone; what is left then is restores.
LEMMA FailStep ==
    ASSUME ChainAssumption, Types, Frontier, ~AllAlive,
           NEW todo \in Seq(Txns), \A i \in DOMAIN todo : todo[i].op = "restore",
           NEW batch \in Batch \cup {<<>>}, \A s \in SlotsOf(batch) : host[s] < MaxSteps,
           Start(todo, batch, "halted"),
           alive' = alive, req' = req, rep' \in [Peers -> Seq(Answer)]
    PROVE  TInv'
  <1>1. ~AllAlive'
    BY DEF AllAlive
  <1>2. CASE todo = <<>>
    <2>1. /\ ctl' = Halted /\ work' = work /\ host' = host /\ tokens' = tokens
          /\ checkpoint' = checkpoint /\ active' = active /\ gen' = gen
      BY <1>2 DEF Start
    <2>2. ctl'.pc = "halted"
      BY <2>1 DEF Halted
    <2>3. Types'
      BY <2>1 DEF Types
    <2>4. Frontier'
      BY <2>1, <2>2 DEF Frontier, NearFrontier, WorkOK, PreparesOK, Working
    <2> QED
      BY <1>1, <2>2, <2>3, <2>4 DEF TInv, StepOK
  <1>3. CASE todo # <<>>
    <2>1. /\ Apply(0, Head(todo).op, Head(todo).slot) /\ gen' = gen + 1
          /\ ctl' = [pc |-> "send", todo |-> todo, batch |-> batch, then |-> "halted", peer |-> 1]
          /\ work' = work /\ host' = host
      BY <1>3 DEF Start
    <2>2. 0 \in Ranks /\ 1 \in Peers
      BY DEF ChainAssumption, Ranks, Peers
    <2>3. /\ ctl'.pc = "send" /\ ctl'.todo = todo /\ ctl'.batch = batch
          /\ ctl'.then = "halted" /\ ctl'.peer = 1 /\ ctl' \in InTxn
      BY <1>3, <2>1, <2>2 DEF InTxn
    <2>4. /\ Head(todo).op = "restore" /\ Head(todo).slot \in Slots
          /\ Head(todo).op \in Ops
      BY <1>3, TailFacts
    <2>5. Types'
      <3>1. /\ tokens' \in [Ranks -> [Slots -> Nat]] /\ active' \in [Ranks -> Slots]
            /\ checkpoint' \in [Ranks -> [Slots -> Nat \cup {None}]]
        BY <2>1, <2>2, <2>4, ApplyFacts
      <3> QED
        BY <2>1, <2>3, <3>1 DEF Types
    <2>6. Frontier'
      BY <2>1, <2>2, <2>3, <2>4, ApplyFrontier
    <2>7. TodoOK(todo, batch, "halted")
      BY <2>4 DEF TodoOK
    <2>8. StepOK'
      BY <1>1, <2>1, <2>3, <2>7 DEF StepOK
    <2> QED
      BY <2>5, <2>6, <2>8 DEF TInv
  <1> QED
    BY <1>2, <1>3
-----------------------------------------------------------------------------
(* The workers. *)

\* A worker serves a control frame.
LEMMA HandleStep ==
    ASSUME ChainAssumption, TInv, NEW p \in Peers, HandleTransaction(p)
    PROVE  TInv'
  <1> DEFINE m == Head(req[p])
             ans == [m EXCEPT !.op = Reply[m.op]]
  <1>1. p \in Ranks /\ p # 0
    BY DEF ChainAssumption, Ranks, Peers
  <1>2. /\ req[p] \in Seq(Message) /\ req[p] # <<>> /\ rep[p] \in Seq(Answer)
        /\ m \in Message /\ m = req[p][1] /\ 1 \in DOMAIN req[p]
        /\ Tail(req[p]) \in Seq(Message)
        /\ \A i \in DOMAIN Tail(req[p]) : i + 1 \in DOMAIN req[p] /\ Tail(req[p])[i] = req[p][i + 1]
    <2>1. req[p] \in Seq(Message) /\ req[p] # <<>> /\ rep[p] \in Seq(Answer)
      BY DEF HandleTransaction, TInv, Types
    <2> QED
      BY <2>1
  <1>3. m.op \in Ops /\ m.slot \in Slots
    BY <1>2 DEF Message
  <1>4. ans \in Answer /\ ans = [op |-> Reply[m.op], slot |-> m.slot, gen |-> m.gen]
    BY <1>2, <1>3 DEF Message, Answer, Ops, Reply
  <1> HIDE DEF m, ans
  <1>5. /\ Apply(p, m.op, m.slot)
        /\ rep' = [rep EXCEPT ![p] = Append(rep[p], ans)]
        /\ req' = [req EXCEPT ![p] = Tail(req[p])]
        /\ alive' = alive /\ work' = work /\ host' = host /\ gen' = gen /\ ctl' = ctl
    BY DEF HandleTransaction, m, ans
  <1>6. m.op = "prepare" => tokens[p][m.slot] = host[m.slot]
    BY <1>2 DEF TInv, Frontier, PreparesOK
  <1>7. Types'
    <2>1. /\ tokens' \in [Ranks -> [Slots -> Nat]] /\ active' \in [Ranks -> Slots]
          /\ checkpoint' \in [Ranks -> [Slots -> Nat \cup {None}]]
      BY <1>1, <1>3, <1>5, ApplyFacts DEF TInv
    <2>2. Append(rep[p], ans) \in Seq(Answer)
      BY <1>2, <1>4
    <2>3. req' \in [Peers -> Seq(Message)] /\ rep' \in [Peers -> Seq(Answer)]
      BY <1>2, <1>5, <2>2 DEF TInv, Types
    <2> QED
      BY <1>5, <2>1, <2>3 DEF TInv, Types
  <1>8. Frontier'
    <2>1. \A q \in Peers : \A i \in DOMAIN req'[q] : \E j \in DOMAIN req[q] : req'[q][i] = req[q][j]
      <3> SUFFICES ASSUME NEW q \in Peers, NEW i \in DOMAIN req'[q]
          PROVE  \E j \in DOMAIN req[q] : req'[q][i] = req[q][j]
        OBVIOUS
      <3>1. CASE q = p
        BY <1>2, <1>5, <3>1 DEF TInv, Types
      <3>2. CASE q # p
        BY <1>5, <3>2 DEF TInv, Types
      <3> QED
        BY <3>1, <3>2
    <2> QED
      BY <1>1, <1>3, <1>5, <1>6, <2>1, ApplyFrontier DEF TInv
  <1>9. CASE ctl.pc \in {"send", "recv"} /\ (AllAlive \/ ctl.then # "halted")
    <2>1. TxnOK /\ TodoOK(ctl.todo, ctl.batch, ctl.then)
      BY <1>9 DEF TInv, StepOK
    <2>2. ctl.todo \in Seq(Txns) \ {<<>>} /\ ctl \in InTxn
      BY <1>9 DEF TInv, Types, Idle, Halted, InTxn, InRing
    <2> DEFINE op == Head(ctl.todo).op
               s == Head(ctl.todo).slot
    <2>3. op \in Ops /\ s \in Slots /\ s \in SlotsLeft(ctl.todo)
      BY <2>2, TailFacts
    <2>4. Told(p) /\ ~Heard(p) /\ req[p] = <<Request>> /\ rep[p] = <<>> /\ alive[p]
      BY <1>2, <2>1 DEF TxnOK, LinkOK
    <2>5. m = Request /\ m.op = op /\ m.slot = s
      BY <1>2, <2>4 DEF Request, m
    <2>6. req'[p] = <<>> /\ rep'[p] = <<Expected>>
      <3>1. ans = Expected
        BY <1>4, <2>5 DEF Request, Expected
      <3>2. Tail(req[p]) = <<>> /\ Append(rep[p], ans) = <<ans>>
        BY <2>4
      <3> QED
        BY <1>5, <3>1, <3>2 DEF TInv, Types
    <2>7. \A q \in Peers \ {p} : req'[q] = req[q] /\ rep'[q] = rep[q]
      BY <1>5 DEF TInv, Types
    <2>8. Expected' = Expected /\ Request' = Request
      BY <1>5 DEF Expected, Request
    <2>9. \A q \in Peers : (Told(q)' <=> Told(q)) /\ (Heard(q)' <=> Heard(q))
      BY <1>5 DEF Told, Heard
    <2>10. \A q \in Peers : LinkOK(q)'
      BY <1>5, <2>1, <2>4, <2>6, <2>7, <2>8, <2>9 DEF TxnOK, LinkOK
    <2>11. ~Applied(p) /\ Applied(p)'
      BY <1>1, <2>4, <2>6 DEF Applied
    <2>12. \A r \in Ranks \ {p} : Applied(r)' <=> Applied(r)
      <3> SUFFICES ASSUME NEW r \in Ranks \ {p} PROVE Applied(r)' <=> Applied(r)
        OBVIOUS
      <3>1. r = 0 \/ r \in Peers \ {p}
        BY DEF Ranks, Peers, ChainAssumption
      <3> QED
        BY <2>7, <2>9, <3>1 DEF Applied
    <2>13. op = "prepare" => s \in SlotsOf(ctl.batch)
      <3> SUFFICES ASSUME op = "prepare" PROVE s \in SlotsOf(ctl.batch)
        OBVIOUS
      <3>1. ctl.batch \in Batch \cup {<<>>}
        BY <2>2 DEF InTxn
      <3> QED
        BY <2>1, <2>2, <3>1, HeadInBatch
    <2>14. OwnerAt(tokens'[p], checkpoint'[p], host, op, SlotsOf(ctl.batch), Rest(ctl.todo))
      <3>1. OwnerAt(tokens[p], checkpoint[p], host, op, SlotsOf(ctl.batch), SlotsLeft(ctl.todo))
        BY <1>1, <2>1, <2>11 DEF TxnOK
      <3> HIDE DEF op, s
      <3>2. OwnerAt(tokens'[p], checkpoint'[p], host, op, SlotsOf(ctl.batch), SlotsLeft(ctl.todo) \ {s})
        BY <1>1, <1>5, <2>3, <2>5, <2>13, <3>1, ApplyOwner DEF TInv, Frontier
      <3> QED
        BY <3>2 DEF Rest, s
    <2>15. /\ op # "prepare" => active'[p] = 0
           /\ \A r \in Ranks \ {p} : /\ tokens'[r] = tokens[r] /\ checkpoint'[r] = checkpoint[r]
                                     /\ active'[r] = active[r]
      BY <1>1, <1>3, <1>5, <2>5, ApplyFacts DEF TInv
    <2>16. TxnOK'
      <3>1. \A r \in Ranks : Applied(r)' =>
              /\ OwnerAt(tokens'[r], checkpoint'[r], host, op, SlotsOf(ctl.batch), Rest(ctl.todo))
              /\ op # "prepare" => active'[r] = 0
        BY <2>1, <2>12, <2>14, <2>15 DEF TxnOK
      <3>2. \A r \in Ranks : ~Applied(r)' =>
              OwnerAt(tokens'[r], checkpoint'[r], host, op, SlotsOf(ctl.batch), SlotsLeft(ctl.todo))
        BY <2>1, <2>11, <2>12, <2>15 DEF TxnOK
      <3> QED
        BY <1>5, <2>1, <2>10, <3>1, <3>2 DEF TxnOK, Working
    <2> QED
      BY <1>5, <1>7, <1>8, <1>9, <2>1, <2>16 DEF TInv, StepOK
  <1>10. CASE ~(ctl.pc \in {"send", "recv"} /\ (AllAlive \/ ctl.then # "halted"))
    <2>1. ~Quiet
      BY <1>2 DEF Quiet
    <2>2. AllAlive' <=> AllAlive
      BY <1>5 DEF AllAlive
    <2> QED
      BY <1>5, <1>7, <1>8, <1>10, <2>1, <2>2 DEF TInv, StepOK, AtRest, Protected
  <1> QED
    BY <1>9, <1>10

\* A worker dies.
LEMMA DieStep ==
    ASSUME ChainAssumption, TInv, NEW p \in Peers, Die(p)
    PROVE  TInv'
  <1>1. /\ alive' = [alive EXCEPT ![p] = FALSE] /\ req' = [req EXCEPT ![p] = <<>>]
        /\ work' \in {work, NoWork}
        /\ tokens' = tokens /\ checkpoint' = checkpoint /\ active' = active /\ rep' = rep
        /\ host' = host /\ gen' = gen /\ ctl' = ctl
    BY DEF Die
  <1>2. /\ NoWork \in [at : 0..(Len(Chain) + 1), batch : Seq(Slots)] /\ NoWork.at = 0
        /\ 0 \notin DOMAIN Chain
    BY DEF NoWork, ChainAssumption
  <1>3. Working' => Working /\ work' = work
    BY <1>1, <1>2 DEF Working
  <1>4. ~alive'[p] /\ ~AllAlive' /\ \A q \in Peers \ {p} : alive'[q] = alive[q]
    BY <1>1 DEF TInv, Types, AllAlive
  <1>5. \A q \in Peers : req'[q] = IF q = p THEN <<>> ELSE req[q]
    BY <1>1 DEF TInv, Types
  <1>6. Types'
    <2>1. <<>> \in Seq(Message)
      OBVIOUS
    <2>2. req' \in [Peers -> Seq(Message)] /\ alive' \in [Peers -> BOOLEAN]
      BY <1>1, <2>1 DEF TInv, Types
    <2> QED
      BY <1>1, <1>2, <2>2 DEF TInv, Types
  <1>7. Frontier'
    <2>1. NearFrontier'
      BY <1>1 DEF TInv, Frontier, NearFrontier
    <2>2. WorkOK'
      BY <1>1, <1>3 DEF TInv, Frontier, WorkOK
    <2>3. PreparesOK'
      BY <1>1, <1>3, <1>5 DEF TInv, Frontier, PreparesOK
    <2> QED
      BY <2>1, <2>2, <2>3 DEF Frontier
  <1>8. Quiet => Quiet'
    BY <1>1, <1>5 DEF Quiet
  <1>9. AtRest => AtRest'
    BY <1>1, <1>8 DEF AtRest
  <1>10. Protected(SlotsOf(ctl.batch)) => Protected(SlotsOf(ctl.batch))'
    BY <1>1, <1>8 DEF Protected
  <1>11. TxnOK => TxnOK'
    <2> SUFFICES ASSUME TxnOK PROVE TxnOK'
      OBVIOUS
    <2>1. /\ Expected' = Expected /\ Request' = Request
          /\ \A q \in Peers : (Told(q)' <=> Told(q)) /\ (Heard(q)' <=> Heard(q))
          /\ \A r \in Ranks : Applied(r)' <=> Applied(r)
      BY <1>1 DEF Expected, Request, Told, Heard, Applied
    <2>2. \A q \in Peers : LinkOK(q)'
      BY <1>1, <1>4, <1>5, <2>1 DEF TxnOK, LinkOK
    <2> QED
      BY <1>1, <1>3, <2>1, <2>2 DEF TxnOK
  <1>12. StepOK'
    <2>1. ctl.pc = "ring" => (work'.at # 0 => work' = work)
      BY <1>1, <1>2
    <2> QED
      BY <1>1, <1>4, <1>9, <1>10, <1>11, <2>1 DEF TInv, StepOK
  <1> QED
    BY <1>6, <1>7, <1>12 DEF TInv
-----------------------------------------------------------------------------
(* Rank 0's transactions. *)

\* A step begins: every slot of the batch is to be prepared.
LEMMA StepBeginStep ==
    ASSUME ChainAssumption, TInv, NEW b \in Batches, StepBegin(b)
    PROVE  TInv'
  <1> DEFINE todo == All("prepare", b)
  <1>1. b \in Batch
    BY BatchesAre
  <1>2. /\ todo \in Seq(Txns) \ {<<>>} /\ Len(todo) = Len(b) /\ DOMAIN todo = DOMAIN b
        /\ \A i \in DOMAIN b : todo[i].op = "prepare" /\ todo[i].slot = b[i]
        /\ Head(todo).op = "prepare" /\ Distinct(todo) /\ SlotsLeft(todo) = SlotsOf(b)
    BY <1>1, AllFacts DEF Ops
  <1>3. Len(b) \in Nat /\ DOMAIN b = 1..Len(b)
    BY <1>1 DEF Batch
  <1> HIDE DEF todo
  <1>4. /\ Apply(0, Head(todo).op, Head(todo).slot) /\ gen' = gen + 1
        /\ ctl' = [pc |-> "send", todo |-> todo, batch |-> b, then |-> "ring", peer |-> 1]
        /\ work' = work /\ host' = host /\ alive' = alive /\ req' = req /\ rep' = rep
    BY <1>2 DEF StepBegin, Start, todo
  <1>5. ctl.pc = "idle" /\ AtRest /\ ~Working
    BY DEF StepBegin, Idle, TInv, StepOK, Frontier, WorkOK
  <1>6. Quiet'
    BY <1>4, <1>5 DEF AtRest, Quiet
  <1>7. TodoOK(todo, b, "ring")
    BY <1>2, <1>3 DEF TodoOK
  <1>8. \A r \in Ranks : OwnerAt(tokens[r], checkpoint[r], host, Head(todo).op, SlotsOf(b),
                                 SlotsLeft(todo))
    BY <1>2, <1>5 DEF OwnerAt, AtRest
  <1>9. \A s \in SlotsOf(b) : host[s] < MaxSteps
    BY DEF StepBegin, SlotsOf
  <1>10. rep' \in [Peers -> Seq(Answer)]
    BY <1>4 DEF TInv, Types
  <1> QED
    BY <1>1, <1>2, <1>4, <1>5, <1>6, <1>7, <1>8, <1>9, <1>10, BeginTxn DEF TInv

\* The slots prepared before the one that fails are those of the batch that are not to
\* be prepared any more.
LEMMA BeforeFacts ==
    ASSUME ctl \in InTxn, TodoOK(ctl.todo, ctl.batch, ctl.then), Head(ctl.todo).op = "prepare"
    PROVE  /\ Before \in Seq(Txns) /\ Distinct(Before)
           /\ \A i \in DOMAIN Before : Before[i].op = "restore"
           /\ SlotsLeft(Before) = SlotsOf(ctl.batch) \ SlotsLeft(ctl.todo)
  <1> DEFINE todo == ctl.todo
             batch == ctl.batch
             all == All("restore", batch)
             n == Len(batch) - Len(todo)
  <1>1. todo \in Seq(Txns) \ {<<>>} /\ batch \in Batch \cup {<<>>}
    BY DEF InTxn
  <1>2. /\ ctl.then = "ring" /\ batch \in Batch
        /\ n + 1 \in DOMAIN batch /\ Head(todo).slot = batch[n + 1]
    BY <1>1, HeadInBatch
  <1>3. /\ Len(todo) <= Len(batch)
        /\ \A i \in DOMAIN todo : todo[i].slot = batch[n + i]
    BY <1>2 DEF TodoOK
  <1>4. /\ batch \in Seq(Slots) /\ Len(batch) \in Nat /\ DOMAIN batch = 1..Len(batch)
        /\ \A i, j \in DOMAIN batch : batch[i] = batch[j] => i = j
    BY <1>2 DEF Batch
  <1>5. Len(todo) \in Nat /\ Len(todo) >= 1 /\ DOMAIN todo = 1..Len(todo)
    BY <1>1
  <1>6. n \in Nat /\ n < Len(batch)
    <2> HIDE DEF todo, batch
    <2> QED
      BY <1>3, <1>4, <1>5
  <1>7. /\ all \in Seq(Txns) /\ Len(all) = Len(batch)
        /\ \A i \in 1..Len(batch) : all[i].op = "restore" /\ all[i].slot = batch[i]
    BY <1>2, <1>4, AllFacts DEF Ops
  <1>8. Before = SubSeq(all, 1, n)
    <2>1. \A i \in DOMAIN batch : batch[i] = Head(todo).slot <=> i = n + 1
      BY <1>2, <1>4
    <2> DEFINE at == CHOOSE i \in DOMAIN batch : batch[i] = Head(todo).slot
    <2>2. at = n + 1
      BY <1>2, <2>1
    <2>3. Before = SubSeq(all, 1, at - 1)
      BY DEF Before
    <2> HIDE DEF at, n, all
    <2>4. at - 1 = n
      BY <1>6, <2>2
    <2> QED
      BY <2>3, <2>4
  <1> HIDE DEF todo, batch, all, n
  <1>9. /\ Before \in Seq(Txns) /\ DOMAIN Before = 1..n
        /\ \A i \in 1..n : Before[i] = all[i]
    BY <1>6, <1>7, <1>8
  <1>10. \A i \in 1..n : Before[i].op = "restore" /\ Before[i].slot = batch[i] /\ i \in DOMAIN batch
    BY <1>4, <1>6, <1>7, <1>9
  <1>11. Distinct(Before)
    BY <1>4, <1>9, <1>10 DEF Distinct
  <1>12. SlotsLeft(Before) = SlotsOf(batch) \ SlotsLeft(todo)
    <2>1. ASSUME NEW s \in SlotsLeft(Before) PROVE s \in SlotsOf(batch) \ SlotsLeft(todo)
      <3>1. PICK i \in 1..n : s = batch[i] /\ i \in DOMAIN batch
        BY <1>9, <1>10 DEF SlotsLeft
      <3>2. ASSUME NEW j \in DOMAIN todo, s = todo[j].slot PROVE FALSE
        <4>1. n + j \in DOMAIN batch /\ n + j # i
          BY <1>4, <1>5, <1>6, <3>1, <3>2 DEF n
        <4>2. batch[n + j] = batch[i]
          BY <1>3, <3>1, <3>2
        <4> QED
          BY <1>4, <3>1, <4>1, <4>2
      <3> QED
        BY <3>1, <3>2 DEF SlotsOf, SlotsLeft
    <2>2. ASSUME NEW s \in SlotsOf(batch) \ SlotsLeft(todo) PROVE s \in SlotsLeft(Before)
      <3>1. PICK i \in DOMAIN batch : s = batch[i]
        BY DEF SlotsOf
      <3>2. i \in 1..n
        <4> SUFFICES ASSUME i > n PROVE FALSE
          BY <1>4, <1>6, <3>1
        <4>1. i - n \in DOMAIN todo /\ n + (i - n) = i
          BY <1>4, <1>5, <1>6, <3>1 DEF n
        <4>2. todo[i - n].slot = s
          BY <1>3, <3>1, <4>1
        <4> QED
          BY <4>1, <4>2 DEF SlotsLeft
      <3> QED
        BY <1>9, <1>10, <3>1, <3>2 DEF SlotsLeft
    <2> QED
      BY <2>1, <2>2
  <1> QED
    BY <1>9, <1>10, <1>11, <1>12 DEF todo, batch

\* The local half of a prepare fails.
LEMMA LocalPrepareStep ==
    ASSUME ChainAssumption, TInv, LocalPrepareFails
    PROVE  TInv'
  <1> DEFINE todo == ctl.todo
             B == SlotsOf(ctl.batch)
             before == Before
             s == Head(todo).slot
  <1>1. /\ ctl.pc = "send" /\ ctl.peer = 1 /\ Head(todo).op = "prepare"
        /\ alive' = alive /\ req' = req /\ rep' = rep /\ work' = work /\ host' = host
    BY DEF LocalPrepareFails
  <1>2. ctl \in InTxn /\ TodoOK(todo, ctl.batch, ctl.then)
    BY <1>1 DEF TInv, Types, StepOK, Idle, Halted, InRing
  <1>3. todo \in Seq(Txns) \ {<<>>} /\ ctl.batch \in Batch \cup {<<>>}
    BY <1>2 DEF InTxn
  <1>4. ctl.then = "ring" /\ ctl.batch \in Batch /\ s \in B
    BY <1>1, <1>2, <1>3, HeadInBatch
  <1>5. s \in Slots /\ s \in SlotsLeft(todo)
    BY <1>3, TailFacts
  <1>6. TxnOK /\ ~Working
    BY <1>1, <1>4 DEF TInv, StepOK, TxnOK
  <1>7. Quiet
    <2> SUFFICES ASSUME NEW p \in Peers PROVE req[p] = <<>> /\ rep[p] = <<>>
      BY DEF Quiet
    <2>1. ~Told(p)
      BY <1>1 DEF Told, Peers
    <2> QED
      BY <1>6, <2>1 DEF TxnOK, LinkOK
  <1>8. OwnerAt(tokens[0], checkpoint[0], host, "prepare", B, Rest(todo))
    BY <1>1, <1>6 DEF TxnOK, Applied, Ranks, ChainAssumption
  <1>9. ASSUME NEW r \in Ranks \ {0}
        PROVE  OwnerAt(tokens[r], checkpoint[r], host, "prepare", B, SlotsLeft(todo))
    <2>1. ~Applied(r)
      BY <1>1, <1>7 DEF Applied, Heard, Quiet, Ranks, Peers
    <2> QED
      BY <1>1, <1>6, <2>1 DEF TxnOK
  <1>10. /\ before \in Seq(Txns) /\ Distinct(before)
         /\ \A i \in DOMAIN before : before[i].op = "restore"
         /\ SlotsLeft(before) = B \ SlotsLeft(todo)
    BY <1>1, <1>2, BeforeFacts
  <1>11. 0 \in Ranks /\ 1 \in Peers
    BY DEF ChainAssumption, Ranks, Peers
  <1> HIDE DEF before, todo, s, B
  <1>12. CASE before = <<>>
    <2>1. /\ checkpoint' = [checkpoint EXCEPT ![0][s] = None] /\ ctl' = Halted
          /\ tokens' = tokens /\ active' = active /\ gen' = gen
      BY <1>12 DEF LocalPrepareFails, before, s, todo
    <2>2. ctl'.pc = "halted"
      BY <2>1 DEF Halted
    <2>3. /\ checkpoint' \in [Ranks -> [Slots -> Nat \cup {None}]] /\ checkpoint'[0][s] = None
          /\ \A r \in Ranks, x \in Slots : ~(r = 0 /\ x = s) => checkpoint'[r][x] = checkpoint[r][x]
      BY <1>5, <1>11, <2>1 DEF TInv, Types
    <2>4. Types'
      BY <1>1, <2>1, <2>3 DEF TInv, Types
    <2>5. Frontier'
      <3>1. NearFrontier'
        BY <1>1, <2>1, <2>3 DEF TInv, Frontier, NearFrontier
      <3> QED
        BY <1>1, <1>6, <2>1, <3>1 DEF TInv, Frontier, WorkOK, PreparesOK, Working
    <2>6. AtRest'
      <3>1. B \ SlotsLeft(todo) = {}
        BY <1>10, <1>12 DEF SlotsLeft
      <3>2. ASSUME NEW x \in Slots PROVE tokens'[0][x] = host[x] /\ checkpoint'[0][x] = None
        BY <1>8, <1>11, <2>1, <2>3, <3>1 DEF OwnerAt, Rest, s
      <3>3. ASSUME NEW r \in Ranks \ {0}, NEW x \in Slots
            PROVE  tokens'[r][x] = host[x] /\ checkpoint'[r][x] = None
        BY <1>9, <2>1, <2>3, <3>1 DEF OwnerAt
      <3> QED
        BY <1>1, <1>7, <3>2, <3>3 DEF AtRest, Quiet
    <2> QED
      BY <1>1, <1>6, <2>2, <2>4, <2>5, <2>6 DEF TInv, StepOK, Working
  <1>13. CASE before # <<>>
    <2> DEFINE z == before[1].slot
    <2>1. /\ Head(before) = before[1] /\ Head(before).op = "restore" /\ z \in Slots
          /\ z \in SlotsLeft(before)
      BY <1>10, <1>13, TailFacts
    <2> HIDE DEF z
    <2>2. /\ tokens' = RolledBack(0, z)
          /\ checkpoint' = [checkpoint EXCEPT ![0][s] = None, ![0][z] = None]
          /\ active' = [active EXCEPT ![0] = 0]
          /\ gen' = gen + 1
          /\ ctl' = [ctl EXCEPT !.todo = before, !.then = "halted"]
      BY <1>13 DEF LocalPrepareFails, before, s, todo, z
    <2>3. /\ checkpoint' \in [Ranks -> [Slots -> Nat \cup {None}]]
          /\ checkpoint'[0][s] = None /\ checkpoint'[0][z] = None
          /\ \A x \in Slots \ {s, z} : checkpoint'[0][x] = checkpoint[0][x]
          /\ \A r \in Ranks \ {0} : checkpoint'[r] = checkpoint[r]
      BY <1>5, <1>11, <2>1, <2>2 DEF TInv, Types
    <2>4. /\ tokens' \in [Ranks -> [Slots -> Nat]]
          /\ \A r \in Ranks \ {0} : tokens'[r] = tokens[r]
          /\ \A x \in Slots : tokens'[0][x] = host[x]
      <3>1. \A x \in Slots : tokens[0][x] = host[x]
        BY <1>8 DEF OwnerAt
      <3>2. checkpoint[0][z] \in {None, host[z]} /\ host[z] \in Nat
        BY <1>11, <2>1 DEF TInv, Types, Frontier, NearFrontier
      <3> QED
        BY <1>11, <2>1, <2>2, <3>1, <3>2 DEF TInv, Types, RolledBack
    <2>5. active' \in [Ranks -> Slots] /\ active'[0] = 0
      BY <1>11, <2>2 DEF TInv, Types, ChainAssumption
    <2>6. /\ ctl'.pc = "send" /\ ctl'.todo = before /\ ctl'.batch = ctl.batch
          /\ ctl'.then = "halted" /\ ctl'.peer = 1 /\ ctl' \in InTxn
      BY <1>1, <1>2, <1>10, <1>13, <2>2 DEF InTxn
    <2>7. Types'
      <3>1. ctl' \in {Idle, Halted} \cup InTxn \cup InRing
        BY <2>6
      <3>2. gen' \in Nat
        BY <2>2 DEF TInv, Types
      <3> QED
        BY <1>1, <2>3, <2>4, <2>5, <3>1, <3>2 DEF TInv, Types
    <2>8. Frontier'
      <3>1. ASSUME NEW r \in Ranks, NEW x \in Slots
            PROVE  tokens'[r][x] \in {host[x], host[x] + 1} /\ checkpoint'[r][x] \in {None, host[x]}
        BY <1>11, <2>3, <2>4 DEF TInv, Frontier, NearFrontier
      <3>2. NearFrontier'
        BY <1>1, <3>1 DEF NearFrontier
      <3>3. PreparesOK'
        BY <1>1, <1>7 DEF PreparesOK, Quiet
      <3> QED
        BY <1>1, <1>6, <3>2, <3>3 DEF Frontier, WorkOK, Working
    <2>9. Quiet'
      BY <1>1, <1>7 DEF Quiet
    <2>10. OwnerAt(tokens'[0], checkpoint'[0], host, "restore", B, Rest(before))
      <3> SUFFICES ASSUME NEW x \in Slots
          PROVE  \/ checkpoint'[0][x] = None /\ tokens'[0][x] = host[x]
                 \/ checkpoint'[0][x] = host[x] /\ x \in Rest(before)
        BY DEF OwnerAt
      <3>1. CASE x \in {s, z}
        BY <2>3, <2>4, <3>1
      <3>2. CASE x \notin {s, z}
        <4>1. checkpoint'[0][x] = checkpoint[0][x]
          BY <2>3, <3>2
        <4>2. checkpoint[0][x] = IF x \in B \ Rest(todo) THEN host[x] ELSE None
          BY <1>8 DEF OwnerAt
        <4>3. x \in B \ Rest(todo) => x \in Rest(before)
          BY <1>10, <2>1, <3>2 DEF Rest, s, z
        <4> QED
          BY <2>4, <4>1, <4>2, <4>3
      <3> QED
        BY <3>1, <3>2
    <2>11. ASSUME NEW r \in Ranks \ {0}
           PROVE  OwnerAt(tokens'[r], checkpoint'[r], host, "restore", B, SlotsLeft(before))
      <3>1. \A x \in Slots : /\ tokens[r][x] = host[x]
                             /\ checkpoint[r][x] = IF x \in SlotsLeft(before) THEN host[x] ELSE None
        BY <1>9, <1>10 DEF OwnerAt
      <3>2. tokens'[r] = tokens[r] /\ checkpoint'[r] = checkpoint[r]
        BY <2>3, <2>4
      <3> QED
        BY <3>1, <3>2 DEF OwnerAt
    <2>12. \A r \in Ranks : Applied(r)' <=> r = 0
      BY <2>6, <2>9 DEF Applied, Heard, Quiet, Ranks, Peers
    <2>13. \A p \in Peers : LinkOK(p)'
      <3> SUFFICES ASSUME NEW p \in Peers PROVE LinkOK(p)'
        OBVIOUS
      <3>1. ~Told(p)'
        BY <2>6 DEF Told, Peers
      <3> QED
        BY <2>9, <3>1 DEF LinkOK, Quiet
    <2>14. TxnOK'
      BY <1>1, <1>6, <1>10, <2>1, <2>5, <2>6, <2>10, <2>11, <2>12, <2>13 DEF TxnOK, B, Working
    <2>15. TodoOK(before, ctl.batch, "halted")
      BY <1>10, <2>1 DEF TodoOK
    <2>16. StepOK'
      BY <1>1, <2>6, <2>14, <2>15 DEF TInv, StepOK
    <2> QED
      BY <2>7, <2>8, <2>16 DEF TInv
  <1> QED
    BY <1>12, <1>13


\* Rank 0 gives up a transaction: only when a rank is gone.
LEMMA FailOK ==
    ASSUME ChainAssumption, TInv, ctl.pc \in {"send", "recv"}, ~AllAlive, Fail,
           alive' = alive, req' = req, rep' \in [Peers -> Seq(Answer)]
    PROVE  TInv'
  <1>1. ctl \in InTxn /\ TodoOK(ctl.todo, ctl.batch, ctl.then)
    BY DEF TInv, Types, StepOK, Idle, Halted, InRing
  <1>2. ctl.batch \in Batch \cup {<<>>} /\ \A s \in SlotsOf(ctl.batch) : host[s] < MaxSteps
    BY <1>1 DEF InTxn, TInv, StepOK
  <1>3. Recovery \in Seq(Txns) /\ \A i \in DOMAIN Recovery : Recovery[i].op = "restore"
    BY <1>1, RecoveryFacts
  <1>4. Start(Recovery, ctl.batch, "halted")
    BY DEF Fail
  <1> QED
    BY <1>2, <1>3, <1>4, FailStep DEF TInv

\* Rank 0 sends a transaction to the next peer, or finds it gone.
LEMMA SendStep ==
    ASSUME ChainAssumption, TInv, Send
    PROVE  TInv'
  <1> DEFINE todo == ctl.todo
  <1>1. ctl.pc = "send" /\ alive' = alive /\ rep' = rep
    BY DEF Send
  <1>2. ctl \in InTxn /\ TodoOK(todo, ctl.batch, ctl.then)
    BY <1>1 DEF TInv, Types, StepOK, Idle, Halted, InRing
  <1> PICK p \in Peers : p = ctl.peer
    BY <1>2 DEF InTxn
  <1> DEFINE sent == [ctl EXCEPT !.peer = IF p = N THEN 1 ELSE p + 1,
                                 !.pc = IF p = N THEN "recv" ELSE "send"]
  <1>3. todo \in Seq(Txns) \ {<<>>} /\ p \in Peers
    BY <1>2 DEF InTxn
  <1>4. Head(todo).op \in Ops /\ Head(todo).slot \in Slots
    BY <1>3, TailFacts
  <1>5. N \in Nat /\ N >= 1 /\ Peers = 1..N /\ Peers \subseteq Ranks /\ p # 0
    BY <1>3 DEF ChainAssumption, Peers, Ranks
  <1>6. CASE /\ ctl' = sent
             /\ req' = IF alive[p] THEN [req EXCEPT ![p] = Append(req[p], Request)] ELSE req
             /\ UNCHANGED <<tokens, checkpoint, active, work, host, gen>>
    <2>1. /\ ctl' \in InTxn /\ ctl'.todo = todo /\ ctl'.batch = ctl.batch
          /\ ctl'.then = ctl.then
          /\ ctl'.pc = (IF p = N THEN "recv" ELSE "send")
          /\ ctl'.peer = (IF p = N THEN 1 ELSE p + 1)
      <3> DEFINE q == IF p = N THEN 1 ELSE p + 1
                 c == IF p = N THEN "recv" ELSE "send"
      <3>1. q \in Peers /\ c \in {"send", "recv"}
        BY <1>5
      <3>2. ctl' = [ctl EXCEPT !.peer = q, !.pc = c]
        BY <1>6
      <3> HIDE DEF q, c
      <3>3. /\ ctl' \in InTxn /\ ctl'.todo = todo /\ ctl'.batch = ctl.batch
            /\ ctl'.then = ctl.then /\ ctl'.pc = c /\ ctl'.peer = q
        BY <1>2, <3>1, <3>2 DEF InTxn
      <3> QED
        BY <3>3 DEF q, c
    <2> HIDE DEF sent
    <2>2. Request \in Message /\ req[p] \in Seq(Message)
      BY <1>3, <1>4 DEF Request, Message, TInv, Types
    <2>3. /\ req' \in [Peers -> Seq(Message)]
          /\ \A q \in Peers \ {p} : req'[q] = req[q]
          /\ req'[p] = IF alive[p] THEN Append(req[p], Request) ELSE req[p]
      <3>1. Append(req[p], Request) \in Seq(Message)
        BY <2>2
      <3> QED
        BY <1>3, <1>6, <3>1 DEF TInv, Types
    <2>4. Types'
      <3>1. ctl' \in {Idle, Halted} \cup InTxn \cup InRing
        BY <2>1
      <3> QED
        BY <1>1, <1>6, <2>3, <3>1 DEF TInv, Types
    <2>5. ctl.then # "halted" => ~Working
      BY <1>1 DEF TInv, Frontier, WorkOK
    <2>6. Head(todo).op = "prepare" =>
             ~Working /\ tokens[p][Head(todo).slot] = host[Head(todo).slot]
      <3> SUFFICES ASSUME Head(todo).op = "prepare"
          PROVE  ~Working /\ tokens[p][Head(todo).slot] = host[Head(todo).slot]
        OBVIOUS
      <3>1. ctl.then = "ring"
        BY <1>2 DEF TodoOK
      <3>2. TxnOK
        BY <1>1, <3>1 DEF TInv, StepOK
      <3>3. \A s \in Slots : tokens[p][s] = host[s]
        BY <1>3, <1>5, <3>2 DEF TxnOK, OwnerAt
      <3> QED
        BY <1>4, <2>5, <3>1, <3>3
    <2>7. Frontier'
      <3>1. NearFrontier'
        BY <1>6 DEF TInv, Frontier, NearFrontier
      <3>2. WorkOK'
        BY <1>1, <1>6, <2>1 DEF TInv, Frontier, WorkOK, Working
      <3>3. PreparesOK'
        <4> SUFFICES ASSUME NEW q \in Peers, NEW i \in DOMAIN req'[q], req'[q][i].op = "prepare"
            PROVE  ~Working /\ tokens[q][req'[q][i].slot] = host[req'[q][i].slot]
          BY <1>6 DEF PreparesOK, Working
        <4>1. CASE i \in DOMAIN req[q] /\ req'[q][i] = req[q][i]
          BY <4>1 DEF TInv, Frontier, PreparesOK
        <4>2. CASE q = p /\ req'[q][i] = Request
          BY <2>6, <4>2 DEF Request
        <4>3. (i \in DOMAIN req[q] /\ req'[q][i] = req[q][i]) \/ (q = p /\ req'[q][i] = Request)
          <5> DEFINE f == Append(req[p], Request)
          <5>1. \A j \in DOMAIN f : (j \in DOMAIN req[p] /\ f[j] = req[p][j]) \/ f[j] = Request
            BY <2>2
          <5> HIDE DEF f
          <5>2. req'[p] = f \/ req'[p] = req[p]
            BY <2>3 DEF f
          <5>3. q # p => req'[q] = req[q]
            BY <2>3
          <5> QED
            BY <5>1, <5>2, <5>3
        <4> QED
          BY <4>1, <4>2, <4>3
      <3> QED
        BY <3>1, <3>2, <3>3 DEF Frontier
    <2>8. ASSUME AllAlive \/ ctl.then # "halted" PROVE TxnOK'
      <3>1. TxnOK
        BY <1>1, <2>8 DEF TInv, StepOK
      <3>2. /\ Request' = Request /\ Expected' = Expected
        BY <1>6, <2>1 DEF Request, Expected
      <3>3. ASSUME NEW q \in Peers
            PROVE  ~Heard(q) /\ ~Heard(q)' /\ ~Told(p) /\ Told(p)'
                   /\ (q # p => (Told(q)' <=> Told(q)))
        BY <1>1, <1>3, <1>5, <2>1 DEF Heard, Told
      <3>4. req[p] = <<>> /\ rep[p] = <<>>
        BY <1>3, <3>1, <3>3 DEF TxnOK, LinkOK
      <3>5. LinkOK(p)'
        <4>1. req'[p] = IF alive[p] THEN <<Request>> ELSE <<>>
          BY <2>3, <3>4
        <4> QED
          BY <1>1, <1>3, <3>2, <3>3, <3>4, <4>1 DEF LinkOK
      <3>6. ASSUME NEW q \in Peers \ {p} PROVE LinkOK(q)'
        BY <1>1, <2>3, <3>1, <3>2, <3>3 DEF LinkOK, TxnOK
      <3>7. \A r \in Ranks : Applied(r)' <=> Applied(r)
        <4> SUFFICES ASSUME NEW r \in Ranks PROVE Applied(r)' <=> Applied(r)
          OBVIOUS
        <4>1. r = 0 \/ r \in Peers
          BY DEF Ranks, Peers, ChainAssumption
        <4> QED
          BY <1>1, <3>3, <4>1 DEF Applied
      <3> QED
        BY <1>6, <2>1, <3>1, <3>5, <3>6, <3>7 DEF TxnOK, Working
    <2>9. AllAlive' <=> AllAlive
      BY <1>1 DEF AllAlive
    <2>10. ctl'.pc \in {"send", "recv"} /\ ctl.pc \notin {"idle", "halted"}
      BY <1>1, <2>1
    <2>11. StepOK'
      <3>1. ctl'.pc \notin {"idle", "halted", "ring", "failed"}
        BY <2>1
      <3>2. \A s \in SlotsOf(ctl.batch) : host[s] < MaxSteps
        BY <2>10 DEF TInv, StepOK
      <3> QED
        BY <1>2, <1>6, <2>1, <2>8, <2>9, <2>10, <3>1, <3>2 DEF StepOK
    <2> QED
      BY <2>4, <2>7, <2>11 DEF TInv
  <1>7. CASE ~alive[p] /\ Fail /\ req' = req
    <2>1. ~AllAlive
      BY <1>3, <1>7 DEF AllAlive
    <2>2. rep' \in [Peers -> Seq(Answer)]
      BY <1>1 DEF TInv, Types
    <2> QED
      BY <1>1, <1>7, <2>1, <2>2, FailOK
  <1> QED
    <2>1. \/ /\ ctl' = sent
             /\ req' = IF alive[p] THEN [req EXCEPT ![p] = Append(req[p], Request)] ELSE req
             /\ UNCHANGED <<tokens, checkpoint, active, work, host, gen>>
          \/ ~alive[p] /\ Fail /\ req' = req
      BY DEF Send, Request
    <2> QED
      BY <1>6, <1>7, <2>1


\* Every rank has done a transaction: rank 0 goes on with the next, or with what follows
\* the sweep.
LEMMA NextTxn ==
    ASSUME ChainAssumption, TInv, ctl.pc = "recv", AllAlive \/ ctl.then # "halted",
           Quiet', \A r \in Ranks : Applied(r),
           Start(Tail(ctl.todo), ctl.batch, ctl.then),
           alive' = alive, req' = req, rep' \in [Peers -> Seq(Answer)]
    PROVE  TInv'
  <1> DEFINE todo == ctl.todo
             batch == ctl.batch
             then == ctl.then
             op == Head(todo).op
             B == SlotsOf(batch)
  <1>1. ctl \in InTxn /\ TodoOK(todo, batch, then) /\ TxnOK /\ ~Working
    BY DEF TInv, Types, StepOK, TxnOK, Idle, Halted, InRing
  <1>2. /\ todo \in Seq(Txns) \ {<<>>} /\ batch \in Batch \cup {<<>>}
        /\ then \in {"ring", "idle", "halted"}
    BY <1>1 DEF InTxn
  <1>3. /\ op \in Ops /\ Head(todo).slot \in Slots /\ Head(todo).slot \in SlotsLeft(todo)
        /\ Tail(todo) \in Seq(Txns) /\ Len(Tail(todo)) = Len(todo) - 1
        /\ DOMAIN Tail(todo) = 1..(Len(todo) - 1) /\ DOMAIN todo = 1..Len(todo)
        /\ \A i \in DOMAIN Tail(todo) : Tail(todo)[i] = todo[i + 1]
        /\ Distinct(Tail(todo)) /\ SlotsLeft(Tail(todo)) = Rest(todo)
    BY <1>1, <1>2, TailFacts DEF TxnOK
  <1>4. \A s \in B : host[s] < MaxSteps
    BY DEF TInv, StepOK
  <1>5. \A r \in Ranks : /\ OwnerAt(tokens[r], checkpoint[r], host, op, B, Rest(todo))
                         /\ op # "prepare" => active[r] = 0
    BY <1>1 DEF TxnOK
  <1>6. Len(todo) \in Nat
    BY <1>2
  <1>7. CASE Tail(todo) # <<>>
    <2> DEFINE next == Tail(todo)
    <2>1. next \in Seq(Txns) \ {<<>>}
      BY <1>3, <1>7
    <2>2. Head(next) = next[1] /\ 1 \in DOMAIN next
      BY <2>1, TailFacts
    <2>3. \A i \in DOMAIN next : i + 1 \in DOMAIN todo /\ next[i].op = op
      BY <1>1, <1>3, <1>6 DEF TodoOK
    <2>4. Head(next).op = op
      BY <2>2, <2>3
    <2>5. TodoOK(next, batch, then)
      <3>1. ASSUME then = "ring"
            PROVE  /\ Len(next) <= Len(batch)
                   /\ \A i \in DOMAIN next : next[i].slot = batch[Len(batch) - Len(next) + i]
        <4>1. /\ Len(todo) <= Len(batch)
              /\ \A i \in DOMAIN todo : todo[i].slot = batch[Len(batch) - Len(todo) + i]
          BY <1>1, <3>1 DEF TodoOK
        <4>2. Len(batch) \in Nat
          BY <1>2, <1>6, <4>1 DEF Batch
        <4>3. Len(next) <= Len(batch)
          <5> HIDE DEF todo, batch, next
          <5> QED
            BY <1>3, <1>6, <4>1, <4>2 DEF next
        <4>4. ASSUME NEW i \in DOMAIN next
              PROVE  next[i].slot = batch[Len(batch) - Len(next) + i]
          <5>1. i + 1 \in DOMAIN todo /\ next[i] = todo[i + 1]
            BY <1>3, <2>3
          <5>2. todo[i + 1].slot = batch[Len(batch) - Len(todo) + (i + 1)]
            BY <4>1, <5>1
          <5>3. Len(batch) - Len(todo) + (i + 1) = Len(batch) - Len(next) + i
            <6> HIDE DEF todo, batch, next
            <6> QED
              BY <1>3, <1>6, <4>2 DEF next
          <5> QED
            BY <5>1, <5>2, <5>3
        <4> QED
          BY <4>3, <4>4
      <3> HIDE DEF next
      <3> QED
        BY <1>1, <2>3, <2>4, <3>1 DEF TodoOK
    <2>6. Head(next).op = "commit" => SlotsLeft(next) \subseteq B
      BY <1>1, <1>3, <2>4 DEF TxnOK, Rest
    <2>7. \A r \in Ranks : OwnerAt(tokens[r], checkpoint[r], host, Head(next).op, B, SlotsLeft(next))
      BY <1>3, <1>5, <2>4
    <2>8. /\ Apply(0, Head(next).op, Head(next).slot) /\ gen' = gen + 1
          /\ ctl' = [pc |-> "send", todo |-> next, batch |-> batch, then |-> then, peer |-> 1]
          /\ work' = work /\ host' = host
      BY <1>7 DEF Start
    <2>9. Distinct(next)
      BY <1>3
    <2> HIDE DEF next, todo, op, batch, then
    <2> QED
      BY <1>1, <1>2, <1>4, <2>1, <2>5, <2>6, <2>7, <2>8, <2>9, BeginTxn DEF TInv
  <1>8. CASE Tail(todo) = <<>>
    <2>1. Rest(todo) = {}
      BY <1>3, <1>8 DEF SlotsLeft
    <2>2. \A r \in Ranks : OwnerAt(tokens[r], checkpoint[r], host, op, B, {})
      BY <1>5, <2>1
    <2>3. tokens' = tokens /\ checkpoint' = checkpoint /\ active' = active /\ gen' = gen
      BY <1>8 DEF Start
    <2>4. \A p \in Peers : req[p] = <<>>
      BY DEF Quiet
    <2>5. CASE then = "ring"
      <3>1. ctl' = [pc |-> "ring", batch |-> batch] /\ work' = [at |-> 1, batch |-> batch]
            /\ host' = host
        BY <1>8, <2>5 DEF Start
      <3>2. batch \in Batch /\ op = "prepare"
        BY <1>1, <1>2, <2>5, HeadInBatch DEF TodoOK
      <3>3. batch \in Seq(Slots) /\ ctl' \in InRing /\ ctl'.pc = "ring" /\ ctl'.batch = batch
        BY <3>1, <3>2 DEF InRing, Batch
      <3>4. work'.at = 1 /\ work'.batch = batch
        BY <3>1
      <3>5. work' \in [at : 0..(Len(Chain) + 1), batch : Seq(Slots)]
        BY <3>1, <3>3 DEF ChainAssumption
      <3>6. Types'
        BY <2>3, <3>1, <3>3, <3>5 DEF TInv, Types
      <3>7. \A r \in Ranks, s \in Slots :
              tokens[r][s] = host[s] /\ checkpoint[r][s] = IF s \in B THEN host[s] ELSE None
        BY <2>2, <3>2 DEF OwnerAt
      <3>8. Frontier'
        <4>1. NearFrontier'
          BY <2>3, <3>1 DEF TInv, Frontier, NearFrontier
        <4>2. WorkOK'
          <5>1. \A i \in DOMAIN Chain : Chain[i] \in Ranks
            BY DEF ChainAssumption, Ranks
          <5>2. B \subseteq Slots
            BY <3>3 DEF SlotsOf
          <5> QED
            BY <2>3, <3>1, <3>2, <3>3, <3>4, <3>7, <5>1, <5>2 DEF WorkOK
        <4>3. PreparesOK'
          BY <2>4 DEF PreparesOK
        <4> QED
          BY <4>1, <4>2, <4>3 DEF Frontier
      <3>9. Protected(B)'
        BY <2>3, <3>1, <3>7 DEF Protected
      <3>10. StepOK'
        <4>1. \A i \in DOMAIN Chain : ~(i < work'.at)
          BY <3>4 DEF ChainAssumption
        <4> QED
          BY <1>4, <3>1, <3>3, <3>9, <4>1 DEF StepOK
      <3> QED
        BY <3>6, <3>8, <3>10 DEF TInv
    <2>6. CASE then = "idle"
      <3> DEFINE h == [s \in Slots |-> IF s \in B THEN host[s] + 1 ELSE host[s]]
      <3>1. ctl' = Idle /\ work' = work /\ host' = h
        BY <1>8, <2>6 DEF Start
      <3>2. ctl'.pc = "idle"
        BY <3>1 DEF Idle
      <3>3. op # "prepare"
        BY <1>1, <2>6 DEF TodoOK
      <3>4. ASSUME NEW s \in Slots
            PROVE  h[s] \in 0..MaxSteps /\ \A r \in Ranks : tokens[r][s] = h[s] /\ checkpoint[r][s] = None
        <4>1. h[s] = IF s \in B THEN host[s] + 1 ELSE host[s]
          OBVIOUS
        <4>2. host[s] \in 0..MaxSteps /\ MaxSteps \in Nat
          BY DEF TInv, Types, ChainAssumption
        <4>3. h[s] \in 0..MaxSteps
          BY <1>4, <4>1, <4>2
        <4>4. CASE op = "commit"
          BY <2>2, <4>1, <4>3, <4>4 DEF OwnerAt
        <4>5. CASE op = "restore"
          <5>1. B = {}
            BY <1>1, <2>6, <4>5 DEF TodoOK, SlotsOf
          <5> QED
            BY <2>2, <4>1, <4>3, <4>5, <5>1 DEF OwnerAt
        <4> QED
          BY <1>3, <3>3, <4>4, <4>5 DEF Ops
      <3>5. h \in [Slots -> 0..MaxSteps]
        BY <3>4
      <3> HIDE DEF h
      <3>6. Types'
        BY <2>3, <3>1, <3>5 DEF TInv, Types
      <3>7. AtRest'
        BY <2>3, <3>1, <3>4 DEF AtRest
      <3>8. Frontier'
        <4>1. NearFrontier'
          BY <2>3, <3>1, <3>4 DEF NearFrontier
        <4>2. (~Working)'
          BY <1>1, <3>1 DEF Working
        <4>3. PreparesOK'
          BY <2>4 DEF PreparesOK
        <4> QED
          BY <4>1, <4>2, <4>3 DEF Frontier, WorkOK
      <3>9. \A r \in Ranks : active'[r] = 0
        BY <1>5, <2>3, <3>3
      <3>10. StepOK'
        BY <3>2, <3>7, <3>9 DEF StepOK
      <3> QED
        BY <3>6, <3>8, <3>10 DEF TInv
    <2>7. CASE then = "halted"
      <3>1. ctl' = Halted /\ work' = work /\ host' = host
        BY <1>8, <2>7 DEF Start
      <3>2. ctl'.pc = "halted"
        BY <3>1 DEF Halted
      <3>3. op = "restore"
        BY <1>1, <1>3, <2>7 DEF TodoOK, Ops
      <3>4. \A r \in Ranks, s \in Slots : tokens[r][s] = host[s] /\ checkpoint[r][s] = None
        BY <2>2, <3>3 DEF OwnerAt
      <3>5. Types'
        BY <2>3, <3>1 DEF TInv, Types
      <3>6. (~Working)'
        BY <1>1, <3>1 DEF Working
      <3>7. Frontier'
        <4>1. NearFrontier'
          BY <2>3, <3>1 DEF TInv, Frontier, NearFrontier
        <4>2. PreparesOK'
          BY <2>4 DEF PreparesOK
        <4> QED
          BY <3>6, <4>1, <4>2 DEF Frontier, WorkOK
      <3>8. AtRest'
        BY <2>3, <3>1, <3>4 DEF AtRest
      <3>9. StepOK'
        BY <3>2, <3>6, <3>8 DEF StepOK
      <3> QED
        BY <3>5, <3>7, <3>9 DEF TInv
    <2> QED
      BY <1>2, <2>5, <2>6, <2>7
  <1> QED
    BY <1>7, <1>8


\* Rank 0 reads the answer of the next peer, or finds the peer gone.
LEMMA ReceiveStep ==
    ASSUME ChainAssumption, TInv, Receive
    PROVE  TInv'
  <1>1. ctl.pc = "recv" /\ alive' = alive /\ req' = req
    BY DEF Receive
  <1>2. ctl \in InTxn /\ TodoOK(ctl.todo, ctl.batch, ctl.then)
    BY <1>1 DEF TInv, Types, StepOK, Idle, Halted, InRing
  <1> PICK p \in Peers : p = ctl.peer
    BY <1>2 DEF InTxn
  <1>3. N \in Nat /\ N >= 1 /\ Peers = 1..N /\ Peers \subseteq Ranks /\ p # 0
    BY DEF ChainAssumption, Peers, Ranks
  <1>4. rep[p] \in Seq(Answer)
    BY DEF TInv, Types
  <1> DEFINE Sound == AllAlive \/ ctl.then # "halted"
  <1>5. ASSUME Sound
        PROVE  /\ TxnOK
               /\ \A q \in Peers : q < p => req[q] = <<>> /\ rep[q] = <<>>
               /\ rep[p] # <<>> => req[p] = <<>> /\ rep[p] = <<Expected>>
    <2>1. TxnOK
      BY <1>1, <1>5 DEF TInv, StepOK
    <2>2. \A q \in Peers : Told(q) /\ (Heard(q) <=> q < p)
      BY <1>1 DEF Told, Heard
    <2>3. ~(p < p)
      BY <1>3
    <2> QED
      BY <2>1, <2>2, <2>3 DEF TxnOK, LinkOK
  <1>6. CASE rep[p] = <<>> /\ ~alive[p] /\ Fail /\ rep' = rep
    <2>1. ~AllAlive /\ rep' \in [Peers -> Seq(Answer)]
      BY <1>6 DEF AllAlive, TInv, Types
    <2> QED
      BY <1>1, <1>6, <2>1, FailOK
  <1>7. CASE rep[p] # <<>> /\ rep' = [rep EXCEPT ![p] = Tail(rep[p])]
    <2>1. Tail(rep[p]) \in Seq(Answer)
      BY <1>4, <1>7
    <2>2. /\ rep' \in [Peers -> Seq(Answer)] /\ rep'[p] = Tail(rep[p])
          /\ \A q \in Peers \ {p} : rep'[q] = rep[q]
      BY <1>7, <2>1 DEF TInv, Types
    <2>3. Sound => /\ Accepts(Head(rep[p])) /\ rep'[p] = <<>> /\ req[p] = <<>>
                   /\ \A q \in Peers : q < p => req'[q] = <<>> /\ rep'[q] = <<>>
      <3> SUFFICES ASSUME Sound
          PROVE  /\ Accepts(Head(rep[p])) /\ rep'[p] = <<>> /\ req[p] = <<>>
                 /\ \A q \in Peers : q < p => req'[q] = <<>> /\ rep'[q] = <<>>
        OBVIOUS
      <3>1. rep[p] = <<Expected>> /\ req[p] = <<>>
        BY <1>5, <1>7
      <3>2. Head(rep[p]) = Expected /\ Tail(rep[p]) = <<>>
        BY <3>1
      <3>3. Accepts(Head(rep[p]))
        BY <3>2 DEF Accepts, Expected
      <3>4. \A q \in Peers : q < p => q # p
        BY <1>3
      <3> QED
        BY <1>1, <1>5, <2>2, <3>1, <3>2, <3>3, <3>4
    <2>4. CASE ~Accepts(Head(rep[p])) /\ Fail
      BY <1>1, <2>2, <2>3, <2>4, FailOK
    <2>5. CASE p = N /\ Start(Tail(ctl.todo), ctl.batch, ctl.then)
      <3>1. CASE Sound
        <4>1. Quiet'
          <5> SUFFICES ASSUME NEW q \in Peers PROVE req'[q] = <<>> /\ rep'[q] = <<>>
            BY DEF Quiet
          <5>1. q = p \/ q < p
            BY <1>3, <2>5
          <5> QED
            BY <1>1, <2>3, <3>1, <5>1
        <4>2. \A r \in Ranks : Applied(r)
          <5> SUFFICES ASSUME NEW r \in Ranks PROVE Applied(r)
            OBVIOUS
          <5>1. r = 0 \/ r = p \/ r < p
            BY <1>3, <2>5 DEF Ranks
          <5> QED
            BY <1>1, <1>7, <5>1 DEF Applied, Heard
        <4> QED
          BY <1>1, <2>2, <2>5, <3>1, <4>1, <4>2, NextTxn
      <3>2. CASE ~Sound
        <4>1. ~AllAlive /\ ctl.then = "halted"
          BY <3>2
        <4>2. /\ ctl.todo \in Seq(Txns) \ {<<>>} /\ ctl.batch \in Batch \cup {<<>>}
              /\ \A s \in SlotsOf(ctl.batch) : host[s] < MaxSteps
          BY <1>1, <1>2 DEF InTxn, TInv, StepOK
        <4>3. Head(ctl.todo).op = "restore"
          BY <1>2, <4>1, <4>2, TailFacts DEF TodoOK, Ops
        <4>4. \A i \in DOMAIN ctl.todo : ctl.todo[i].op = "restore"
          BY <1>2, <4>3 DEF TodoOK
        <4>5. Tail(ctl.todo) \in Seq(Txns) /\ \A i \in DOMAIN Tail(ctl.todo) :
                 Tail(ctl.todo)[i] = ctl.todo[i + 1] /\ i + 1 \in DOMAIN ctl.todo
          <5> DEFINE t == ctl.todo
          <5> HIDE DEF t
          <5>1. t \in Seq(Txns) \ {<<>>}
            BY <4>2 DEF t
          <5>2. Tail(t) \in Seq(Txns) /\ \A i \in DOMAIN Tail(t) :
                  Tail(t)[i] = t[i + 1] /\ i + 1 \in DOMAIN t
            BY <5>1
          <5> QED
            BY <5>2 DEF t
        <4>6. \A i \in DOMAIN Tail(ctl.todo) : Tail(ctl.todo)[i].op = "restore"
          BY <4>4, <4>5
        <4>7. Start(Tail(ctl.todo), ctl.batch, "halted")
          BY <2>5, <4>1
        <4> DEFINE t == Tail(ctl.todo)
        <4> HIDE DEF t
        <4>8. /\ t \in Seq(Txns) /\ \A i \in DOMAIN t : t[i].op = "restore"
              /\ Start(t, ctl.batch, "halted")
          BY <4>5, <4>6, <4>7 DEF t
        <4> QED
          BY <1>1, <2>2, <4>1, <4>2, <4>8, FailStep DEF TInv
      <3> QED
        BY <3>1, <3>2
    <2>6. CASE /\ p # N /\ ctl' = [ctl EXCEPT !.peer = p + 1]
               /\ UNCHANGED <<tokens, checkpoint, active, work, host, gen>>
      <3>1. p + 1 \in Peers
        BY <1>3, <2>6
      <3>2. /\ ctl' \in InTxn /\ ctl'.pc = "recv" /\ ctl'.todo = ctl.todo /\ ctl'.batch = ctl.batch
            /\ ctl'.then = ctl.then /\ ctl'.peer = p + 1
        BY <1>1, <1>2, <2>6, <3>1 DEF InTxn
      <3>3. Types'
        <4>1. ctl' \in {Idle, Halted} \cup InTxn \cup InRing
          BY <3>2
        <4> QED
          BY <1>1, <2>2, <2>6, <4>1 DEF TInv, Types
      <3>4. Frontier'
        <4>1. NearFrontier'
          BY <2>6 DEF TInv, Frontier, NearFrontier
        <4>2. WorkOK'
          BY <1>1, <2>6, <3>2 DEF TInv, Frontier, WorkOK, Working
        <4>3. PreparesOK'
          BY <1>1, <2>6 DEF TInv, Frontier, PreparesOK, Working
        <4> QED
          BY <4>1, <4>2, <4>3 DEF Frontier
      <3>5. ASSUME Sound PROVE TxnOK'
        <4>1. TxnOK
          BY <1>5, <3>5
        <4>2. Request' = Request /\ Expected' = Expected
          BY <2>6, <3>2 DEF Request, Expected
        <4>3. \A q \in Peers : /\ Told(q) /\ Told(q)' /\ (Heard(q) <=> q < p)
                               /\ (Heard(q)' <=> q < p \/ q = p)
          BY <1>1, <1>3, <3>2 DEF Told, Heard
        <4>4. \A q \in Peers : LinkOK(q)'
          <5> SUFFICES ASSUME NEW q \in Peers PROVE LinkOK(q)'
            OBVIOUS
          <5>1. CASE q < p \/ q = p
            BY <1>1, <2>3, <3>5, <4>3, <5>1 DEF LinkOK
          <5>2. CASE ~(q < p \/ q = p)
            <6>1. req'[q] = req[q] /\ rep'[q] = rep[q]
              BY <1>1, <2>2, <5>2
            <6> QED
              BY <1>1, <4>1, <4>2, <4>3, <5>2, <6>1 DEF LinkOK, TxnOK
          <5> QED
            BY <5>1, <5>2
        <4>5. \A r \in Ranks : Applied(r)' <=> Applied(r)
          <5> SUFFICES ASSUME NEW r \in Ranks PROVE Applied(r)' <=> Applied(r)
            OBVIOUS
          <5>1. r = 0 \/ r \in Peers
            BY DEF Ranks, Peers, ChainAssumption
          <5>2. CASE r = p
            BY <1>7, <4>3, <5>2 DEF Applied
          <5>3. CASE r # p
            BY <2>2, <4>3, <5>1, <5>3 DEF Applied
          <5> QED
            BY <5>2, <5>3
        <4> QED
          BY <2>6, <3>2, <4>1, <4>4, <4>5 DEF TxnOK, Working
      <3>6. AllAlive' <=> AllAlive
        BY <1>1 DEF AllAlive
      <3>7. StepOK'
        <4>1. \A s \in SlotsOf(ctl.batch) : host[s] < MaxSteps
          BY <1>1 DEF TInv, StepOK
        <4> QED
          BY <1>2, <2>6, <3>2, <3>5, <3>6, <4>1 DEF StepOK
      <3> QED
        BY <3>3, <3>4, <3>7 DEF TInv
    <2> QED
      BY <1>6, <1>7, <2>4, <2>5, <2>6 DEF Receive
  <1> QED
    BY <1>6, <1>7 DEF Receive
-----------------------------------------------------------------------------
(* The ring pass. *)

\* A block advances the owner that runs it, and no other, by one token.
LEMMA AdvanceFacts ==
    ASSUME ChainAssumption, Types, NearFrontier, NEW r \in Ranks, NEW S \in SUBSET Slots,
           Advance(r, S), host' = host, checkpoint' = checkpoint,
           \A s \in S : tokens[r][s] = host[s]
    PROVE  /\ tokens' \in [Ranks -> [Slots -> Nat]] /\ NearFrontier'
           /\ \A q \in Ranks \ {r} : tokens'[q] = tokens[q]
           /\ \A s \in Slots : tokens'[r][s] = IF s \in S THEN host[s] + 1 ELSE tokens[r][s]
  <1>1. /\ tokens' \in [Ranks -> [Slots -> Nat]]
        /\ \A q \in Ranks \ {r} : tokens'[q] = tokens[q]
        /\ \A s \in Slots : tokens'[r][s] = IF s \in S THEN tokens[r][s] + 1 ELSE tokens[r][s]
    BY DEF Advance, Types
  <1>2. \A s \in Slots : tokens'[r][s] = IF s \in S THEN host[s] + 1 ELSE tokens[r][s]
    BY <1>1
  <1>3. NearFrontier'
    BY <1>1, <1>2 DEF NearFrontier
  <1> QED
    BY <1>1, <1>2, <1>3

\* A block owner runs its block.
LEMMA RunBlockStep ==
    ASSUME ChainAssumption, TInv, RunBlock
    PROVE  TInv'
  <1> PICK at \in DOMAIN Chain : at = work.at
    BY DEF RunBlock
  <1> DEFINE r == Chain[at]
             S == SlotsOf(work.batch)
  <1>1. /\ Advance(r, S) /\ active' = [active EXCEPT ![r] = work.batch[Len(work.batch)]]
        /\ work' = [work EXCEPT !.at = at + 1]
        /\ checkpoint' = checkpoint /\ alive' = alive /\ req' = req /\ rep' = rep
        /\ host' = host /\ gen' = gen /\ ctl' = ctl
    BY DEF RunBlock
  <1>2. /\ Working /\ work.batch \in Batch
        /\ \A i \in DOMAIN Chain : i >= at => \A s \in S : tokens[Chain[i]][s] = host[s]
        /\ ctl.pc # "idle" /\ (ctl.pc = "ring" => work.batch = ctl.batch)
        /\ (ctl.pc \in {"send", "recv"} => ctl.then = "halted")
    BY DEF TInv, Frontier, WorkOK, Working
  <1>3. /\ Len(Chain) \in Nat /\ DOMAIN Chain = 1..Len(Chain)
        /\ \A i \in DOMAIN Chain : Chain[i] \in Ranks
        /\ \A i, j \in DOMAIN Chain : Chain[i] = Chain[j] => i = j
    BY DEF ChainAssumption, Ranks
  <1>4. /\ work.batch \in Seq(Slots) /\ S \subseteq Slots /\ work.batch[Len(work.batch)] \in Slots
        /\ r \in Ranks
    BY <1>2, <1>3 DEF Batch, SlotsOf
  <1>5. \A s \in S : tokens[r][s] = host[s]
    BY <1>2, <1>3
  <1> HIDE DEF r, S
  <1>6. /\ tokens' \in [Ranks -> [Slots -> Nat]] /\ NearFrontier'
        /\ \A q \in Ranks \ {r} : tokens'[q] = tokens[q]
        /\ \A s \in Slots : tokens'[r][s] = IF s \in S THEN host[s] + 1 ELSE tokens[r][s]
    BY <1>1, <1>4, <1>5, AdvanceFacts DEF TInv, Frontier
  <1>7. /\ work'.at = at + 1 /\ work'.batch = work.batch
        /\ work' \in [at : 0..(Len(Chain) + 1), batch : Seq(Slots)]
    <2>1. work \in [at : 0..(Len(Chain) + 1), batch : Seq(Slots)]
      BY DEF TInv, Types
    <2>2. at + 1 \in 0..(Len(Chain) + 1)
      BY <1>3
    <2> QED
      BY <1>1, <2>1, <2>2
  <1>8. Types'
    BY <1>1, <1>4, <1>6, <1>7 DEF TInv, Types
  <1>9. Frontier'
    <2>1. WorkOK'
      <3>1. ASSUME NEW i \in DOMAIN Chain, i >= at + 1, NEW s \in S
            PROVE  tokens'[Chain[i]][s] = host[s]
        <4>1. i # at /\ i >= at
          BY <1>3, <3>1
        <4>2. Chain[i] \in Ranks \ {r}
          BY <1>3, <4>1 DEF r
        <4> QED
          BY <1>2, <1>6, <4>1, <4>2
      <3> QED
        BY <1>1, <1>2, <1>7, <3>1 DEF WorkOK, S
    <2>2. PreparesOK'
      BY <1>1, <1>2 DEF TInv, Frontier, PreparesOK
    <2> QED
      BY <1>6, <2>1, <2>2 DEF Frontier
  <1>10. AllAlive' <=> AllAlive
    BY <1>1 DEF AllAlive
  <1>11. CASE ctl.pc = "ring"
    <2>1. S = SlotsOf(ctl.batch)
      BY <1>2, <1>11 DEF S
    <2>2. Protected(S)'
      <3>1. Protected(S)
        BY <1>11, <2>1 DEF TInv, StepOK
      <3>2. Quiet'
        BY <1>1, <3>1 DEF Protected, Quiet
      <3>3. ASSUME NEW q \in Ranks, NEW s \in Slots
            PROVE  IF s \in S THEN checkpoint'[q][s] = host[s]
                   ELSE checkpoint'[q][s] = None /\ tokens'[q][s] = host[s]
        BY <1>1, <1>6, <3>1 DEF Protected
      <3> QED
        BY <1>1, <3>2, <3>3 DEF Protected, S
    <2>3. ASSUME NEW i \in DOMAIN Chain, i < at + 1, NEW s \in S
          PROVE  tokens'[Chain[i]][s] = host[s] + 1
      <3>1. at # 0 /\ (i = at \/ i < at)
        BY <1>3, <2>3
      <3>2. CASE i = at
        BY <1>4, <1>6, <3>2 DEF r
      <3>3. CASE i < at
        <4>1. Chain[i] \in Ranks \ {r}
          BY <1>3, <3>3 DEF r
        <4>2. tokens[Chain[i]][s] = host[s] + 1
          BY <1>11, <2>1, <3>1, <3>3 DEF TInv, StepOK
        <4> QED
          BY <1>6, <4>1, <4>2
      <3> QED
        BY <3>1, <3>2, <3>3
    <2>4. StepOK'
      <3>1. \A s \in SlotsOf(ctl.batch) : host[s] < MaxSteps
        BY <1>11 DEF TInv, StepOK
      <3>2. Protected(SlotsOf(ctl.batch))'
        BY <1>1, <2>1, <2>2 DEF S, Protected
      <3> QED
        BY <1>1, <1>7, <1>11, <2>1, <2>3, <3>1, <3>2 DEF StepOK
    <2> QED
      BY <1>8, <1>9, <2>4 DEF TInv
  <1>12. CASE ctl.pc # "ring"
    <2>1. ~AllAlive \/ ctl.pc \notin {"halted", "failed"}
      BY <1>2 DEF TInv, StepOK
    <2>2. ctl.pc \in {"send", "recv"} => ~AllAlive
      BY <1>2 DEF TInv, StepOK, TxnOK
    <2>3. StepOK'
      BY <1>1, <1>2, <1>10, <1>12, <2>1, <2>2 DEF TInv, StepOK
    <2> QED
      BY <1>8, <1>9, <2>3 DEF TInv
  <1> QED
    BY <1>11, <1>12

\* Rank 0's own block fails half-way.
LEMMA OwnBlockStep ==
    ASSUME ChainAssumption, TInv, OwnBlockFails
    PROVE  TInv'
  <1>1. PICK k \in 0..(Len(ctl.batch) - 1) :
           /\ ctl' = [pc |-> "failed", batch |-> ctl.batch]
           /\ Advance(0, {ctl.batch[i] : i \in 1..k})
    BY DEF OwnBlockFails
  <1> DEFINE S == {ctl.batch[i] : i \in 1..k}
             B == SlotsOf(ctl.batch)
  <1>2. /\ ctl.pc = "ring" /\ Working /\ Chain[work.at] = 0 /\ work' = NoWork
        /\ checkpoint' = checkpoint /\ active' = active /\ alive' = alive /\ req' = req
        /\ rep' = rep /\ host' = host /\ gen' = gen
    BY DEF OwnBlockFails, Working
  <1>3. ctl.batch \in Batch /\ ctl \in InRing
    BY <1>2 DEF TInv, Types, Idle, Halted, InTxn, InRing
  <1>4. ctl.batch \in Seq(Slots)
    BY <1>3 DEF Batch
  <1>5. S \subseteq B /\ B \subseteq Slots
    BY <1>4 DEF SlotsOf
  <1>6. 0 \in Ranks
    BY DEF ChainAssumption, Ranks
  <1>7. \A s \in B : tokens[0][s] = host[s]
    <2>1. work.at >= work.at
      BY <1>2 DEF Working, ChainAssumption
    <2> QED
      BY <1>2, <2>1 DEF TInv, Frontier, WorkOK, Working
  <1> HIDE DEF S, B
  <1>8. /\ tokens' \in [Ranks -> [Slots -> Nat]] /\ NearFrontier'
        /\ \A q \in Ranks \ {0} : tokens'[q] = tokens[q]
        /\ \A s \in Slots : tokens'[0][s] = IF s \in S THEN host[s] + 1 ELSE tokens[0][s]
    <2>1. Advance(0, S)
      BY <1>1 DEF S
    <2> QED
      BY <1>2, <1>5, <1>6, <1>7, <2>1, AdvanceFacts DEF TInv, Frontier
  <1>9. ctl'.pc = "failed" /\ ctl'.batch = ctl.batch /\ ctl' \in InRing
    BY <1>1, <1>3 DEF InRing
  <1>10. NoWork \in [at : 0..(Len(Chain) + 1), batch : Seq(Slots)] /\ (~Working)'
    BY <1>2 DEF NoWork, Working, ChainAssumption
  <1>11. Types'
    <2>1. ctl' \in {Idle, Halted} \cup InTxn \cup InRing
      BY <1>9
    <2> QED
      BY <1>2, <1>8, <1>10, <2>1 DEF TInv, Types
  <1>12. Protected(B)
    BY <1>2 DEF TInv, StepOK, B
  <1>13. Quiet'
    BY <1>2, <1>12 DEF Protected, Quiet
  <1>14. Frontier'
    BY <1>8, <1>10, <1>13 DEF Frontier, WorkOK, PreparesOK, Quiet
  <1>15. Protected(B)'
    <2>1. ASSUME NEW q \in Ranks, NEW s \in Slots
          PROVE  IF s \in B THEN checkpoint'[q][s] = host[s]
                 ELSE checkpoint'[q][s] = None /\ tokens'[q][s] = host[s]
      BY <1>2, <1>5, <1>8, <1>12 DEF Protected
    <2>2. B' = B
      BY <1>9 DEF B
    <2> QED
      BY <1>2, <1>13, <2>1, <2>2 DEF Protected
  <1>16. StepOK'
    <2>1. \A s \in B : host[s] < MaxSteps
      BY <1>2 DEF TInv, StepOK, B
    <2> QED
      BY <1>2, <1>9, <1>10, <1>15, <2>1 DEF StepOK, B
  <1> QED
    BY <1>11, <1>14, <1>16 DEF TInv

\* Rank 0 finds a connection broken while the batch is out.
LEMMA RingBreaksStep ==
    ASSUME ChainAssumption, TInv, RingBreaks
    PROVE  TInv'
  <1>1. /\ ctl.pc = "ring" /\ ~AllAlive /\ ctl' = [pc |-> "failed", batch |-> ctl.batch]
        /\ tokens' = tokens /\ checkpoint' = checkpoint /\ active' = active /\ alive' = alive
        /\ req' = req /\ rep' = rep /\ work' = work /\ host' = host /\ gen' = gen
    BY DEF RingBreaks, AllAlive
  <1>2. ctl.batch \in Batch
    BY <1>1 DEF TInv, Types, Idle, Halted, InTxn, InRing
  <1>3. ctl'.pc = "failed" /\ ctl'.batch = ctl.batch /\ ctl' \in InRing
    BY <1>1, <1>2 DEF InRing
  <1>4. Types'
    <2>1. ctl' \in {Idle, Halted} \cup InTxn \cup InRing
      BY <1>3
    <2> QED
      BY <1>1, <2>1 DEF TInv, Types
  <1>5. Frontier'
    BY <1>1, <1>3 DEF TInv, Frontier, NearFrontier, WorkOK, PreparesOK, Working
  <1>6. ~AllAlive'
    BY <1>1 DEF AllAlive
  <1>7. StepOK'
    <2>1. \A s \in SlotsOf(ctl.batch) : host[s] < MaxSteps
      BY <1>1 DEF TInv, StepOK
    <2> QED
      BY <1>1, <1>3, <1>6, <2>1 DEF StepOK
  <1> QED
    BY <1>4, <1>5, <1>7 DEF TInv

\* A sweep over a whole batch begins, with the batch protected and off the ring.
LEMMA SweepBegins ==
    ASSUME ChainAssumption, TInv, ~Working, NEW op \in {"commit", "restore"}, NEW b \in Batch,
           NEW batch \in {b, <<>>}, NEW then \in {"idle", "halted"},
           Protected(SlotsOf(b)),
           op = "commit" => /\ then = "idle" /\ batch = b
                            /\ \A r \in Ranks : \A s \in SlotsOf(b) : tokens[r][s] = host[s] + 1,
           op = "restore" /\ then = "idle" => batch = <<>>,
           \A s \in SlotsOf(b) : host[s] < MaxSteps,
           Apply(0, op, b[1]), gen' = gen + 1,
           ctl' = [pc |-> "send", todo |-> All(op, b), batch |-> batch, then |-> then, peer |-> 1],
           work' = work, host' = host, alive' = alive, req' = req, rep' = rep
    PROVE  TInv'
  <1> DEFINE todo == All(op, b)
  <1>1. op \in Ops
    BY DEF Ops
  <1>2. /\ todo \in Seq(Txns) \ {<<>>} /\ DOMAIN todo = DOMAIN b
        /\ \A i \in DOMAIN b : todo[i].op = op
        /\ Head(todo).op = op /\ Head(todo).slot = b[1]
        /\ Distinct(todo) /\ SlotsLeft(todo) = SlotsOf(b)
    BY <1>1, AllFacts
  <1> HIDE DEF todo
  <1>3. b # <<>>
    BY DEF Batch
  <1>4. TodoOK(todo, batch, then)
    BY <1>2, <1>3 DEF TodoOK
  <1>5. \A r \in Ranks : OwnerAt(tokens[r], checkpoint[r], host, op, SlotsOf(batch), SlotsLeft(todo))
    <2> SUFFICES ASSUME NEW r \in Ranks
        PROVE  OwnerAt(tokens[r], checkpoint[r], host, op, SlotsOf(batch), SlotsLeft(todo))
      OBVIOUS
    <2>1. CASE op = "commit"
      BY <1>2, <2>1 DEF OwnerAt, Protected
    <2>2. CASE op = "restore"
      BY <1>2, <2>2 DEF OwnerAt, Protected
    <2> QED
      BY <2>1, <2>2
  <1>6. Quiet'
    BY DEF Protected, Quiet
  <1>7. rep' \in [Peers -> Seq(Answer)]
    BY DEF TInv, Types
  <1>8. \A s \in SlotsOf(batch) : host[s] < MaxSteps
    BY DEF SlotsOf
  <1>9. op = "commit" => SlotsLeft(todo) \subseteq SlotsOf(batch)
    BY <1>2
  <1>10. ctl' = [pc |-> "send", todo |-> todo, batch |-> batch, then |-> then, peer |-> 1]
    BY DEF todo
  <1>11. Apply(0, Head(todo).op, Head(todo).slot)
    BY <1>2
  <1>12. batch \in Batch \cup {<<>>} /\ then \in {"ring", "idle", "halted"}
    OBVIOUS
  <1>13. \A r \in Ranks : OwnerAt(tokens[r], checkpoint[r], host, Head(todo).op, SlotsOf(batch),
                                  SlotsLeft(todo))
    BY <1>2, <1>5
  <1> QED
    BY <1>2, <1>4, <1>6, <1>7, <1>8, <1>9, <1>10, <1>11, <1>12, <1>13, BeginTxn DEF TInv

\* The clean-up after a failed ring pass.
LEMMA StepRestoreStep ==
    ASSUME ChainAssumption, TInv, StepRestore
    PROVE  TInv'
  <1> DEFINE b == ctl.batch
  <1>1. /\ ctl.pc = "failed" /\ Start(All("restore", b), b, "halted")
        /\ alive' = alive /\ req' = req /\ rep' = rep
    BY DEF StepRestore
  <1>2. b \in Batch
    BY <1>1 DEF TInv, Types, Idle, Halted, InTxn, InRing
  <1>3. \A s \in SlotsOf(b) : host[s] < MaxSteps
    BY <1>1 DEF TInv, StepOK
  <1>4. "restore" \in Ops
    BY DEF Ops
  <1>5. /\ All("restore", b) \in Seq(Txns) \ {<<>>}
        /\ \A i \in DOMAIN All("restore", b) : All("restore", b)[i].op = "restore"
        /\ Head(All("restore", b)).op = "restore" /\ Head(All("restore", b)).slot = b[1]
    BY <1>2, <1>4, AllFacts
  <1>6. CASE AllAlive
    <2>1. Protected(SlotsOf(b)) /\ ~Working
      BY <1>1, <1>6 DEF TInv, StepOK
    <2>2. /\ Apply(0, "restore", b[1]) /\ gen' = gen + 1
          /\ ctl' = [pc |-> "send", todo |-> All("restore", b), batch |-> b, then |-> "halted",
                     peer |-> 1]
          /\ work' = work /\ host' = host
      BY <1>1, <1>5 DEF Start
    <2> HIDE DEF b
    <2> QED
      BY <1>1, <1>2, <1>3, <2>1, <2>2, SweepBegins
  <1>7. CASE ~AllAlive
    <2>1. rep' \in [Peers -> Seq(Answer)]
      BY <1>1 DEF TInv, Types
    <2> DEFINE t == All("restore", b)
    <2> HIDE DEF b, t
    <2>2. t \in Seq(Txns) /\ \A i \in DOMAIN t : t[i].op = "restore"
      BY <1>5 DEF t
    <2>3. Start(t, b, "halted")
      BY <1>1 DEF t
    <2> QED
      BY <1>1, <1>2, <1>3, <1>7, <2>1, <2>2, <2>3, FailStep DEF TInv
  <1> QED
    BY <1>6, <1>7

\* The result of the ring is back: commit, abort or failure.
LEMMA StepResultStep ==
    ASSUME ChainAssumption, TInv, NEW o \in {"abort", "commit", "fail"}, StepResult(o)
    PROVE  TInv'
  <1> DEFINE b == ctl.batch
  <1>1. /\ ctl.pc = "ring" /\ work.at = Len(Chain) + 1
        /\ alive' = alive /\ req' = req /\ rep' = rep
    BY DEF StepResult
  <1>2. /\ Len(Chain) \in Nat /\ DOMAIN Chain = 1..Len(Chain)
        /\ Ranks = {Chain[i] : i \in DOMAIN Chain}
    BY DEF ChainAssumption, Ranks
  <1>3. ~Working /\ work.at # 0
    BY <1>1, <1>2 DEF Working
  <1>4. b \in Batch
    BY <1>1 DEF TInv, Types, Idle, Halted, InTxn, InRing
  <1>5. /\ \A s \in SlotsOf(b) : host[s] < MaxSteps
        /\ Protected(SlotsOf(b))
        /\ \A i \in DOMAIN Chain : i < work.at => \A s \in SlotsOf(b) : tokens[Chain[i]][s] = host[s] + 1
    BY <1>1, <1>3 DEF TInv, StepOK
  <1>6. \A r \in Ranks : \A s \in SlotsOf(b) : tokens[r][s] = host[s] + 1
    <2>1. \A i \in DOMAIN Chain : i < work.at
      BY <1>1, <1>2
    <2> QED
      BY <1>2, <1>5, <2>1
  <1>7. ASSUME NEW op \in Ops
        PROVE  /\ All(op, b) # <<>>
               /\ Head(All(op, b)).op = op /\ Head(All(op, b)).slot = b[1]
    BY <1>4, <1>7, AllFacts
  <1>8. CASE o = "abort"
    <2>1. /\ Apply(0, "restore", b[1]) /\ gen' = gen + 1
          /\ ctl' = [pc |-> "send", todo |-> All("restore", b), batch |-> <<>>, then |-> "idle",
                     peer |-> 1]
          /\ work' = work /\ host' = host
      BY <1>8 DEF StepResult, Retry
    <2> HIDE DEF b
    <2> QED
      BY <1>1, <1>3, <1>4, <1>5, <2>1, SweepBegins
  <1>9. CASE o = "commit"
    <2>1. Start(All("commit", b), b, "idle")
      BY <1>9 DEF StepResult
    <2>2. /\ Apply(0, "commit", b[1]) /\ gen' = gen + 1
          /\ ctl' = [pc |-> "send", todo |-> All("commit", b), batch |-> b, then |-> "idle",
                     peer |-> 1]
          /\ work' = work /\ host' = host
      BY <1>7, <2>1 DEF Start, Ops
    <2> HIDE DEF b
    <2> QED
      BY <1>1, <1>3, <1>4, <1>5, <1>6, <2>2, SweepBegins
  <1>10. CASE o = "fail"
    <2>1. Start(All("restore", b), b, "halted")
      BY <1>10 DEF StepResult
    <2>2. /\ Apply(0, "restore", b[1]) /\ gen' = gen + 1
          /\ ctl' = [pc |-> "send", todo |-> All("restore", b), batch |-> b, then |-> "halted",
                     peer |-> 1]
          /\ work' = work /\ host' = host
      BY <1>7, <2>1 DEF Start, Ops
    <2> HIDE DEF b
    <2> QED
      BY <1>1, <1>3, <1>4, <1>5, <2>2, SweepBegins
  <1> QED
    BY <1>8, <1>9, <1>10
-----------------------------------------------------------------------------
(* The theorem. *)

\* At first every owner is at the frontier and nothing is under way.
LEMMA InitOK ==
    ASSUME ChainAssumption, Init
    PROVE  TInv
  <1>1. ctl.pc = "idle" /\ ctl = Idle
    BY DEF Init, Idle
  <1>2. ~Working /\ NoWork \in [at : 0..(Len(Chain) + 1), batch : Seq(Slots)]
    BY DEF Init, NoWork, Working, ChainAssumption
  <1>3. Types
    <2>1. /\ tokens \in [Ranks -> [Slots -> Nat]]
          /\ checkpoint \in [Ranks -> [Slots -> Nat \cup {None}]]
          /\ active \in [Ranks -> Slots] /\ host \in [Slots -> 0..MaxSteps]
      BY DEF Init, ChainAssumption
    <2>2. alive \in [Peers -> BOOLEAN]
      BY DEF Init
    <2>3. <<>> \in Seq(Message) /\ <<>> \in Seq(Answer)
      OBVIOUS
    <2>4. req \in [Peers -> Seq(Message)] /\ rep \in [Peers -> Seq(Answer)]
      BY <2>3 DEF Init
    <2> QED
      BY <1>1, <1>2, <2>1, <2>2, <2>4 DEF Init, Types
  <1>4. AtRest
    BY DEF Init, AtRest, Quiet
  <1>5. Frontier
    <2>1. NearFrontier
      BY <1>4 DEF AtRest, NearFrontier
    <2>2. PreparesOK
      BY <1>4 DEF AtRest, Quiet, PreparesOK
    <2> QED
      BY <1>2, <2>1, <2>2 DEF Frontier, WorkOK
  <1>6. StepOK
    BY <1>1, <1>4 DEF StepOK, Init
  <1> QED
    BY <1>3, <1>5, <1>6 DEF TInv

\* Every step preserves the invariant.
LEMMA NextOK ==
    ASSUME ChainAssumption, TInv, [Next]_vars
    PROVE  TInv'
  <1>1. CASE UNCHANGED vars
    <2>1. /\ tokens' = tokens /\ checkpoint' = checkpoint /\ active' = active /\ alive' = alive
          /\ req' = req /\ rep' = rep /\ work' = work /\ host' = host /\ gen' = gen /\ ctl' = ctl
      BY <1>1 DEF vars
    <2>2. Types'
      BY <2>1 DEF TInv, Types
    <2>3. Frontier'
      BY <2>1 DEF TInv, Frontier, NearFrontier, WorkOK, PreparesOK, Working
    <2>4. /\ AllAlive' <=> AllAlive
          /\ Working' <=> Working
          /\ Quiet' <=> Quiet
      BY <2>1 DEF AllAlive, Working, Quiet
    <2>5. /\ AtRest => AtRest'
          /\ Protected(SlotsOf(ctl.batch)) => Protected(SlotsOf(ctl.batch))'
      BY <2>1, <2>4 DEF AtRest, Protected
    <2>6. TxnOK => TxnOK'
      <3>1. /\ Request' = Request /\ Expected' = Expected
            /\ \A q \in Peers : (Told(q)' <=> Told(q)) /\ (Heard(q)' <=> Heard(q))
            /\ \A r \in Ranks : Applied(r)' <=> Applied(r)
        BY <2>1 DEF Request, Expected, Told, Heard, Applied
      <3>2. ASSUME NEW q \in Peers, LinkOK(q) PROVE LinkOK(q)'
        BY <2>1, <3>1, <3>2 DEF LinkOK
      <3> QED
        BY <2>1, <2>4, <3>1, <3>2 DEF TxnOK
    <2>7. StepOK'
      BY <2>1, <2>4, <2>5, <2>6 DEF TInv, StepOK
    <2> QED
      BY <2>2, <2>3, <2>7 DEF TInv
  <1>2. CASE Next /\ ~UNCHANGED vars
    BY <1>2, HandleStep, DieStep, StepBeginStep, LocalPrepareStep, SendStep, ReceiveStep,
       RunBlockStep, OwnBlockStep, RingBreaksStep, StepRestoreStep, StepResultStep
       DEF Next, StepReturns, Over
  <1> QED
    BY <1>1, <1>2

\* What the invariant is for.
LEMMA TInvImplies ==
    ASSUME ChainAssumption, TInv
    PROVE  TransactionInv
  <1>1. TypeOK
    <2>1. \A r \in Ranks, s \in Slots : /\ tokens[r][s] \in 0..(MaxSteps + 1)
                                        /\ checkpoint[r][s] \in (0..MaxSteps) \cup {None}
      <3> SUFFICES ASSUME NEW r \in Ranks, NEW s \in Slots
          PROVE  /\ tokens[r][s] \in 0..(MaxSteps + 1)
                 /\ checkpoint[r][s] \in (0..MaxSteps) \cup {None}
        OBVIOUS
      <3>1. host[s] \in 0..MaxSteps /\ MaxSteps \in Nat
        BY DEF TInv, Types, ChainAssumption
      <3>2. tokens[r][s] \in {host[s], host[s] + 1} /\ checkpoint[r][s] \in {None, host[s]}
        BY DEF TInv, Frontier, NearFrontier
      <3> QED
        BY <3>1, <3>2
    <2>2. ctl.pc \in {"idle", "send", "recv", "ring", "failed", "halted"}
      BY DEF TInv, Types, Idle, Halted, InTxn, InRing
    <2> QED
      BY <2>1, <2>2 DEF TypeOK, TInv, Types
  <1>2. OwnersAgree
    BY DEF OwnersAgree, Resting, TInv, StepOK, AtRest, Quiet, AllAlive
  <1>3. RingIsProtected
    <2> SUFFICES ASSUME ctl.pc = "ring", NEW r \in Ranks, NEW s \in SlotsOf(ctl.batch)
        PROVE  checkpoint[r][s] = host[s]
      BY DEF RingIsProtected
    <2>1. ctl.batch \in Batch
      BY DEF TInv, Types, Idle, Halted, InTxn, InRing
    <2>2. s \in Slots
      BY <2>1 DEF Batch, SlotsOf
    <2> QED
      BY <2>2 DEF TInv, StepOK, Protected
  <1>4. SessionZeroActive
    BY DEF SessionZeroActive, TInv, StepOK, Idle
  <1> QED
    BY <1>1, <1>2, <1>3, <1>4 DEF TransactionInv

\* The batch step on separate owners, for any number of peers, blocks and slots, with
\* workers that may die: after a step, committed, aborted or failed, owners that are all
\* alive stand at the table's frontier with no checkpoint and no message in flight; while
\* a batch is out every rank holds the checkpoint of every slot; after a committed or
\* aborted step every owner is on session 0 (coordinator_owner_transaction,
\* coordinator_decode_batch_step, handle_owner_session_transaction).
THEOREM TransactionCorrect ==
    ASSUME ChainAssumption
    PROVE  Spec => []TransactionInv
  <1>1. Init => TInv
    BY InitOK
  <1>2. TInv /\ [Next]_vars => TInv'
    BY NextOK
  <1>3. TInv => TransactionInv
    BY TInvImplies
  <1> QED
    BY <1>1, <1>2, <1>3, PTL DEF Spec
-----------------------------------------------------------------------------
(***************************************************************************)
(* The layer ring, RingBlocks: for any chain of block owners in which      *)
(* neighbours differ and the ends are not rank 0, any window, link         *)
(* capacity and chunk size, BlocksInv is an invariant.                     *)
(*                                                                         *)
(* A link's buffer and the send under way behind it are one pipe, so that  *)
(* the kernel taking a frame changes nothing.  While layer work is under   *)
(* way the invariant, Flow, relates the pipes to the owners' frontiers:    *)
(* what rank 0 has issued, what each block has absorbed and what has come  *)
(* back descend along the chain, and the frames of each stage cover the    *)
(* difference in order.  A head of a pipe is then always the frame its     *)
(* reader expects, and equal ends mean an empty ring.  It is claimed until *)
(* a call fails with a worker gone (Doomed): the runtime must then be      *)
(* reopened.                                                               *)
(***************************************************************************)

\* The stages of a chunk's way: 1 is the send to the first owner, LastBlock + 1 the
\* result; the frames of stage s travel on the link Route(s).
LastBlock == Len(BlockOwner)
Stages == 1..(LastBlock + 1)
Route(s) == <<IF s = 1 THEN 0 ELSE BlockOwner[s - 1],
              IF s = LastBlock + 1 THEN 0 ELSE BlockOwner[s]>>
LayerKinds == {"work", "decode"}
EndKinds   == {"result", "token"}
SyncKinds  == {"fetch", "state"}
\* The stage a frame is in and the token after its last one.
Stage(m) == IF m.kind \in LayerKinds THEN m.block ELSE LastBlock + 1
After(m) == m.first + m.count
\* The frames the ring can carry, and the link each belongs on.
RingFrames ==
    {m \in [kind : LayerKinds \cup EndKinds \cup SyncKinds, block : Blocks,
            first : 0..MaxTokens, count : 0..MaxTokens, session : 1..MaxSession] :
       /\ m.kind \notin SyncKinds => m.count > 0 /\ After(m) <= MaxTokens
       /\ m.kind = "decode" => m.count = 1
       /\ m.kind \in SyncKinds => BlockOwner[m.block] # 0}
Way(m) == IF m.kind = "fetch" THEN <<0, BlockOwner[m.block]>>
          ELSE IF m.kind = "state" THEN <<BlockOwner[m.block], 0>>
          ELSE Route(Stage(m))

\* n is what an owner sends on for m.
Onward(m, n) ==
    n = IF m.block < LastBlock THEN [m EXCEPT !.block = @ + 1]
        ELSE [m EXCEPT !.kind = IF @ = "work" THEN "result" ELSE "token"]

\* What is on the links, with the sends under way behind it.
SendsOf(o, w) == [r \in RingRanks |-> IF r = 0 THEN o ELSE w[r]]
Sending == SendsOf(out, wout)
Sent(S, l) == IF S[l[1]] # <<>> /\ S[l[1]][1] = l[2] THEN <<S[l[1]][2]>> ELSE <<>>
PipeOf(L, S) == [l \in Links |-> L[l] \o Sent(S, l)]
Pipe == PipeOf(link, Sending)
\* P and Q are the pipes before and after a frame is taken from u, or n is added to v.
Pipes == [Links -> Seq(RingFrames)]
Taken(P, Q, u) == P[u] # <<>> /\ Q[u] = Tail(P[u]) /\ \A l \in Links : l # u => Q[l] = P[l]
Added(P, Q, v, n) == Q[v] = Append(P[v], n) /\ \A l \in Links : l # v => Q[l] = P[l]
Updated(w, x, r, y) == x[r] = y /\ \A q \in Workers : q # r => x[q] = w[q]
\* Every frame is on its link; only layer work and results are under way.
OnLink(P, l) == {P[l][i] : i \in 1..Len(P[l])}
Routed(P) == \A l \in Links : \A m \in OnLink(P, l) : Way(m) = l
KindsIn(P, ks) == \A l \in Links : \A m \in OnLink(P, l) : m.kind \in ks
Layered(P) == Routed(P) /\ KindsIn(P, LayerKinds \cup EndKinds)

\* Types of rank 0's and the owners' state.
SlotTable == [0..(Frames - 1) -> [active : BOOLEAN, first : 0..MaxTokens, count : 0..MaxTokens]]
RingOps == {"idle", "prefill", "decode", "sync", "begin", "failed", "dead", "mismatch"}
StateOK ==
    /\ call \in [op : RingOps, first : 0..MaxTokens, count : 0..MaxTokens, issued : Nat,
                 aborted : BOOLEAN, left : SUBSET Nat]
    /\ slot \in SlotTable
    /\ chunk \in Nat /\ prefilled \in 0..MaxTokens /\ pos \in 0..MaxTokens
    /\ session \in 1..MaxSession /\ transport \in {"ready", "pending", "poisoned"}
    /\ mirror \in [Blocks -> 0..MaxTokens] /\ frontier \in [Blocks -> 0..MaxTokens]
    /\ wsession \in [Workers -> Nat] /\ died \in [Workers -> {"runs", "crash", "stale", "peer"}]
    /\ faults \in Nat /\ ringDecode \in BOOLEAN
    /\ \A l \in Links : Len(link[l]) <= LinkCap
    /\ InFlight <= Window
\* Types of the links and of the sends under way.
WireTyped(L, o, w) ==
    /\ L \in Pipes
    /\ o = <<>> \/ o \in Workers \X RingFrames
    /\ \A r \in Workers : w[r] = <<>> \/ (w[r] \in RingRanks \X RingFrames /\ w[r][1] # r)
WiresOK == WireTyped(link, out, wout) /\ DOMAIN wout = Workers /\ Routed(Pipe)

\* bd[s] is where stage s has got to, cov[s] what it has been given: the frames of
\* stage s cover the tokens between the two without a gap or an overlap, in order.
Covers(P, bd, cov) ==
    /\ \A l \in Links : \A i \in 1..Len(P[l]) :
         /\ bd[Stage(P[l][i])] <= P[l][i].first
         /\ After(P[l][i]) <= cov[Stage(P[l][i])]
         /\ \/ P[l][i].first = bd[Stage(P[l][i])]
            \/ \E j \in 1..(i - 1) : Stage(P[l][j]) = Stage(P[l][i]) /\ After(P[l][j]) = P[l][i].first
    /\ \A l \in Links : \A i, j \in 1..Len(P[l]) :
         (i < j /\ Stage(P[l][i]) = Stage(P[l][j])) => After(P[l][i]) <= P[l][j].first
    /\ \A s \in Stages :
         \/ bd[s] = cov[s]
         \/ \E i \in 1..Len(P[Route(s)]) : Stage(P[Route(s)][i]) = s /\ After(P[Route(s)][i]) = cov[s]
\* The points a call has reached: 0 is what rank 0 has issued, b what block b has
\* absorbed, LastBlock + 1 what has come back.
Points == [0..(LastBlock + 1) -> Nat]
Moved(bd, c, s, x) == c[s] = x /\ \A t \in 0..(LastBlock + 1) : t # s => c[t] = bd[t]
Descends(bd) == \A a, b \in 0..(LastBlock + 1) : a <= b => bd[b] <= bd[a]
Reach(bd) == [s \in Stages |-> bd[s - 1]]
\* No point is ahead of the one before it, and the frames make up the difference.
Flow(P, bd) == Descends(bd) /\ Covers(P, bd, Reach(bd))
Bounds(lo, fr, hi) ==
    [s \in 0..(LastBlock + 1) |-> IF s = 0 THEN hi ELSE IF s = LastBlock + 1 THEN lo ELSE fr[s]]

\* The slots in use are the ones issued last, a run that ends before slot k, and
\* they hold consecutive chunks of lo to hi.
Dist(f, k) == IF f < k THEN k - f ELSE k - f + Frames
SlotsOrdered(sl, k, lo, hi) ==
    /\ \E n \in 0..Frames : \A f \in 0..(Frames - 1) : sl[f].active <=> Dist(f, k) <= n
    /\ \A f \in 0..(Frames - 1) : sl[f].active =>
          sl[f].count > 0 /\ lo <= sl[f].first /\ After(sl[f]) <= hi
    /\ \A f, g \in 0..(Frames - 1) : (sl[f].active /\ sl[g].active /\ Dist(g, k) < Dist(f, k)) =>
          After(sl[f]) <= sl[g].first
    /\ lo = hi \/ \E f \in 0..(Frames - 1) : sl[f].active /\ After(sl[f]) = hi
\* Every frame in the ring belongs to a slot in use.
SlotsCover(sl, P) ==
    \A l \in Links : \A m \in OnLink(P, l) : \E f \in 0..(Frames - 1) :
       sl[f].active /\ sl[f].first = m.first /\ sl[f].count = m.count

\* The call has failed, or cannot end, with a worker gone: nothing is claimed of the
\* ring any more but its types.
Doomed == \E r \in Workers :
    died[r] # "runs" /\ (call.op \in {"failed", "dead", "mismatch"} \/ (call.op = "begin" /\ r \in call.left))
\* The first worker to end has crashed.
Causes == (\E r \in Workers : died[r] # "runs") => (\E r \in Workers : died[r] = "crash")

\* Nothing is under way.
Still == \A l \in Links : Pipe[l] = <<>>
\* Every frame and every worker is of rank 0's session.
SessionsOK ==
    /\ \A l \in Links : \A m \in OnLink(Pipe, l) : m.session = session
    /\ \A r \in Workers : wsession[r] = session \/ (call.op = "begin" /\ r \in call.left)
\* What holds at each place of rank 0: between calls, while a session begins, in a
\* prefill, after one that was given up, in a decode and in the import of states.
NotMirrored == \A b \in Blocks : mirror[b] = 0
InIdle ==
    /\ Still
    /\ IF ringDecode THEN \A b \in Blocks : frontier[b] = pos
       ELSE \/ NotMirrored /\ \A b \in Blocks : frontier[b] = pos
            \/ pos > 0 /\ \A b \in Remote : mirror[b] = pos
InBegin == Still /\ pos = 0 /\ NotMirrored /\ call.left \subseteq Workers
           /\ \A b \in Blocks : BlockOwner[b] \notin call.left => frontier[b] = 0
InCall ==
    /\ call.first = pos /\ call.first + call.count <= MaxTokens /\ call.count > 0
    /\ call.issued <= call.count
    /\ ringDecode \/ NotMirrored
    /\ KindsIn(Pipe, {"work", "result"})
    /\ Flow(Pipe, Bounds(call.first + prefilled, frontier, call.first + call.issued))
    /\ SlotsOrdered(slot, SlotOfChunk, call.first + prefilled, call.first + call.issued)
    /\ SlotsCover(slot, Pipe)
InDead ==
    /\ KindsIn(Pipe, {"work", "result"})
    /\ \E lo, hi \in 0..MaxTokens : Flow(Pipe, Bounds(lo, frontier, hi))
InDecode ==
    /\ ringDecode /\ call.first = pos /\ pos < MaxTokens
    /\ KindsIn(Pipe, {"decode", "token"})
    /\ Flow(Pipe, Bounds(pos, frontier, pos + 1))
\* The blocks asked for whose state has not come.
Awaited == {b \in Remote : b \notin call.left /\ mirror[b] = 0}
\* No two frames are about the same block.
OneEach(P) ==
    \A l, k \in Links : \A i \in 1..Len(P[l]), j \in 1..Len(P[k]) :
       P[l][i].block = P[k][j].block => l = k /\ i = j
InSync ==
    /\ ~ringDecode /\ pos > 0 /\ \A b \in Blocks : frontier[b] = pos
    /\ KindsIn(Pipe, SyncKinds)
    /\ \A l \in Links : \A m \in OnLink(Pipe, l) :
         m.first = pos /\ m.block \in Awaited /\ (m.kind = "state" => m.count = pos)
    /\ OneEach(Pipe)
    /\ \A b \in Remote : mirror[b] \in {0, pos} /\ (b \in call.left => mirror[b] = 0)
    /\ call.issued = Cardinality(Awaited)

\* The place rank 0 is in has its invariant.
Sound ==
    /\ call.op # "mismatch" /\ SessionsOK
    /\ call.op = "idle" => InIdle
    /\ call.op = "failed" => Still
    /\ call.op = "begin" => InBegin
    /\ call.op = "prefill" => InCall
    /\ call.op = "dead" => InDead
    /\ call.op = "decode" => InDecode
    /\ call.op = "sync" => InSync

\* The inductive invariant.
RingIInv == StateOK /\ WiresOK /\ Causes /\ (Doomed \/ Sound)
-----------------------------------------------------------------------------
\* Every stage of the ring has its link.
LEMMA RouteLinks ==
    ASSUME RingAssumption, NEW s \in Stages
    PROVE  Route(s) \in Links
  <1>0. LastBlock \in Nat \ {0} /\ BlockOwner \in [1..LastBlock -> Nat]
    BY DEF RingAssumption, LastBlock
  <1>1. \A b \in 1..LastBlock : BlockOwner[b] \in RingRanks
    BY DEF RingRanks, Blocks, LastBlock
  <1>2. 0 \in RingRanks
    BY DEF RingRanks
  <1>3. CASE s = 1
    BY <1>0, <1>1, <1>2, <1>3 DEF RingAssumption, Route, Links
  <1>4. CASE s = LastBlock + 1
    BY <1>0, <1>1, <1>2, <1>4 DEF RingAssumption, Route, Links, LastBlock
  <1>5. CASE s # 1 /\ s # LastBlock + 1
    <2>1. s - 1 \in 1..(LastBlock - 1) /\ s \in 1..LastBlock
      BY <1>0, <1>5 DEF Stages
    <2>2. BlockOwner[s - 1] # BlockOwner[(s - 1) + 1]
      BY <2>1 DEF RingAssumption, LastBlock
    <2>3. BlockOwner[s - 1] # BlockOwner[s] /\ BlockOwner[s - 1] \in RingRanks /\ BlockOwner[s] \in RingRanks
      BY <2>1, <2>2, <1>0, <1>1
    <2> QED
      BY <2>3, <1>5 DEF Route, Links
  <1> QED
    BY <1>3, <1>4, <1>5

\* An owner never sends to itself: consecutive stages use different links.
LEMMA RoutesDiffer ==
    ASSUME RingAssumption, NEW s \in 1..LastBlock
    PROVE  Route(s) # Route(s + 1)
  <1>0. LastBlock \in Nat \ {0}
    BY DEF RingAssumption, LastBlock
  <1>1. Route(s)[2] = BlockOwner[s] /\ Route(s + 1)[1] = BlockOwner[s]
    BY <1>0 DEF Route
  <1>2. Route(s) \in Links
    BY RouteLinks, <1>0 DEF Stages
  <1>3. Route(s)[1] # Route(s)[2]
    BY <1>2 DEF Links
  <1> QED
    BY <1>1, <1>3

\* What a frame says of itself.
LEMMA StageIs ==
    ASSUME RingAssumption, NEW m \in RingFrames
    PROVE  /\ LastBlock \in Nat \ {0} /\ Stage(m) \in Stages
           /\ m.first \in Nat /\ m.count \in Nat /\ After(m) \in Nat
           /\ m.kind \notin SyncKinds =>
                 m.count > 0 /\ Way(m) = Route(Stage(m)) /\ m.first < After(m)
  <1>0. LastBlock \in Nat \ {0}
    BY DEF RingAssumption, LastBlock
  <1>1. m.first \in Nat /\ m.count \in Nat /\ m.block \in 1..LastBlock
        /\ (m.kind \notin SyncKinds => m.count > 0)
    BY <1>0 DEF RingFrames, Blocks, LastBlock, RingAssumption
  <1>2. Stage(m) \in Stages
    BY <1>0, <1>1 DEF Stage, Stages
  <1>3. m.kind \notin SyncKinds => Way(m) = Route(Stage(m))
    BY DEF Way, SyncKinds
  <1> QED
    BY <1>0, <1>1, <1>2, <1>3 DEF After

\* The oldest frame of a link continues where its stage stands.
LEMMA HeadIsNext ==
    ASSUME RingAssumption, NEW P \in Pipes, NEW bd, NEW cov,
           Covers(P, bd, cov), NEW l \in Links, P[l] # <<>>
    PROVE  /\ P[l][1] \in RingFrames /\ P[l][1].first = bd[Stage(P[l][1])]
           /\ After(P[l][1]) <= cov[Stage(P[l][1])]
  <1> USE DEF Pipes, Points
  <1>1. Len(P[l]) \in Nat /\ Len(P[l]) >= 1 /\ 1 \in 1..Len(P[l])
    BY EmptySeq, LenProperties
  <1>2. \/ P[l][1].first = bd[Stage(P[l][1])]
        \/ \E j \in 1..(1 - 1) : Stage(P[l][j]) = Stage(P[l][1]) /\ After(P[l][j]) = P[l][1].first
    BY <1>1 DEF Covers
  <1>3. After(P[l][1]) <= cov[Stage(P[l][1])]
    BY <1>1 DEF Covers
  <1> QED
    BY <1>1, <1>2, <1>3

\* Where the frames of a call are, and what they carry.
LEMMA Located ==
    ASSUME RingAssumption, NEW P \in Pipes, Layered(P),
           NEW l \in Links, NEW i \in 1..Len(P[l])
    PROVE  /\ Stage(P[l][i]) \in Stages /\ Stage(P[l][i]) \in 0..(LastBlock + 1)
           /\ P[l][i].first \in Nat /\ After(P[l][i]) \in Nat /\ P[l][i].first < After(P[l][i])
           /\ l = Route(Stage(P[l][i]))
  <1> USE DEF Pipes, Points
  <1>1. PICK m : m = P[l][i]
    OBVIOUS
  <1>2. m \in RingFrames /\ m.kind \notin SyncKinds /\ Way(m) = l
    <2>1. m \in OnLink(P, l) /\ m \in RingFrames
      BY <1>1 DEF OnLink
    <2> QED
      BY <2>1 DEF Layered, Routed, KindsIn, LayerKinds, EndKinds, SyncKinds
  <1>3. LastBlock \in Nat
    BY <1>2, StageIs
  <1>4. Stage(m) \in Stages /\ m.first \in Nat /\ After(m) \in Nat /\ m.first < After(m) /\ l = Route(Stage(m))
    BY <1>2, StageIs
  <1> QED
    BY <1>1, <1>3, <1>4 DEF Stages

\* A stage that takes its oldest frame stands behind it.
LEMMA TakeCovers ==
    ASSUME RingAssumption, NEW P \in Pipes, NEW Q \in Pipes,
           NEW bd \in Points, NEW cov \in [Stages -> Nat],
           Covers(P, bd, cov), Layered(P),
           NEW s \in Stages, NEW u \in Links, u = Route(s), Stage(P[u][1]) = s,
           Taken(P, Q, u), NEW c \in Points, Moved(bd, c, s, After(P[u][1]))
    PROVE  Covers(Q, c, cov)
  <1>p. \A t \in Stages : t \in 0..(LastBlock + 1) /\ bd[t] \in Nat /\ c[t] \in Nat /\ cov[t] \in Nat
    <2>1. LastBlock \in Nat
      BY DEF RingAssumption, LastBlock
    <2>2. \A t \in Stages : t \in 0..(LastBlock + 1)
      BY <2>1 DEF Stages
    <2>3. \A t \in 0..(LastBlock + 1) : bd[t] \in Nat /\ c[t] \in Nat
      BY Zenon DEF Points
    <2> QED
      BY <2>2, <2>3, Zenon
  <1> USE DEF Pipes, Points, Taken
  <1>m. c[s] = After(P[u][1]) /\ \A t \in Stages : t # s => c[t] = bd[t]
    BY DEF Stages, Moved, RingAssumption, LastBlock
  <1> USE <1>m
  <1>0. LastBlock \in Nat \ {0} /\ s \in 0..(LastBlock + 1)
    BY DEF Stages, RingAssumption, LastBlock
  <1>2. /\ Len(P[u]) \in Nat /\ Len(P[u]) >= 1 /\ Len(Q[u]) = Len(P[u]) - 1
        /\ \A i \in 1..Len(Q[u]) : Q[u][i] = P[u][i + 1]
    OBVIOUS
  <1>4. \A l \in Links : /\ Len(P[l]) \in Nat /\ Len(Q[l]) \in Nat
                         /\ \A i \in 1..Len(P[l]) : P[l][i] \in RingFrames
    OBVIOUS
  <1>5. \A l \in Links : \A i \in 1..Len(P[l]) :
           /\ Stage(P[l][i]) \in Stages /\ Stage(P[l][i]) \in 0..(LastBlock + 1)
           /\ P[l][i].first \in Nat /\ After(P[l][i]) \in Nat /\ P[l][i].first < After(P[l][i])
           /\ l = Route(Stage(P[l][i]))
    BY Located
  <1>6. /\ P[u][1].first = bd[s] /\ After(P[u][1]) <= cov[s] /\ After(P[u][1]) \in Nat
        /\ P[u][1].first < After(P[u][1])
    <2>1. P[u][1].first = bd[Stage(P[u][1])] /\ After(P[u][1]) <= cov[Stage(P[u][1])]
      BY HeadIsNext, ZenonT(60)
    <2>2. 1 \in 1..Len(P[u])
      BY <1>2
    <2>3. After(P[u][1]) \in Nat /\ P[u][1].first < After(P[u][1])
      BY <2>2, <1>5
    <2> QED
      BY <2>1, <2>3
  <1>7. \A l \in Links : \A i \in 1..Len(Q[l]) :
           \/ l = u /\ i + 1 \in 1..Len(P[u]) /\ Q[l][i] = P[u][i + 1]
           \/ l # u /\ i \in 1..Len(P[l]) /\ Q[l][i] = P[l][i] /\ Stage(Q[l][i]) # s
    <2> SUFFICES ASSUME NEW l \in Links, NEW i \in 1..Len(Q[l])
                 PROVE \/ l = u /\ i + 1 \in 1..Len(P[u]) /\ Q[l][i] = P[u][i + 1]
                       \/ l # u /\ i \in 1..Len(P[l]) /\ Q[l][i] = P[l][i] /\ Stage(Q[l][i]) # s
      OBVIOUS
    <2>1. CASE l = u
      <3>1. i \in 1..Len(Q[u]) /\ Q[l][i] = Q[u][i]
        BY <2>1
      <3>2. i + 1 \in 1..Len(P[u]) /\ Q[u][i] = P[u][i + 1]
        BY <3>1, <1>2
      <3> QED
        BY <3>1, <3>2, <2>1
    <2>2. CASE l # u
      <3>1. Q[l] = P[l]
        BY <2>2
      <3>2. i \in 1..Len(P[l])
        BY <3>1
      <3>3. Stage(P[l][i]) # s
        BY <3>2, <2>2, <1>5
      <3> QED
        BY <3>1, <3>2, <3>3, <2>2
    <2> QED
      BY <2>1, <2>2
  <1>8. \A t \in Stages : t \in 0..(LastBlock + 1) /\ bd[t] \in Nat /\ c[t] \in Nat /\ cov[t] \in Nat
    BY <1>p, ZenonT(60)
  <1>a. ASSUME NEW l \in Links, NEW i \in 1..Len(Q[l])
        PROVE  /\ c[Stage(Q[l][i])] <= Q[l][i].first
               /\ After(Q[l][i]) <= cov[Stage(Q[l][i])]
               /\ \/ Q[l][i].first = c[Stage(Q[l][i])]
                  \/ \E j \in 1..(i - 1) : Stage(Q[l][j]) = Stage(Q[l][i]) /\ After(Q[l][j]) = Q[l][i].first
    <2>1. CASE l # u
      <3>1. Q[l] = P[l] /\ i \in 1..Len(P[l]) /\ Stage(P[l][i]) # s /\ Stage(P[l][i]) \in Stages
        BY <2>1, <1>5, <1>7
      <3>2. c[Stage(P[l][i])] = bd[Stage(P[l][i])]
        BY <3>1
      <3>3. /\ bd[Stage(P[l][i])] <= P[l][i].first
            /\ After(P[l][i]) <= cov[Stage(P[l][i])]
            /\ \/ P[l][i].first = bd[Stage(P[l][i])]
               \/ \E j \in 1..(i - 1) : Stage(P[l][j]) = Stage(P[l][i]) /\ After(P[l][j]) = P[l][i].first
        BY <3>1, Zenon DEF Covers
      <3>4. PICK L : L = Q[l] /\ L = P[l]
        BY <3>1
      <3>5. /\ c[Stage(L[i])] <= L[i].first
            /\ After(L[i]) <= cov[Stage(L[i])]
            /\ \/ L[i].first = c[Stage(L[i])]
               \/ \E j \in 1..(i - 1) : Stage(L[j]) = Stage(L[i]) /\ After(L[j]) = L[i].first
        BY <3>2, <3>3, <3>4, Zenon
      <3> QED
        BY <3>4, <3>5, Zenon
    <2>2. CASE l = u
      <3> DEFINE k == i + 1
      <3>1. k \in 1..Len(P[u]) /\ k > 1 /\ Q[u][i] = P[u][k] /\ i \in Nat
        BY <2>2, <1>2
      <3>2. /\ bd[Stage(P[u][k])] <= P[u][k].first
            /\ After(P[u][k]) <= cov[Stage(P[u][k])]
            /\ \/ P[u][k].first = bd[Stage(P[u][k])]
               \/ \E j \in 1..(k - 1) : Stage(P[u][j]) = Stage(P[u][k]) /\ After(P[u][j]) = P[u][k].first
        BY <3>1 DEF Covers
      <3>3. Stage(P[u][k]) = s => After(P[u][1]) <= P[u][k].first
        BY <3>1, <1>2 DEF Covers
      <3>4. ASSUME NEW j \in 1..(k - 1), j # 1
            PROVE  j - 1 \in 1..(i - 1) /\ Q[u][j - 1] = P[u][j]
        BY <3>1, <3>4, <1>2
      <3>5. CASE Stage(P[u][k]) # s
        <4>1. c[Stage(P[u][k])] = bd[Stage(P[u][k])]
          BY <3>1, <3>5, <1>5
        <4>2. CASE P[u][k].first = bd[Stage(P[u][k])]
          BY <4>1, <4>2, <3>1, <3>2, <2>2
        <4>3. CASE \E j \in 1..(k - 1) : Stage(P[u][j]) = Stage(P[u][k]) /\ After(P[u][j]) = P[u][k].first
          <5>1. PICK j \in 1..(k - 1) : Stage(P[u][j]) = Stage(P[u][k]) /\ After(P[u][j]) = P[u][k].first
            BY <4>3
          <5>2. j # 1
            BY <5>1, <3>5
          <5>3. j - 1 \in 1..(i - 1) /\ Q[u][j - 1] = P[u][j]
            BY <3>4, <5>2
          <5> HIDE DEF k
          <5> QED
            BY <5>1, <5>3, <4>1, <3>1, <3>2, <2>2, ZenonT(60)
        <4> QED
          BY <4>2, <4>3, <3>2
      <3>6. CASE Stage(P[u][k]) = s
        <4>0. P[u][k].first \in Nat
          BY <3>1, <1>5
        <4>1. P[u][k].first # bd[s]
          <5> HIDE DEF k
          <5> QED
            BY <4>0, <3>3, <3>6, <1>6, <1>8
        <4>2. PICK j \in 1..(k - 1) : Stage(P[u][j]) = s /\ After(P[u][j]) = P[u][k].first
          BY <4>1, <3>2, <3>6
        <4>3. CASE j = 1
          BY <4>2, <4>3, <3>1, <3>2, <3>3, <3>6, <2>2
        <4>4. CASE j # 1
          <5>1. j - 1 \in 1..(i - 1) /\ Q[u][j - 1] = P[u][j]
            BY <3>4, <4>4
          <5> HIDE DEF k
          <5> QED
            <6>1. Stage(Q[u][j - 1]) = Stage(Q[u][i]) /\ After(Q[u][j - 1]) = Q[u][i].first
              BY <5>1, <4>2, <3>1, <3>6
            <6>2. c[Stage(Q[u][i])] <= Q[u][i].first /\ After(Q[u][i]) <= cov[Stage(Q[u][i])]
              BY <3>1, <3>2, <3>3, <3>6
            <6> QED
              BY <6>1, <6>2, <5>1, <2>2
        <4> QED
          BY <4>3, <4>4
      <3> QED
        BY <3>5, <3>6
    <2> QED
      BY <2>1, <2>2
  <1>b. ASSUME NEW l \in Links, NEW i \in 1..Len(Q[l]), NEW j \in 1..Len(Q[l]), i < j,
               Stage(Q[l][i]) = Stage(Q[l][j])
        PROVE  After(Q[l][i]) <= Q[l][j].first
    <2>1. CASE l # u
      <3>1. Q[l] = P[l]
        BY <2>1
      <3> QED
        BY <3>1, <1>b DEF Covers
    <2>2. CASE l = u
      <3>1. i + 1 \in 1..Len(P[u]) /\ j + 1 \in 1..Len(P[u]) /\ Q[u][i] = P[u][i + 1] /\ Q[u][j] = P[u][j + 1]
            /\ i + 1 < j + 1
        BY <2>2, <1>2, <1>b
      <3>2. Stage(P[u][i + 1]) = Stage(P[u][j + 1])
        BY <3>1, <2>2, <1>b
      <3>3. After(P[u][i + 1]) <= P[u][j + 1].first
        BY <3>1, <3>2 DEF Covers
      <3> QED
        BY <3>1, <3>3, <2>2
    <2> QED
      BY <2>1, <2>2
  <1>c. ASSUME NEW t \in Stages
        PROVE  \/ c[t] = cov[t]
               \/ \E i \in 1..Len(Q[Route(t)]) : Stage(Q[Route(t)][i]) = t /\ After(Q[Route(t)][i]) = cov[t]
    <2> DEFINE w == Route(t)
    <2>1. w \in Links
      BY RouteLinks
    <2>2. CASE bd[t] = cov[t]
      <3>1. t # s
        BY <2>2, <1>6, <1>8
      <3> QED
        BY <3>1, <2>2
    <2>3. CASE bd[t] # cov[t]
      <3>1. PICK i \in 1..Len(P[w]) : Stage(P[w][i]) = t /\ After(P[w][i]) = cov[t]
        BY <2>3 DEF Covers
      <3> HIDE DEF w
      <3>2. CASE w # u
        BY <3>1, <3>2, <2>1 DEF w
      <3>3. CASE w = u /\ i = 1
        BY <3>1, <3>3
      <3>4. CASE w = u /\ i # 1
        <4>1. i - 1 \in 1..Len(Q[u]) /\ Q[u][i - 1] = P[u][i]
          BY <3>4, <1>2
        <4>2. Stage(Q[u][i - 1]) = t /\ After(Q[u][i - 1]) = cov[t] /\ Route(t) = u
          BY <4>1, <3>1, <3>4 DEF w
        <4> QED
          BY <4>1, <4>2
      <3> QED
        BY <3>2, <3>3, <3>4
    <2> QED
      BY <2>2, <2>3
  <1> QED
    BY <1>a, <1>b, <1>c DEF Covers

\* A stage that is sent the next frame is covered to its end.
LEMMA PutCovers ==
    ASSUME RingAssumption, NEW P \in Pipes, NEW Q \in Pipes,
           NEW bd \in Points, NEW cov \in [Stages -> Nat],
           Covers(P, bd, cov), Layered(P),
           NEW s \in Stages, NEW n \in RingFrames, Stage(n) = s, n.kind \notin SyncKinds,
           NEW v \in Links, v = Route(s), Added(P, Q, v, n), n.first = cov[s], bd[s] <= cov[s],
           NEW d \in [Stages -> Nat], d[s] = After(n), \A t \in Stages : t # s => d[t] = cov[t]
    PROVE  Covers(Q, bd, d)
  <1> USE DEF Pipes, Points, Added
  <1>0. LastBlock \in Nat \ {0} /\ s \in 0..(LastBlock + 1)
    BY SMTT(30) DEF Stages, RingAssumption, LastBlock
  <1>2. /\ Len(P[v]) \in Nat /\ Len(Q[v]) = Len(P[v]) + 1
        /\ \A i \in 1..Len(P[v]) : Q[v][i] = P[v][i]
        /\ Q[v][Len(P[v]) + 1] = n
    OBVIOUS
  <1>4. \A l \in Links : /\ Len(P[l]) \in Nat /\ Len(Q[l]) \in Nat
                         /\ \A i \in 1..Len(P[l]) : P[l][i] \in RingFrames
    OBVIOUS
  <1>5. \A l \in Links : \A i \in 1..Len(P[l]) :
           /\ Stage(P[l][i]) \in Stages /\ Stage(P[l][i]) \in 0..(LastBlock + 1)
           /\ P[l][i].first \in Nat /\ After(P[l][i]) \in Nat /\ P[l][i].first < After(P[l][i])
           /\ l = Route(Stage(P[l][i]))
    BY Located
  <1>6. n.first \in Nat /\ After(n) \in Nat /\ n.first < After(n)
    BY StageIs
  <1>7. \A l \in Links : \A i \in 1..Len(Q[l]) :
           \/ l = v /\ i = Len(P[v]) + 1 /\ Q[l][i] = n
           \/ i \in 1..Len(P[l]) /\ Q[l][i] = P[l][i]
    <2> SUFFICES ASSUME NEW l \in Links, NEW i \in 1..Len(Q[l])
                 PROVE \/ l = v /\ i = Len(P[v]) + 1 /\ Q[l][i] = n
                       \/ i \in 1..Len(P[l]) /\ Q[l][i] = P[l][i]
      OBVIOUS
    <2>1. CASE l = v
      <3>1. i \in 1..Len(Q[v]) /\ Q[l][i] = Q[v][i]
        BY <2>1
      <3>2. i = Len(P[v]) + 1 \/ i \in 1..Len(P[v])
        BY <3>1, <1>2
      <3> QED
        BY <3>1, <3>2, <2>1, <1>2
    <2>2. CASE l # v
      <3>1. Q[l] = P[l]
        BY <2>2
      <3> QED
        BY <3>1, <2>2
    <2> QED
      BY <2>1, <2>2
  <1>8. \A t \in Stages : t \in 0..(LastBlock + 1) /\ bd[t] \in Nat /\ d[t] \in Nat /\ cov[t] \in Nat
                          /\ cov[t] <= d[t]
    <2> SUFFICES ASSUME NEW t \in Stages
                 PROVE  t \in 0..(LastBlock + 1) /\ bd[t] \in Nat /\ d[t] \in Nat /\ cov[t] \in Nat
                        /\ cov[t] <= d[t]
      OBVIOUS
    <2>1. t \in 0..(LastBlock + 1)
      BY <1>0 DEF Stages
    <2>2. cov[t] \in Nat /\ d[t] \in Nat /\ bd[t] \in Nat
      BY <2>1
    <2>3. CASE t = s
      BY <2>1, <2>2, <2>3, <1>6
    <2>4. CASE t # s
      BY <2>1, <2>2, <2>4
    <2> QED
      BY <2>3, <2>4
  <1>9. \A l \in Links : \A j \in 1..Len(P[l]) : Q[l][j] = P[l][j] /\ j \in 1..Len(Q[l])
    <2> SUFFICES ASSUME NEW l \in Links, NEW j \in 1..Len(P[l])
                 PROVE  Q[l][j] = P[l][j] /\ j \in 1..Len(Q[l])
      OBVIOUS
    <2>1. CASE l = v
      <3>1. j \in 1..Len(P[v])
        BY <2>1
      <3>2. Q[v][j] = P[v][j] /\ j \in 1..Len(Q[v])
        BY <3>1, <1>2
      <3> QED
        BY <3>2, <2>1
    <2>2. CASE l # v
      <3>1. Q[l] = P[l]
        BY <2>2
      <3> QED
        BY <3>1, <2>2
    <2> QED
      BY <2>1, <2>2
  <1>a. ASSUME NEW l \in Links, NEW i \in 1..Len(Q[l])
        PROVE  /\ bd[Stage(Q[l][i])] <= Q[l][i].first
               /\ After(Q[l][i]) <= d[Stage(Q[l][i])]
               /\ \/ Q[l][i].first = bd[Stage(Q[l][i])]
                  \/ \E j \in 1..(i - 1) : Stage(Q[l][j]) = Stage(Q[l][i]) /\ After(Q[l][j]) = Q[l][i].first
    <2>1. CASE i \in 1..Len(P[l]) /\ Q[l][i] = P[l][i]
      <3>1. /\ bd[Stage(P[l][i])] <= P[l][i].first
            /\ After(P[l][i]) <= cov[Stage(P[l][i])]
            /\ \/ P[l][i].first = bd[Stage(P[l][i])]
               \/ \E j \in 1..(i - 1) : Stage(P[l][j]) = Stage(P[l][i]) /\ After(P[l][j]) = P[l][i].first
        BY <2>1 DEF Covers
      <3>2. \A j \in 1..(i - 1) : Q[l][j] = P[l][j]
        BY <2>1, <1>4, <1>9
      <3>3. After(P[l][i]) <= d[Stage(P[l][i])]
        BY <3>1, <2>1, <1>5, <1>8
      <3> QED
        BY <3>1, <3>2, <3>3, <2>1
    <2>2. CASE l = v /\ i = Len(P[v]) + 1 /\ Q[l][i] = n
      <3>1. CASE bd[s] = cov[s]
        BY <2>2, <3>1, <1>6, <1>8
      <3>2. CASE bd[s] # cov[s]
        <4>1. PICK j \in 1..Len(P[v]) : Stage(P[v][j]) = s /\ After(P[v][j]) = cov[s]
          BY <3>2 DEF Covers
        <4>2. j \in 1..(i - 1) /\ Q[v][j] = P[v][j]
          BY <4>1, <2>2, <1>2
        <4>3. bd[s] <= n.first /\ After(n) <= d[s]
          BY <1>6, <1>8
        <4>4. Stage(Q[v][j]) = Stage(n) /\ After(Q[v][j]) = n.first
          BY <4>1, <4>2
        <4>5. Stage(n) = s
          BY <4>1, <4>2, <4>4
        <4>6. \E k \in 1..(i - 1) : Stage(Q[v][k]) = Stage(n) /\ After(Q[v][k]) = n.first
          BY <4>2, <4>4
        <4>7. /\ bd[Stage(n)] <= n.first /\ After(n) <= d[Stage(n)]
              /\ \E k \in 1..(i - 1) : Stage(Q[v][k]) = Stage(n) /\ After(Q[v][k]) = n.first
          BY <4>3, <4>5, <4>6
        <4>8. Q[v][i] = n /\ l = v
          BY <2>2
        <4> QED
          BY <4>7, <4>8, Zenon
      <3> QED
        BY <3>1, <3>2
    <2> QED
      BY <2>1, <2>2, <1>7
  <1>b. ASSUME NEW l \in Links, NEW i \in 1..Len(Q[l]), NEW j \in 1..Len(Q[l]), i < j,
               Stage(Q[l][i]) = Stage(Q[l][j])
        PROVE  After(Q[l][i]) <= Q[l][j].first
    <2>1. CASE j \in 1..Len(P[l]) /\ Q[l][j] = P[l][j]
      <3>1. i \in 1..Len(P[l]) /\ Q[l][i] = P[l][i]
        BY <2>1, <1>b, <1>4, <1>9
      <3> QED
        BY <3>1, <2>1, <1>b DEF Covers
    <2>2. CASE l = v /\ j = Len(P[v]) + 1 /\ Q[l][j] = n
      <3>0. i \in 1..Len(P[v])
        BY <2>2, <1>b, <1>2
      <3>1. i \in 1..Len(P[l]) /\ Q[l][i] = P[l][i]
        BY <3>0, <2>2, <1>2
      <3>2. After(P[l][i]) <= cov[Stage(P[l][i])]
        BY <3>1 DEF Covers
      <3> QED
        BY <3>1, <3>2, <2>2, <1>b
    <2> QED
      BY <2>1, <2>2, <1>7
  <1>c. ASSUME NEW t \in Stages
        PROVE  \/ bd[t] = d[t]
               \/ \E i \in 1..Len(Q[Route(t)]) : Stage(Q[Route(t)][i]) = t /\ After(Q[Route(t)][i]) = d[t]
    <2>1. CASE t = s
      <3>1. Len(P[v]) + 1 \in 1..Len(Q[v])
        BY <1>2
      <3> QED
        BY <3>1, <2>1, <1>2
    <2>2. CASE t # s /\ bd[t] = cov[t]
      BY <2>2
    <2>3. CASE t # s /\ bd[t] # cov[t]
      <3>1. PICK i \in 1..Len(P[Route(t)]) : Stage(P[Route(t)][i]) = t /\ After(P[Route(t)][i]) = cov[t]
        BY <2>3 DEF Covers
      <3>2. i \in 1..Len(Q[Route(t)]) /\ Q[Route(t)][i] = P[Route(t)][i]
        BY <3>1, <1>9, RouteLinks
      <3> QED
        BY <3>1, <3>2, <2>3
    <2> QED
      BY <2>1, <2>2, <2>3
  <1> QED
    BY <1>a, <1>b, <1>c DEF Covers

\* Every owner stands between its predecessor and the end of the call.
LEMMA ReachIs ==
    ASSUME RingAssumption, NEW bd \in Points
    PROVE  /\ LastBlock \in Nat \ {0} /\ Reach(bd) \in [Stages -> Nat]
           /\ \A t \in Stages : t - 1 \in 0..(LastBlock + 1) /\ t \in 0..(LastBlock + 1)
                                /\ Reach(bd)[t] = bd[t - 1]
  <1> USE DEF Pipes, Points
  <1>1. LastBlock \in Nat \ {0}
    BY DEF RingAssumption, LastBlock
  <1>2. \A t \in Stages : t - 1 \in 0..(LastBlock + 1) /\ t \in 0..(LastBlock + 1)
    BY <1>1 DEF Stages
  <1> QED
    BY <1>1, <1>2 DEF Reach

\* A pipe without its oldest frame, or with one more, is a pipe of the call still.
LEMMA TailLayered ==
    ASSUME NEW P \in Pipes, NEW Q, NEW u \in Links, Taken(P, Q, u)
    PROVE  \A l \in Links : OnLink(Q, l) \subseteq OnLink(P, l)
  <1> SUFFICES ASSUME NEW l \in Links PROVE OnLink(Q, l) \subseteq OnLink(P, l)
    OBVIOUS
  <1>1. CASE l = u
    <2>1. P[l] \in Seq(RingFrames) /\ P[l] # <<>> /\ Q[l] = Tail(P[l])
      BY <1>1 DEF Pipes, Taken
    <2>2. \A i \in 1..Len(Q[l]) : i + 1 \in 1..Len(P[l]) /\ Q[l][i] = P[l][i + 1]
      BY <2>1
    <2> QED
      BY <2>2 DEF OnLink
  <1>2. CASE l # u
    <2>1. Q[l] = P[l]
      BY <1>2 DEF Taken
    <2> QED
      BY <2>1 DEF OnLink
  <1> QED
    BY <1>1, <1>2

\* A frame more on one link.
LEMMA AppendLayered ==
    ASSUME NEW P \in Pipes, NEW Q, NEW v \in Links, NEW n, Added(P, Q, v, n)
    PROVE  \A l \in Links : \A m \in OnLink(Q, l) : m \in OnLink(P, l) \/ (l = v /\ m = n)
  <1> USE DEF Pipes, Added
  <1> SUFFICES ASSUME NEW l \in Links, NEW i \in 1..Len(Q[l])
               PROVE  (\E j \in 1..Len(P[l]) : Q[l][i] = P[l][j]) \/ (l = v /\ Q[l][i] = n)
    BY SMTT(30) DEF OnLink
  <1>1. CASE l = v
    <2>1. P[v] \in Seq(RingFrames) /\ Q[l] = Append(P[v], n)
      BY <1>1
    <2>2. Len(P[v]) \in Nat /\ Len(Append(P[v], n)) = Len(P[v]) + 1
      BY <2>1
    <2>3. i = Len(P[v]) + 1 \/ i \in 1..Len(P[v])
      BY <2>1, <2>2
    <2>4. CASE i = Len(P[v]) + 1
      BY <2>1, <2>4, <1>1
    <2>5. CASE i \in 1..Len(P[v])
      <3>1. Q[l][i] = P[v][i]
        BY <2>1, <2>5
      <3> QED
        BY <3>1, <2>5, <1>1
    <2> QED
      BY <2>3, <2>4, <2>5
  <1>2. CASE l # v
    <2>1. Q[l] = P[l]
      BY <1>2
    <2> QED
      BY <2>1
  <1> QED
    BY <1>1, <1>2

\* An owner runs its block on its oldest frame and sends the result on.
LEMMA FlowAdvance ==
    ASSUME RingAssumption, NEW P \in Pipes, NEW R \in Pipes, NEW Q \in Pipes,
           NEW bd \in Points, Flow(P, bd), Layered(P),
           NEW s \in 1..LastBlock, NEW u \in Links, u = Route(s), Stage(P[u][1]) = s, Taken(P, R, u),
           NEW n \in RingFrames, Stage(n) = s + 1, n.kind \notin SyncKinds,
           n.first = P[u][1].first, n.count = P[u][1].count,
           NEW v \in Links, v = Route(s + 1), Added(R, Q, v, n),
           NEW c \in Points, Moved(bd, c, s, After(n))
    PROVE  Flow(Q, c)
  <1>p. LastBlock \in Nat \ {0}
    BY DEF RingAssumption, LastBlock
  <1>q. s \in Stages /\ s + 1 \in Stages /\ s \in 0..(LastBlock + 1) /\ s - 1 \in 0..(LastBlock + 1)
        /\ s + 1 \in 0..(LastBlock + 1) /\ (s + 1) - 1 = s
    BY <1>p DEF Stages
  <1>r. /\ Reach(bd) \in [Stages -> Nat] /\ \A t \in Stages : Reach(bd)[t] = bd[t - 1]
        /\ Reach(c) \in [Stages -> Nat] /\ \A t \in Stages : Reach(c)[t] = c[t - 1]
    BY ReachIs
  <1>0. Reach(bd)[s] = bd[s - 1] /\ Reach(bd)[s + 1] = bd[s] /\ Reach(c)[s + 1] = c[s]
    BY <1>q, <1>r
  <1>f. Descends(bd) /\ Covers(P, bd, Reach(bd))
    BY DEF Flow
  <1>3. /\ P[u][1] \in RingFrames /\ P[u][1].first = bd[s] /\ After(P[u][1]) <= bd[s - 1]
        /\ After(P[u][1]) = After(n) /\ n.first = bd[s]
    <2>1. P[u][1] \in RingFrames /\ P[u][1].first = bd[s] /\ After(P[u][1]) <= Reach(bd)[s]
      <3>1. P[u] # <<>>
        BY DEF Taken
      <3>2. P[u][1] \in RingFrames /\ P[u][1].first = bd[Stage(P[u][1])] /\ After(P[u][1]) <= Reach(bd)[Stage(P[u][1])]
        BY <3>1, HeadIsNext, <1>f
      <3> QED
        BY <3>2
    <2>2. After(P[u][1]) = After(n)
      BY DEF After
    <2> QED
      BY <2>1, <2>2, <1>0
  <1>4. n.first \in Nat /\ After(n) \in Nat /\ n.first < After(n)
    BY StageIs
  <1>5. Covers(R, c, Reach(bd))
    <2>1. Moved(bd, c, s, After(P[u][1]))
      BY <1>3
    <2> QED
      BY <2>1, <1>q, <1>r, <1>f, TakeCovers
  <1>6. Layered(R)
    <2>1. \A l \in Links : OnLink(R, l) \subseteq OnLink(P, l)
      BY TailLayered
    <2> QED
      BY <2>1 DEF Layered, Routed, KindsIn
  <1>7. c[s] = After(n) /\ (\A t \in 0..(LastBlock + 1) : t # s => c[t] = bd[t])
        /\ \A t \in 0..(LastBlock + 1) : bd[t] \in Nat /\ c[t] \in Nat
    BY DEF Moved, Points
  <1>8. /\ Reach(c)[s + 1] = After(n) /\ n.first = Reach(bd)[s + 1] /\ c[s + 1] <= Reach(bd)[s + 1]
        /\ \A t \in Stages : t # s + 1 => Reach(c)[t] = Reach(bd)[t]
    <2>1. c[s + 1] = bd[s + 1]
      BY <1>q, <1>7
    <2>2. bd[s + 1] <= bd[s]
      BY <1>q, <1>f DEF Descends
    <2>3. ASSUME NEW t \in Stages, t # s + 1 PROVE Reach(c)[t] = Reach(bd)[t]
      <3>1. t - 1 \in 0..(LastBlock + 1) /\ t - 1 # s
        BY <2>3, <1>p DEF Stages
      <3> QED
        BY <3>1, <1>r, <1>7
    <2> QED
      BY <2>1, <2>2, <2>3, <1>0, <1>3, <1>7
  <1>9. Covers(Q, c, Reach(c))
    BY <1>q, <1>r, <1>5, <1>6, <1>8, PutCovers
  <1>10. Descends(c)
    <2> SUFFICES ASSUME NEW a \in 0..(LastBlock + 1), NEW b \in 0..(LastBlock + 1), a <= b
                 PROVE  c[b] <= c[a]
      BY DEF Descends
    <2>1. bd[b] <= bd[a] /\ bd[a] \in Nat /\ bd[b] \in Nat /\ bd[s] \in Nat /\ bd[s - 1] \in Nat
      BY <1>q, <1>f, <1>7 DEF Descends
    <2>2. CASE b # s
      BY <2>1, <2>2, <1>3, <1>4, <1>7
    <2>3. CASE b = s /\ a # s
      <3>1. a <= s - 1
        BY <2>3, <1>q, <1>p
      <3>2. bd[s - 1] <= bd[a]
        BY <3>1, <1>q, <1>f DEF Descends
      <3> QED
        BY <3>1, <3>2, <2>1, <2>3, <1>3, <1>4, <1>7
    <2>4. CASE b = s /\ a = s
      BY <2>4, <1>4, <1>7
    <2> QED
      BY <2>2, <2>3, <2>4
  <1> QED
    BY <1>9, <1>10 DEF Flow

\* Rank 0 sends the next chunk of the call to the first owner.
LEMMA FlowIssue ==
    ASSUME RingAssumption, NEW P \in Pipes, NEW Q \in Pipes,
           NEW bd \in Points, Flow(P, bd), Layered(P),
           NEW n \in RingFrames, Stage(n) = 1, n.kind \notin SyncKinds, n.first = bd[0],
           NEW v \in Links, v = Route(1), Added(P, Q, v, n),
           NEW c \in Points, Moved(bd, c, 0, After(n))
    PROVE  Flow(Q, c)
  <1>p. LastBlock \in Nat \ {0}
    BY DEF RingAssumption, LastBlock
  <1>0. LastBlock \in Nat \ {0} /\ 1 \in Stages /\ 1 \in 0..(LastBlock + 1) /\ 0 \in 0..(LastBlock + 1) /\ 1 - 1 = 0
    BY <1>p DEF Stages
  <1>r. /\ Reach(bd) \in [Stages -> Nat] /\ \A t \in Stages : Reach(bd)[t] = bd[t - 1]
        /\ Reach(c) \in [Stages -> Nat] /\ \A t \in Stages : Reach(c)[t] = c[t - 1]
    BY ReachIs
  <1>m. c[0] = After(n) /\ (\A t \in Stages : c[t] = bd[t])
        /\ \A t \in 0..(LastBlock + 1) : bd[t] \in Nat /\ c[t] \in Nat
    BY <1>0 DEF Stages, Moved, Points
  <1> USE <1>m
  <1>1. n.first \in Nat /\ After(n) \in Nat /\ n.first < After(n)
    BY StageIs
  <1>2. Covers(P, c, Reach(bd))
    <2>1. \A l \in Links : \A i \in 1..Len(P[l]) : Stage(P[l][i]) \in Stages
      BY Located
    <2> QED
      BY <2>1 DEF Flow, Covers
  <1>3. /\ Reach(c)[1] = After(n) /\ n.first = Reach(bd)[1] /\ c[1] <= Reach(bd)[1]
        /\ \A t \in Stages : t # 1 => Reach(c)[t] = Reach(bd)[t]
    <2>1. Reach(c)[1] = c[0] /\ Reach(bd)[1] = bd[0] /\ c[1] = bd[1]
      BY <1>r, <1>0
    <2>2. bd[1] <= bd[0]
      BY <1>0 DEF Flow, Descends
    <2>3. ASSUME NEW t \in Stages, t # 1 PROVE Reach(c)[t] = Reach(bd)[t]
      <3>1. t - 1 \in Stages
        BY <2>3, <1>p DEF Stages
      <3> QED
        BY <3>1, <1>r
    <2> QED
      BY <2>1, <2>2, <2>3, <1>0
  <1>4. Covers(Q, c, Reach(c))
    BY <1>0, <1>r, <1>2, <1>3, PutCovers
  <1>5. Descends(c)
    <2> SUFFICES ASSUME NEW a \in 0..(LastBlock + 1), NEW b \in 0..(LastBlock + 1), a <= b
                 PROVE  c[b] <= c[a]
      BY DEF Descends
    <2>1. bd[b] <= bd[a] /\ bd[b] <= bd[0] /\ bd[a] \in Nat /\ bd[b] \in Nat /\ bd[0] \in Nat
      BY <1>0 DEF Flow, Descends
    <2>2. CASE b = 0
      BY <2>2, <1>1, <1>0
    <2>3. CASE b # 0 /\ a = 0
      <3>1. b \in Stages
        BY <2>3, <1>0 DEF Stages
      <3> QED
        BY <3>1, <2>1, <2>3, <1>1
    <2>4. CASE b # 0 /\ a # 0
      <3>1. b \in Stages /\ a \in Stages
        BY <2>4, <1>0 DEF Stages
      <3> QED
        BY <3>1, <2>1
    <2> QED
      BY <2>2, <2>3, <2>4
  <1> QED
    BY <1>4, <1>5 DEF Flow

\* Rank 0 takes the answer of the last owner.
LEMMA FlowFinish ==
    ASSUME RingAssumption, NEW P \in Pipes, NEW Q \in Pipes,
           NEW bd \in Points, Flow(P, bd), Layered(P),
           NEW s, s = LastBlock + 1, NEW u \in Links, u = Route(s), Stage(P[u][1]) = s,
           Taken(P, Q, u), NEW c \in Points, Moved(bd, c, s, After(P[u][1]))
    PROVE  Flow(Q, c)
  <1>p. LastBlock \in Nat \ {0}
    BY DEF RingAssumption, LastBlock
  <1>0. LastBlock \in Nat \ {0} /\ s \in Stages /\ s \in 0..(LastBlock + 1) /\ s - 1 \in 0..(LastBlock + 1)
    BY <1>p DEF Stages
  <1>r. Reach(bd) \in [Stages -> Nat] /\ Reach(bd)[s] = bd[s - 1]
    BY <1>0, ReachIs
  <1>f. Descends(bd) /\ Covers(P, bd, Reach(bd))
    BY DEF Flow
  <1>1. Covers(Q, c, Reach(bd))
    <2> QED
      BY <1>0, <1>r, <1>f, TakeCovers
  <1>m. c[s] = After(P[u][1]) /\ (\A t \in 0..(LastBlock + 1) : t # s => c[t] = bd[t])
        /\ \A t \in 0..(LastBlock + 1) : bd[t] \in Nat /\ c[t] \in Nat
    BY DEF Moved, Points
  <1>2. Reach(c) = Reach(bd)
    BY <1>0, <1>m DEF Reach, Stages
  <1>3. /\ P[u][1] \in RingFrames /\ P[u][1].first = bd[s] /\ After(P[u][1]) <= bd[s - 1]
    <2>1. P[u][1] \in RingFrames /\ P[u][1].first = bd[s] /\ After(P[u][1]) <= Reach(bd)[s]
      <3>1. P[u] # <<>>
        BY DEF Taken
      <3>2. P[u][1] \in RingFrames /\ P[u][1].first = bd[Stage(P[u][1])] /\ After(P[u][1]) <= Reach(bd)[Stage(P[u][1])]
        BY <3>1, HeadIsNext, <1>f
      <3> QED
        BY <3>2
    <2> QED
      BY <2>1, <1>r
  <1> USE <1>m
  <1>4. Descends(c)
    <2> SUFFICES ASSUME NEW a \in 0..(LastBlock + 1), NEW b \in 0..(LastBlock + 1), a <= b
                 PROVE  c[b] <= c[a]
      BY DEF Descends
    <2>1. bd[b] <= bd[a] /\ bd[a] \in Nat /\ bd[b] \in Nat /\ c[s] \in Nat /\ bd[s - 1] \in Nat
      BY <1>0 DEF Flow, Descends
    <2>2. CASE b # s
      BY <2>1, <2>2, <1>0
    <2>3. CASE b = s /\ a # s
      <3>1. a <= s - 1
        BY <2>3, <1>0
      <3>2. bd[s - 1] <= bd[a]
        BY <3>1, <1>0 DEF Flow, Descends
      <3> QED
        BY <3>1, <3>2, <2>1, <2>3, <1>3
    <2>4. CASE b = s /\ a = s
      BY <2>4, <2>1
    <2> QED
      BY <2>2, <2>3, <2>4
  <1> QED
    BY <1>1, <1>2, <1>4 DEF Flow

\* When the last answer reaches the end of the call, nothing is under way and
\* every owner stands there.
LEMMA FlowComplete ==
    ASSUME RingAssumption, NEW P \in Pipes,
           NEW bd \in Points, Flow(P, bd), Layered(P),
           bd[LastBlock + 1] = bd[0]
    PROVE  /\ \A l \in Links : P[l] = <<>>
           /\ \A t \in 0..(LastBlock + 1) : bd[t] = bd[0]
  <1> USE DEF Pipes, Points
  <1>0. LastBlock \in Nat \ {0}
    BY DEF RingAssumption, LastBlock
  <1>1. \A t \in 0..(LastBlock + 1) : bd[t] = bd[0]
    <2> SUFFICES ASSUME NEW t \in 0..(LastBlock + 1) PROVE bd[t] = bd[0]
      OBVIOUS
    <2>1. bd[t] <= bd[0] /\ bd[LastBlock + 1] <= bd[t]
      BY <1>0 DEF Flow, Descends
    <2> QED
      BY <2>1, <1>0
  <1>2. ASSUME NEW l \in Links, P[l] # <<>> PROVE FALSE
    <2> DEFINE m == P[l][1]
    <2>1. 1 \in 1..Len(P[l])
      BY <1>2
    <2>2. Stage(m) \in Stages /\ m.first < After(m) /\ m.first \in Nat /\ After(m) \in Nat
      BY <2>1, Located
    <2>3. m.first = bd[Stage(m)] /\ After(m) <= Reach(bd)[Stage(m)]
      BY <1>2, HeadIsNext DEF Flow
    <2>4. Reach(bd)[Stage(m)] = bd[Stage(m) - 1] /\ Stage(m) - 1 \in 0..(LastBlock + 1)
          /\ Stage(m) \in 0..(LastBlock + 1)
      BY <2>2, ReachIs
    <2> HIDE DEF m
    <2>5. bd[Stage(m)] = bd[0] /\ bd[Stage(m) - 1] = bd[0]
      BY <2>4, <1>1
    <2> QED
      BY <2>2, <2>3, <2>4, <2>5
  <1> QED
    BY <1>1, <1>2

-----------------------------------------------------------------------------
(* The links and the sends under way. *)

SendTable == [RingRanks -> {<<>>} \cup (RingRanks \X RingFrames)]

\* A sequence of one at the end is an appended element.
LEMMA CatOne ==
    ASSUME NEW S, NEW q \in Seq(S), NEW x \in S
    PROVE  q \o <<x>> = Append(q, x)
  <1>1. <<x>> \in Seq(S) /\ Len(<<x>>) = 1 /\ <<x>>[1] = x
    OBVIOUS
  <1>2. Append(q, x) \in Seq(S) /\ Len(Append(q, x)) = Len(q) + 1 /\ Len(q) \in Nat
    OBVIOUS
  <1>3. q \o <<x>> \in Seq(S) /\ Len(q \o <<x>>) = Len(q) + 1
    BY <1>1, ConcatProperties
  <1>4. ASSUME NEW i \in 1..(Len(q) + 1) PROVE (q \o <<x>>)[i] = Append(q, x)[i]
    <2>1. (q \o <<x>>)[i] = IF i <= Len(q) THEN q[i] ELSE <<x>>[i - Len(q)]
      BY <1>1, ConcatProperties
    <2>2. CASE i <= Len(q)
      BY <2>1, <2>2, <1>2
    <2>3. CASE ~(i <= Len(q))
      <3>1. i - Len(q) = 1 /\ i = Len(q) + 1
        BY <2>3, <1>2
      <3> QED
        BY <3>1, <2>1, <2>3, <1>1
    <2> QED
      BY <2>2, <2>3
  <1> QED
    BY <1>2, <1>3, <1>4, SeqEqual

\* Taking the first element leaves what was put behind.
LEMMA TailCat ==
    ASSUME NEW S, NEW q \in Seq(S), NEW t \in Seq(S), q # <<>>
    PROVE  q \o t # <<>> /\ Tail(q \o t) = Tail(q) \o t /\ (q \o t)[1] = Head(q)
  <1>1. /\ Len(q) \in Nat \ {0} /\ Len(t) \in Nat
        /\ Tail(q) \in Seq(S) /\ Len(Tail(q)) = Len(q) - 1
        /\ \A i \in 1..Len(Tail(q)) : Tail(q)[i] = q[i + 1]
    OBVIOUS
  <1>2. /\ q \o t \in Seq(S) /\ Len(q \o t) = Len(q) + Len(t)
        /\ \A i \in 1..(Len(q) + Len(t)) : (q \o t)[i] = IF i <= Len(q) THEN q[i] ELSE t[i - Len(q)]
    BY ConcatProperties
  <1>3. /\ Tail(q) \o t \in Seq(S) /\ Len(Tail(q) \o t) = Len(q) - 1 + Len(t)
        /\ \A i \in 1..(Len(q) - 1 + Len(t)) :
             (Tail(q) \o t)[i] = IF i <= Len(q) - 1 THEN Tail(q)[i] ELSE t[i - (Len(q) - 1)]
    BY <1>1, ConcatProperties
  <1>4. q \o t # <<>>
    BY <1>1, <1>2
  <1>5. /\ Tail(q \o t) \in Seq(S) /\ Len(Tail(q \o t)) = Len(q) + Len(t) - 1
        /\ \A i \in 1..(Len(q) + Len(t) - 1) : Tail(q \o t)[i] = (q \o t)[i + 1]
    BY <1>1, <1>2, <1>4, HeadTailProperties
  <1>6. ASSUME NEW i \in 1..(Len(q) + Len(t) - 1) PROVE Tail(q \o t)[i] = (Tail(q) \o t)[i]
    <2>1. i + 1 \in 1..(Len(q) + Len(t)) /\ i \in 1..(Len(q) - 1 + Len(t))
      BY <1>1
    <2>2. CASE i <= Len(q) - 1
      <3>1. i \in 1..Len(Tail(q)) /\ i + 1 <= Len(q)
        BY <2>2, <1>1
      <3> QED
        BY <3>1, <2>1, <2>2, <1>1, <1>2, <1>3, <1>5
    <2>3. CASE ~(i <= Len(q) - 1)
      <3>1. ~(i + 1 <= Len(q)) /\ (i + 1) - Len(q) = i - (Len(q) - 1)
        BY <2>3, <1>1
      <3> QED
        BY <3>1, <2>1, <2>3, <1>2, <1>3, <1>5
    <2> QED
      BY <2>2, <2>3
  <1>7. Tail(q \o t) = Tail(q) \o t
    BY <1>1, <1>3, <1>5, <1>6, SeqEqual
  <1>8. (q \o t)[1] = q[1] /\ Head(q) = q[1]
    BY <1>1, <1>2
  <1> QED
    BY <1>4, <1>7, <1>8

\* A send under way is one frame of its link.
LEMMA SentIs ==
    ASSUME NEW S \in SendTable, NEW l \in Links
    PROVE  /\ l[1] \in RingRanks /\ l[2] \in RingRanks /\ l[1] # l[2] /\ l = <<l[1], l[2]>>
           /\ Sent(S, l) \in Seq(RingFrames)
  <1>1. l[1] \in RingRanks /\ l[2] \in RingRanks /\ l[1] # l[2] /\ l = <<l[1], l[2]>>
    BY DEF Links
  <1>2. S[l[1]] = <<>> \/ S[l[1]] \in RingRanks \X RingFrames
    BY <1>1 DEF SendTable
  <1>3. Sent(S, l) \in Seq(RingFrames)
    <2>1. CASE S[l[1]] # <<>> /\ S[l[1]][1] = l[2]
      <3>1. S[l[1]][2] \in RingFrames
        BY <2>1, <1>2
      <3>2. Sent(S, l) = <<S[l[1]][2]>>
        BY <2>1 DEF Sent
      <3> QED
        BY <3>1, <3>2
    <2>2. CASE ~(S[l[1]] # <<>> /\ S[l[1]][1] = l[2])
      BY <2>2 DEF Sent
    <2> QED
      BY <2>1, <2>2
  <1> QED
    BY <1>1, <1>3

\* The pipes hold frames, the buffered ones first.
LEMMA PipeType ==
    ASSUME NEW L \in Pipes, NEW S \in SendTable
    PROVE  PipeOf(L, S) \in Pipes /\ \A l \in Links : PipeOf(L, S)[l] = L[l] \o Sent(S, l)
  <1>1. \A l \in Links : L[l] \o Sent(S, l) \in Seq(RingFrames)
    BY SentIs, ConcatProperties DEF Pipes
  <1> QED
    BY <1>1 DEF PipeOf, Pipes

\* A frame the link takes was under way already.
LEMMA PipeSent ==
    ASSUME NEW L \in Pipes, NEW K \in Pipes, NEW S \in SendTable, NEW T \in SendTable,
           NEW r \in RingRanks, S[r] # <<>>, NEW l \in Links, l = <<r, S[r][1]>>,
           Added(L, K, l, S[r][2]), T[r] = <<>>, \A q \in RingRanks : q # r => T[q] = S[q]
    PROVE  PipeOf(K, T) = PipeOf(L, S)
  <1>1. ASSUME NEW k \in Links PROVE K[k] \o Sent(T, k) = L[k] \o Sent(S, k)
    <2>0. k[1] \in RingRanks /\ l[1] = r /\ l[2] = S[r][1] /\ k = <<k[1], k[2]>> /\ L[k] \in Seq(RingFrames) /\ K[k] \in Seq(RingFrames)
          /\ S[r][2] \in RingFrames
      BY SentIs DEF Pipes, SendTable
    <2>1. CASE k = l
      <3>1. Sent(S, k) = <<S[r][2]>> /\ Sent(T, k) = <<>>
        BY <2>0, <2>1 DEF Sent
      <3>2. K[k] = Append(L[k], S[r][2])
        BY <2>1 DEF Added
      <3> QED
        BY <3>1, <3>2, <2>0, CatOne, ConcatEmptySeq
    <2>2. CASE k # l
      <3>1. K[k] = L[k]
        BY <2>2 DEF Added
      <3>2. Sent(T, k) = Sent(S, k)
        <4>1. CASE k[1] = r
          <5>1. k[2] # S[r][1]
            BY <4>1, <2>0, <2>2
          <5> QED
            BY <5>1, <4>1 DEF Sent
        <4>2. CASE k[1] # r
          BY <4>2, <2>0 DEF Sent
        <4> QED
          BY <4>1, <4>2
      <3> QED
        BY <3>1, <3>2
    <2> QED
      BY <2>1, <2>2
  <1> QED
    BY <1>1 DEF PipeOf

\* A rank that starts a send adds its frame to the link.
LEMMA PipeSend ==
    ASSUME NEW L \in Pipes, NEW S \in SendTable, NEW T \in SendTable,
           NEW r \in RingRanks, NEW n, S[r] = <<>>, NEW l \in Links, T[r] = <<l[2], n>>, l[1] = r,
           \A q \in RingRanks : q # r => T[q] = S[q]
    PROVE  Added(PipeOf(L, S), PipeOf(L, T), l, n)
  <1>0. n \in RingFrames /\ T[r] # <<>> /\ T[r][1] = l[2] /\ T[r][2] = n
    <2>1. T[r] \in {<<>>} \cup (RingRanks \X RingFrames)
      BY DEF SendTable
    <2> QED
      BY <2>1
  <1>1. \A k \in Links : PipeOf(L, S)[k] = L[k] \o Sent(S, k) /\ PipeOf(L, T)[k] = L[k] \o Sent(T, k)
    BY PipeType
  <1>2. Sent(S, l) = <<>> /\ Sent(T, l) = <<n>>
    BY <1>0 DEF Sent
  <1>3. PipeOf(L, T)[l] = Append(PipeOf(L, S)[l], n)
    <2>1. L[l] \in Seq(RingFrames)
      BY DEF Pipes
    <2>2. L[l] \o <<>> = L[l] /\ L[l] \o <<n>> = Append(L[l], n)
      BY <2>1, <1>0, CatOne, ConcatEmptySeq
    <2> QED
      BY <2>2, <1>1, <1>2
  <1>4. ASSUME NEW k \in Links, k # l PROVE Sent(T, k) = Sent(S, k)
    <2>0. k[1] \in RingRanks /\ k = <<k[1], k[2]>> /\ l = <<l[1], l[2]>>
      BY SentIs
    <2>1. CASE k[1] = r
      <3>1. k[2] # l[2]
        BY <2>0, <2>1, <1>4
      <3> QED
        BY <3>1, <2>1, <1>0 DEF Sent
    <2>2. CASE k[1] # r
      BY <2>0, <2>2 DEF Sent
    <2> QED
      BY <2>1, <2>2
  <1> QED
    BY <1>1, <1>3, <1>4 DEF Added

\* A rank that takes the oldest frame of a link takes it from the pipe.
LEMMA PipeTake ==
    ASSUME NEW L \in Pipes, NEW K \in Pipes, NEW S \in SendTable, NEW l \in Links, Taken(L, K, l)
    PROVE  Taken(PipeOf(L, S), PipeOf(K, S), l) /\ PipeOf(L, S)[l][1] = Head(L[l])
  <1>1. \A k \in Links : PipeOf(L, S)[k] = L[k] \o Sent(S, k) /\ PipeOf(K, S)[k] = K[k] \o Sent(S, k)
    BY PipeType
  <1>2. L[l] # <<>> /\ K[l] = Tail(L[l]) /\ L[l] \in Seq(RingFrames) /\ Sent(S, l) \in Seq(RingFrames)
    BY SentIs DEF Taken, Pipes
  <1>3. L[l] \o Sent(S, l) # <<>> /\ Tail(L[l] \o Sent(S, l)) = Tail(L[l]) \o Sent(S, l)
        /\ (L[l] \o Sent(S, l))[1] = Head(L[l])
    BY <1>2, TailCat
  <1>4. \A k \in Links : k # l => K[k] = L[k]
    BY DEF Taken
  <1> QED
    BY <1>1, <1>2, <1>3, <1>4 DEF Taken

\* The head of a link is the head of its pipe, and an empty pipe has an empty link.
LEMMA PipeHead ==
    ASSUME NEW L \in Pipes, NEW S \in SendTable, NEW l \in Links
    PROVE  /\ L[l] # <<>> => /\ PipeOf(L, S)[l] # <<>> /\ PipeOf(L, S)[l][1] = Head(L[l])
                             /\ Head(L[l]) \in OnLink(PipeOf(L, S), l) /\ Head(L[l]) \in RingFrames
           /\ PipeOf(L, S)[l] = <<>> => L[l] = <<>> /\ Sent(S, l) = <<>>
  <1>1. PipeOf(L, S)[l] = L[l] \o Sent(S, l) /\ PipeOf(L, S) \in Pipes
    BY PipeType
  <1>2. L[l] \in Seq(RingFrames) /\ Sent(S, l) \in Seq(RingFrames)
    BY SentIs DEF Pipes
  <1>3. ASSUME L[l] # <<>>
        PROVE  /\ PipeOf(L, S)[l] # <<>> /\ PipeOf(L, S)[l][1] = Head(L[l])
               /\ Head(L[l]) \in OnLink(PipeOf(L, S), l) /\ Head(L[l]) \in RingFrames
    <2>1. PipeOf(L, S)[l] # <<>> /\ PipeOf(L, S)[l][1] = Head(L[l])
      BY <1>1, <1>2, <1>3, TailCat
    <2>2. 1 \in 1..Len(PipeOf(L, S)[l])
      BY <2>1, <1>1 DEF Pipes
    <2> QED
      BY <2>1, <2>2, <1>2, <1>3 DEF OnLink
  <1>4. ASSUME PipeOf(L, S)[l] = <<>> PROVE L[l] = <<>> /\ Sent(S, l) = <<>>
    <2>1. L[l] \o Sent(S, l) = <<>>
      BY <1>1, <1>4
    <2> QED
      BY <2>1, <1>2, ConcatEqualIffEmpty
  <1> QED
    BY <1>3, <1>4

-----------------------------------------------------------------------------
(* The slots of a prefill. *)

NextIndex(k) == IF k + 1 = Frames THEN 0 ELSE k + 1

\* How far back in the issuing order a slot is.
LEMMA DistIs ==
    ASSUME RingAssumption, NEW k \in 0..(Frames - 1)
    PROVE  /\ Frames \in Nat \ {0} /\ \A f \in 0..(Frames - 1) : Dist(f, k) \in 1..Frames
           /\ Dist(k, k) = Frames /\ NextIndex(k) \in 0..(Frames - 1) /\ Dist(k, NextIndex(k)) = 1
           /\ \A f \in 0..(Frames - 1) : f # k => Dist(f, NextIndex(k)) = Dist(f, k) + 1
           /\ \A f, g \in 0..(Frames - 1) : Dist(f, k) = Dist(g, k) => f = g
           /\ \A f \in 0..(Frames - 1) : Dist(f, k) < Frames =>
                 \E g \in 0..(Frames - 1) : Dist(g, k) = Dist(f, k) + 1
  <1>1. Frames \in Nat \ {0}
    BY DEF RingAssumption
  <1>2. \A f \in 0..(Frames - 1) : Dist(f, k) \in 1..Frames
    BY <1>1 DEF Dist
  <1>3. Dist(k, k) = Frames
    BY <1>1 DEF Dist
  <1>4. NextIndex(k) \in 0..(Frames - 1) /\ Dist(k, NextIndex(k)) = 1
    BY <1>1 DEF Dist, NextIndex
  <1>5. \A f \in 0..(Frames - 1) : f # k => Dist(f, NextIndex(k)) = Dist(f, k) + 1
    BY <1>1 DEF Dist, NextIndex
  <1>6. \A f, g \in 0..(Frames - 1) : Dist(f, k) = Dist(g, k) => f = g
    BY <1>1 DEF Dist
  <1>7. ASSUME NEW f \in 0..(Frames - 1), Dist(f, k) < Frames
        PROVE  \E g \in 0..(Frames - 1) : Dist(g, k) = Dist(f, k) + 1
    <2> DEFINE g == IF f = 0 THEN Frames - 1 ELSE f - 1
    <2>1. g \in 0..(Frames - 1) /\ Dist(g, k) = Dist(f, k) + 1
      BY <1>1, <1>7 DEF Dist
    <2> QED
      BY <2>1
  <1> QED
    BY <1>1, <1>2, <1>3, <1>4, <1>5, <1>6, <1>7

\* With fewer chunks in flight than slots, the slot of the next chunk is free.
LEMMA NextSlotFree ==
    ASSUME RingAssumption, NEW sl \in SlotTable, NEW k \in 0..(Frames - 1), NEW lo, NEW hi,
           SlotsOrdered(sl, k, lo, hi), Cardinality({f \in DOMAIN sl : sl[f].active}) < Frames
    PROVE  ~sl[k].active
  <1> SUFFICES ASSUME sl[k].active PROVE FALSE
    OBVIOUS
  <1>1. Frames \in Nat \ {0} /\ (\A f \in 0..(Frames - 1) : Dist(f, k) \in 1..Frames) /\ Dist(k, k) = Frames
    BY DistIs
  <1>2. PICK n \in 0..Frames : \A f \in 0..(Frames - 1) : sl[f].active <=> Dist(f, k) <= n
    BY DEF SlotsOrdered
  <1>3. n = Frames
    BY <1>1, <1>2
  <1>4. \A f \in 0..(Frames - 1) : sl[f].active
    BY <1>1, <1>2, <1>3
  <1>0. PICK A : A = {f \in DOMAIN sl : sl[f].active} /\ Cardinality(A) < Frames
    OBVIOUS
  <1>5. A = 0..(Frames - 1)
    BY <1>0, <1>4 DEF SlotTable
  <1>6. Cardinality(0..(Frames - 1)) = Frames
    <2>1. 0 \in Int /\ Frames - 1 \in Int
      BY <1>1
    <2>2. Cardinality(0..(Frames - 1)) = IF 0 > Frames - 1 THEN 0 ELSE (Frames - 1) - 0 + 1
      BY <2>1, FS_Interval
    <2> QED
      BY <2>2, <1>1
  <1> QED
    <2>1. Cardinality(A) = Frames
      BY <1>5, <1>6, Zenon
    <2> QED
      BY <2>1, <1>0, <1>1

\* The next chunk takes the next slot.
LEMMA SlotsIssue ==
    ASSUME RingAssumption, NEW sl \in SlotTable, NEW tl \in SlotTable, NEW k \in 0..(Frames - 1),
           NEW lo \in Nat, NEW hi \in Nat, NEW n \in Nat \ {0}, lo <= hi,
           SlotsOrdered(sl, k, lo, hi), ~sl[k].active,
           tl[k].active, tl[k].first = hi, tl[k].count = n,
           \A f \in 0..(Frames - 1) : f # k => tl[f] = sl[f]
    PROVE  SlotsOrdered(tl, NextIndex(k), lo, hi + n)
  <1> DEFINE F == 0..(Frames - 1)
             k1 == NextIndex(k)
  <1>1. /\ Frames \in Nat \ {0} /\ (\A f \in F : Dist(f, k) \in 1..Frames) /\ Dist(k, k) = Frames
        /\ k1 \in F /\ Dist(k, k1) = 1
        /\ \A f \in F : f # k => Dist(f, k1) = Dist(f, k) + 1
    BY DistIs
  <1>2. PICK j \in 0..Frames : \A f \in F : sl[f].active <=> Dist(f, k) <= j
    BY DEF SlotsOrdered
  <1>3. \A f \in F : /\ sl[f].first \in Nat /\ sl[f].count \in Nat /\ After(sl[f]) \in Nat
                     /\ tl[f].first \in Nat /\ tl[f].count \in Nat
    BY SMTT(30) DEF SlotTable, After
  <1>4. After(tl[k]) = hi + n
    BY DEF After
  <1> HIDE DEF F, k1
  <1>5. j < Frames
    BY <1>1, <1>2 DEF F
  <1>6. \E i \in 0..Frames : \A f \in F : tl[f].active <=> Dist(f, k1) <= i
    <2>1. j + 1 \in 0..Frames
      BY <1>5, <1>1
    <2>2. ASSUME NEW f \in F PROVE tl[f].active <=> Dist(f, k1) <= j + 1
      <3>1. CASE f = k
        BY <3>1, <1>1
      <3>2. CASE f # k
        <4>1. tl[f] = sl[f] /\ Dist(f, k1) = Dist(f, k) + 1 /\ Dist(f, k) \in 1..Frames
          BY <3>2, <1>1 DEF F
        <4>2. Dist(f, k1) <= j + 1 <=> Dist(f, k) <= j
          BY <4>1, <1>1
        <4> QED
          BY <4>1, <4>2, <1>2
      <3> QED
        BY <3>1, <3>2
    <2> QED
      BY <2>1, <2>2
  <1>7. ASSUME NEW f \in F, tl[f].active
        PROVE  tl[f].count > 0 /\ lo <= tl[f].first /\ After(tl[f]) <= hi + n
    <2>1. CASE f = k
      BY <2>1, <1>4
    <2>2. CASE f # k
      <3>1. tl[f] = sl[f]
        BY <2>2 DEF F
      <3>2. sl[f].count > 0 /\ lo <= sl[f].first /\ After(sl[f]) <= hi
        BY <3>1, <1>7 DEF SlotsOrdered, F
      <3> QED
        BY <3>1, <3>2, <1>3
    <2> QED
      BY <2>1, <2>2
  <1>8. ASSUME NEW f \in F, NEW g \in F, tl[f].active, tl[g].active, Dist(g, k1) < Dist(f, k1)
        PROVE  After(tl[f]) <= tl[g].first
    <2>1. f # k
      BY <1>8, <1>1 DEF F
    <2>2. tl[f] = sl[f] /\ Dist(f, k1) = Dist(f, k) + 1
      BY <2>1, <1>1 DEF F
    <2>3. CASE g = k
      BY <2>2, <2>3, <1>8 DEF SlotsOrdered, F
    <2>4. CASE g # k
      <3>1. tl[g] = sl[g] /\ Dist(g, k1) = Dist(g, k) + 1
        BY <2>4, <1>1 DEF F
      <3>2. Dist(g, k) < Dist(f, k)
        BY <3>1, <2>2, <1>8, <1>1
      <3> QED
        BY <3>1, <3>2, <2>2, <1>8 DEF SlotsOrdered, F
    <2> QED
      BY <2>3, <2>4
  <1>9. \E f \in F : tl[f].active /\ After(tl[f]) = hi + n
    BY <1>4 DEF F
  <1> QED
    BY <1>6, <1>7, <1>8, <1>9 DEF SlotsOrdered, F, k1

\* The chunk that completes is the oldest one, and its slot the last in the order.
LEMMA SlotsFinish ==
    ASSUME RingAssumption, NEW sl \in SlotTable, NEW tl \in SlotTable, NEW k \in 0..(Frames - 1),
           NEW lo \in Nat, NEW hi \in Nat, SlotsOrdered(sl, k, lo, hi),
           NEW f \in 0..(Frames - 1), sl[f].active, sl[f].first = lo, ~tl[f].active,
           \A g \in 0..(Frames - 1) : g # f => tl[g] = sl[g]
    PROVE  SlotsOrdered(tl, k, lo + sl[f].count, hi)
  <1> DEFINE F == 0..(Frames - 1)
  <1>1. /\ Frames \in Nat \ {0} /\ (\A g \in F : Dist(g, k) \in 1..Frames)
        /\ (\A h, g \in F : Dist(h, k) = Dist(g, k) => h = g)
        /\ \A h \in F : Dist(h, k) < Frames => \E g \in F : Dist(g, k) = Dist(h, k) + 1
    BY DistIs
  <1>2. PICK j \in 0..Frames : \A g \in F : sl[g].active <=> Dist(g, k) <= j
    BY DEF SlotsOrdered
  <1>3. \A g \in F : sl[g].first \in Nat /\ sl[g].count \in Nat /\ After(sl[g]) \in Nat
                     /\ After(sl[g]) = sl[g].first + sl[g].count
    BY DEF SlotTable, After
  <1>4. /\ \A g \in F : sl[g].active => sl[g].count > 0 /\ lo <= sl[g].first /\ After(sl[g]) <= hi
        /\ \A h, g \in F : (sl[h].active /\ sl[g].active /\ Dist(g, k) < Dist(h, k)) =>
                After(sl[h]) <= sl[g].first
        /\ lo = hi \/ \E g \in F : sl[g].active /\ After(sl[g]) = hi
    BY DEF SlotsOrdered
  <1>5. f \in F /\ \A g \in F : g # f => tl[g] = sl[g]
    OBVIOUS
  <1> HIDE DEF F
  <1>6. j = Dist(f, k)
    <2>1. Dist(f, k) <= j
      BY <1>2, <1>5
    <2>2. ASSUME Dist(f, k) < j PROVE FALSE
      <3>1. PICK g \in F : Dist(g, k) = Dist(f, k) + 1
        BY <2>2, <1>1, <1>5
      <3>2. Dist(g, k) <= j /\ Dist(f, k) < Dist(g, k)
        BY <3>1, <2>2, <1>1, <1>5
      <3>3. sl[g].active
        BY <3>2, <1>2
      <3>4. After(sl[g]) <= sl[f].first
        BY <3>2, <3>3, <1>4, <1>5
      <3> QED
        BY <3>3, <3>4, <1>3, <1>4
    <2> QED
      BY <2>1, <2>2, <1>1, <1>5
  <1>7. \E i \in 0..Frames : \A g \in F : tl[g].active <=> Dist(g, k) <= i
    <2>1. j - 1 \in 0..Frames
      BY <1>6, <1>1, <1>5
    <2>2. ASSUME NEW g \in F PROVE tl[g].active <=> Dist(g, k) <= j - 1
      <3>1. CASE g = f
        BY <3>1, <1>1, <1>5, <1>6
      <3>2. CASE g # f
        <4>1. Dist(g, k) # j
          BY <3>2, <1>1, <1>5, <1>6
        <4>2. Dist(g, k) <= j - 1 <=> Dist(g, k) <= j
          BY <4>1, <1>1
        <4> QED
          BY <4>2, <3>2, <1>2, <1>5
      <3> QED
        BY <3>1, <3>2
    <2> QED
      BY <2>1, <2>2
  <1>8. ASSUME NEW g \in F, tl[g].active
        PROVE  tl[g].count > 0 /\ lo + sl[f].count <= tl[g].first /\ After(tl[g]) <= hi
    <2>1. g # f /\ tl[g] = sl[g]
      BY <1>8, <1>5
    <2>2. Dist(g, k) < Dist(f, k)
      BY <2>1, <1>8, <1>2, <1>6, <1>1, <1>5
    <2>3. After(sl[f]) <= sl[g].first
      BY <2>1, <2>2, <1>8, <1>4, <1>5
    <2> QED
      BY <2>1, <2>3, <1>8, <1>3, <1>4, <1>5
  <1>9. ASSUME NEW h \in F, NEW g \in F, tl[h].active, tl[g].active, Dist(g, k) < Dist(h, k)
        PROVE  After(tl[h]) <= tl[g].first
    <2>1. tl[h] = sl[h] /\ tl[g] = sl[g]
      BY <1>9, <1>5
    <2> QED
      BY <2>1, <1>9, <1>4
  <1>10. lo + sl[f].count = hi \/ \E g \in F : tl[g].active /\ After(tl[g]) = hi
    <2>1. lo # hi
      BY <1>3, <1>4, <1>5
    <2>2. PICK g \in F : sl[g].active /\ After(sl[g]) = hi
      BY <2>1, <1>4
    <2>3. CASE g = f
      BY <2>2, <2>3, <1>3
    <2>4. CASE g # f
      BY <2>2, <2>4, <1>5
    <2> QED
      BY <2>3, <2>4
  <1> QED
    BY <1>7, <1>8, <1>9, <1>10 DEF SlotsOrdered, F

\* Small multiples.
LEMMA Multiples ==
    ASSUME NEW F \in Nat \ {0}, NEW x \in Int
    PROVE  F * x \in Int /\ (x >= 2 => F * x >= F + F) /\ (x <= -1 => F * x <= -F) /\ (x = 0 => F * x = 0) /\ (x = 1 => F * x = F)
  <1>1. F * x \in Int
    OBVIOUS
  <1>2. ASSUME x >= 2 PROVE F * x >= F + F
    <2>1. PICK y \in Nat : x = y + 2
      <3>1. x - 2 \in Nat /\ x = (x - 2) + 2
        BY <1>2
      <3> QED BY <3>1
    <2>2. F * x = F * y + F + F /\ F * y >= 0
      BY <2>1
    <2> QED BY <2>1, <2>2
  <1>3. ASSUME x <= -1 PROVE F * x <= -F
    <2>1. PICK y \in Nat : x = -1 - y
      <3>1. -1 - x \in Nat /\ x = -1 - (-1 - x)
        BY <1>3
      <3> QED BY <3>1
    <2>2. F * x = -F - F * y /\ F * y >= 0
      BY <2>1
    <2> QED BY <2>1, <2>2
  <1> QED BY <1>1, <1>2, <1>3

\* What a division leaves.
LEMMA DivisionIs ==
    ASSUME NEW F \in Nat \ {0}, NEW c \in Nat
    PROVE  c % F \in 0..(F - 1) /\ c \div F \in Int /\ c = (F * (c \div F)) + (c % F)
  <1>1. c % F \in 0..(F - 1)
    OBVIOUS
  <1>2. c \div F \in Int
    OBVIOUS
  <1>3. c = (F * (c \div F)) + (c % F)
    OBVIOUS
  <1> QED BY <1>1, <1>2, <1>3

\* The remainder of the next number.
LEMMA NextRemainder ==
    ASSUME NEW F \in Nat \ {0}, NEW c \in Nat
    PROVE  (c + 1) % F = IF (c % F) + 1 = F THEN 0 ELSE (c % F) + 1
  <1>1. PICK a, r : a = c \div F /\ r = c % F
    OBVIOUS
  <1>2. PICK b, s : b = (c + 1) \div F /\ s = (c + 1) % F
    OBVIOUS
  <1>3. a \in Int /\ r \in 0..(F - 1) /\ c = F * a + r
    BY <1>1, DivisionIs
  <1>4. b \in Int /\ s \in 0..(F - 1) /\ c + 1 = F * b + s
    BY <1>2, DivisionIs
  <1>5. F * (b - a) = F * b - F * a
    BY <1>3, <1>4
  <1>6. PICK x : x = b - a
    OBVIOUS
  <1>7. x \in Int /\ F * x = r + 1 - s
    BY <1>3, <1>4, <1>5, <1>6
  <1>8. x = 0 \/ x = 1
    BY <1>3, <1>4, <1>7, Multiples
  <1> QED
    BY <1>1, <1>2, <1>3, <1>4, <1>7, <1>8, Multiples

\* The slots of consecutive chunks.
LEMMA NextSlot ==
    ASSUME RingAssumption, NEW c \in Nat
    PROVE  c % Frames \in 0..(Frames - 1) /\ (c + 1) % Frames = NextIndex(c % Frames)
  <1>1. Frames \in Nat \ {0}
    BY DEF RingAssumption
  <1> QED
    BY <1>1, DivisionIs, NextRemainder DEF NextIndex

\* Between two neighbours there is room for one number.
LEMMA Between ==
    ASSUME NEW lo \in Nat, NEW x \in Nat, NEW f \in Nat, NEW g \in Nat, NEW y \in Nat,
           lo <= x, x <= f, f < g, g <= y, y <= lo + 1
    PROVE  x = lo /\ f = lo /\ g = lo + 1 /\ y = lo + 1
  OBVIOUS

\* The stages before and after one.
LEMMA StageSteps ==
    ASSUME RingAssumption, NEW s \in Stages
    PROVE  s \in Nat \ {0} /\ s <= LastBlock + 1 /\ s - 1 \in 0..(LastBlock + 1) /\ s \in 0..(LastBlock + 1)
           /\ 0 \in 0..(LastBlock + 1) /\ LastBlock + 1 \in 0..(LastBlock + 1) /\ 0 <= s - 1
  <1>1. LastBlock \in Nat \ {0}
    BY DEF RingAssumption, LastBlock
  <1> QED
    BY <1>1 DEF Stages

\* A token is at one place of the ring.
LEMMA OneFrame ==
    ASSUME RingAssumption, NEW P \in Pipes, NEW bd \in Points, Flow(P, bd), Layered(P),
           NEW lo \in Nat, bd[LastBlock + 1] = lo, bd[0] = lo + 1,
           NEW l \in Links, NEW i \in 1..Len(P[l]), NEW k \in Links, NEW j \in 1..Len(P[k])
    PROVE  /\ P[l][i].first = lo /\ After(P[l][i]) = lo + 1
           /\ l = k /\ i = j
  <1>l. LastBlock \in Nat \ {0}
    BY DEF RingAssumption, LastBlock
  <1>p. PICK m, n : m = P[l][i] /\ n = P[k][j]
    OBVIOUS
  <1>0. \A t \in 0..(LastBlock + 1) : bd[t] \in Nat
    BY DEF Points
  <1>1. /\ Stage(m) \in Stages /\ Stage(m) \in 0..(LastBlock + 1) /\ m.first \in Nat /\ After(m) \in Nat
        /\ m.first < After(m) /\ l = Route(Stage(m))
        /\ Stage(n) \in Stages /\ Stage(n) \in 0..(LastBlock + 1) /\ n.first \in Nat /\ After(n) \in Nat
        /\ n.first < After(n) /\ k = Route(Stage(n))
    BY <1>p, Located
  <1>2. /\ bd[Stage(m)] <= m.first /\ After(m) <= Reach(bd)[Stage(m)]
        /\ bd[Stage(n)] <= n.first /\ After(n) <= Reach(bd)[Stage(n)]
    BY <1>p DEF Flow, Covers
  <1>3. /\ Reach(bd)[Stage(m)] = bd[Stage(m) - 1] /\ Stage(m) - 1 \in 0..(LastBlock + 1)
        /\ Reach(bd)[Stage(n)] = bd[Stage(n) - 1] /\ Stage(n) - 1 \in 0..(LastBlock + 1)
    BY <1>1, ReachIs
  <1>d. \A a, b \in 0..(LastBlock + 1) : a <= b => bd[b] <= bd[a]
    BY DEF Flow, Descends
  <1>5. l = k => ((i < j /\ Stage(m) = Stage(n)) => After(m) <= n.first)
                 /\ ((j < i /\ Stage(m) = Stage(n)) => After(n) <= m.first)
    BY <1>p DEF Flow, Covers
  <1>n. PICK a, b : a = Stage(m) /\ b = Stage(n)
    OBVIOUS
  <1>a. a \in Stages /\ b \in Stages
    BY <1>1, <1>n
  <1>z. /\ a \in Nat /\ b \in Nat /\ a \in 0..(LastBlock + 1) /\ b \in 0..(LastBlock + 1)
        /\ a - 1 \in 0..(LastBlock + 1) /\ b - 1 \in 0..(LastBlock + 1)
        /\ 0 \in 0..(LastBlock + 1) /\ LastBlock + 1 \in 0..(LastBlock + 1)
        /\ a <= LastBlock + 1 /\ b <= LastBlock + 1 /\ 0 <= a - 1 /\ 0 <= b - 1
    BY <1>a, StageSteps
  <1>4. bd[LastBlock + 1] <= bd[a] /\ bd[a - 1] <= bd[0] /\ bd[LastBlock + 1] <= bd[b] /\ bd[b - 1] <= bd[0]
    BY <1>z, <1>d
  <1>t. bd[a] \in Nat /\ bd[a - 1] \in Nat /\ bd[b] \in Nat /\ bd[b - 1] \in Nat
    BY <1>0, <1>z
  <1>6. /\ m.first = lo /\ After(m) = lo + 1 /\ n.first = lo /\ After(n) = lo + 1
        /\ bd[a] = lo /\ bd[a - 1] = lo + 1 /\ bd[b] = lo /\ bd[b - 1] = lo + 1
    <2>1. lo <= bd[a] /\ bd[a - 1] <= lo + 1 /\ lo <= bd[b] /\ bd[b - 1] <= lo + 1
      BY <1>4
    <2>2. bd[a] <= m.first /\ After(m) <= bd[a - 1] /\ bd[b] <= n.first /\ After(n) <= bd[b - 1]
      BY <1>2, <1>3, <1>n
    <2>3. m.first \in Nat /\ After(m) \in Nat /\ m.first < After(m) /\ n.first \in Nat /\ After(n) \in Nat /\ n.first < After(n)
      BY <1>1
    <2>4. bd[a] = lo /\ m.first = lo /\ After(m) = lo + 1 /\ bd[a - 1] = lo + 1
      BY <2>1, <2>2, <2>3, <1>t, Between, SMTT(30)
    <2>5. bd[b] = lo /\ n.first = lo /\ After(n) = lo + 1 /\ bd[b - 1] = lo + 1
      BY <2>1, <2>2, <2>3, <1>t, Between, SMTT(30)
    <2> QED
      BY <2>4, <2>5
  <1>7. Stage(m) = Stage(n)
    <2>1. ASSUME a <= b - 1 PROVE FALSE
      <3>1. bd[b - 1] <= bd[a]
        BY <2>1, <1>z, <1>d
      <3> QED
        BY <3>1, <1>6
    <2>2. ASSUME b <= a - 1 PROVE FALSE
      <3>1. bd[a - 1] <= bd[b]
        BY <2>2, <1>z, <1>d
      <3> QED
        BY <3>1, <1>6
    <2>3. a = b
      BY <2>1, <2>2, <1>z
    <2> QED
      BY <2>3, <1>n
  <1>8. l = k
    BY <1>1, <1>7
  <1>9. i = j
    <2>1. i \in Int /\ j \in Int
      BY DEF Pipes
    <2> QED
      BY <2>1, <1>5, <1>6, <1>7, <1>8
  <1> QED
    BY <1>p, <1>6, <1>8, <1>9

-----------------------------------------------------------------------------
(* What the steps do to the pipes. *)

\* The sends under way, rank by rank.
LEMMA WireFacts ==
    ASSUME RingAssumption, NEW L, NEW o, NEW w, WireTyped(L, o, w)
    PROVE  /\ L \in Pipes /\ SendsOf(o, w) \in SendTable /\ PipeOf(L, SendsOf(o, w)) \in Pipes
           /\ 0 \in RingRanks /\ Workers \subseteq RingRanks /\ 0 \notin Workers
           /\ SendsOf(o, w)[0] = o /\ \A r \in Workers : SendsOf(o, w)[r] = w[r]
  <1>1. 0 \in RingRanks /\ Workers \subseteq RingRanks /\ 0 \notin Workers /\ RingRanks = Workers \cup {0}
    BY DEF RingRanks, Workers
  <1>2. SendsOf(o, w) \in SendTable
    <2>1. ASSUME NEW r \in RingRanks
          PROVE  (IF r = 0 THEN o ELSE w[r]) \in {<<>>} \cup (RingRanks \X RingFrames)
      <3>1. CASE r = 0
        BY <3>1, <1>1 DEF WireTyped
      <3>2. CASE r # 0
        BY <3>2, <1>1 DEF WireTyped
      <3> QED
        BY <3>1, <3>2
    <2> QED
      BY <2>1 DEF SendsOf, SendTable
  <1>3. SendsOf(o, w)[0] = o /\ \A r \in Workers : SendsOf(o, w)[r] = w[r]
    BY <1>1 DEF SendsOf
  <1> QED
    BY <1>1, <1>2, <1>3, PipeType DEF WireTyped

\* A link takes the frame rank 0 sends.
LEMMA HostSentPipe ==
    ASSUME RingAssumption, NEW L, NEW o, NEW w, WireTyped(L, o, w), o # <<>>
    PROVE  /\ <<0, o[1]>> \in Links
           /\ WireTyped([L EXCEPT ![<<0, o[1]>>] = Append(@, o[2])], <<>>, w)
           /\ PipeOf([L EXCEPT ![<<0, o[1]>>] = Append(@, o[2])], SendsOf(<<>>, w)) = PipeOf(L, SendsOf(o, w))
  <1>1. L \in Pipes /\ o[1] \in Workers /\ o[2] \in RingFrames
    BY DEF WireTyped
  <1>2. PICK l, K : l = <<0, o[1]>> /\ K = [L EXCEPT ![l] = Append(@, o[2])]
    OBVIOUS
  <1>3. l \in Links
    BY <1>1, <1>2 DEF Links, RingRanks, Workers
  <1>4. K \in Pipes /\ Added(L, K, l, o[2])
    <2>1. Append(L[l], o[2]) \in Seq(RingFrames)
      BY <1>1, <1>3 DEF Pipes
    <2>2. K[l] = Append(L[l], o[2]) /\ \A k \in Links : k # l => K[k] = L[k]
      BY <1>1, <1>2, <1>3 DEF Pipes
    <2>3. K \in Pipes
      BY <2>1, <1>1, <1>2, <1>3 DEF Pipes
    <2> QED
      BY <2>2, <2>3 DEF Added
  <1>5. WireTyped(K, <<>>, w)
    BY <1>4 DEF WireTyped
  <1>6. PipeOf(K, SendsOf(<<>>, w)) = PipeOf(L, SendsOf(o, w))
    <2>1. PICK S, T : S = SendsOf(o, w) /\ T = SendsOf(<<>>, w)
      OBVIOUS
    <2>2. S \in SendTable /\ T \in SendTable /\ 0 \in RingRanks /\ S[0] = o /\ T[0] = <<>>
      BY <2>1, <1>5, WireFacts
    <2>3. \A q \in RingRanks : q # 0 => T[q] = S[q]
      BY <2>1 DEF SendsOf
    <2> QED
      BY <2>1, <2>2, <2>3, <1>1, <1>2, <1>3, <1>4, PipeSent
  <1> QED
    BY <1>2, <1>3, <1>5, <1>6

\* A link that takes a frame, and one that gives its oldest frame.
LEMMA LinkAppend ==
    ASSUME NEW L \in Pipes, NEW l \in Links, NEW n \in RingFrames, NEW K, K = [L EXCEPT ![l] = Append(L[l], n)]
    PROVE  K \in Pipes /\ Added(L, K, l, n) /\ Len(K[l]) = Len(L[l]) + 1 /\ Len(L[l]) \in Nat
  <1>1. Append(L[l], n) \in Seq(RingFrames) /\ Len(Append(L[l], n)) = Len(L[l]) + 1 /\ Len(L[l]) \in Nat
    BY DEF Pipes
  <1>2. K[l] = Append(L[l], n) /\ \A k \in Links : k # l => K[k] = L[k]
    BY DEF Pipes
  <1>3. K \in Pipes
    BY <1>1 DEF Pipes
  <1> QED
    BY <1>1, <1>2, <1>3 DEF Added

\* A link whose oldest frame is taken.
LEMMA LinkTail ==
    ASSUME NEW L \in Pipes, NEW l \in Links, L[l] # <<>>, NEW K, K = [L EXCEPT ![l] = Tail(L[l])]
    PROVE  K \in Pipes /\ Taken(L, K, l) /\ Len(K[l]) = Len(L[l]) - 1 /\ Len(L[l]) \in Nat
  <1>1. Tail(L[l]) \in Seq(RingFrames) /\ Len(Tail(L[l])) = Len(L[l]) - 1 /\ Len(L[l]) \in Nat
    BY DEF Pipes
  <1>2. K[l] = Tail(L[l]) /\ \A k \in Links : k # l => K[k] = L[k]
    BY DEF Pipes
  <1>3. K \in Pipes
    BY <1>1 DEF Pipes
  <1> QED
    BY <1>1, <1>2, <1>3 DEF Taken

\* The table of a worker that starts or ends a send.
LEMMA TableUpdate ==
    ASSUME NEW w, DOMAIN w = Workers, NEW r \in Workers, NEW y, NEW x, x = [w EXCEPT ![r] = y]
    PROVE  Updated(w, x, r, y) /\ DOMAIN x = Workers
  BY DEF Updated

\* One worker's send changes.
LEMMA TypedUpdate ==
    ASSUME RingAssumption, NEW L, NEW o, NEW w, WireTyped(L, o, w), NEW r \in Workers, NEW y, NEW x,
           Updated(w, x, r, y), y = <<>> \/ (y \in RingRanks \X RingFrames /\ y[1] # r), NEW K \in Pipes
    PROVE  /\ WireTyped(K, o, x) /\ r \in RingRanks
           /\ SendsOf(o, w)[r] = w[r] /\ SendsOf(o, x)[r] = y
           /\ \A q \in RingRanks : q # r => SendsOf(o, x)[q] = SendsOf(o, w)[q]
  <1>1. ASSUME NEW q \in Workers PROVE x[q] = <<>> \/ (x[q] \in RingRanks \X RingFrames /\ x[q][1] # q)
    <2>1. CASE q = r
      BY <2>1 DEF Updated
    <2>2. CASE q # r
      BY <2>2 DEF Updated, WireTyped
    <2> QED
      BY <2>1, <2>2
  <1>2. WireTyped(K, o, x)
    BY <1>1 DEF WireTyped
  <1>3. r \in RingRanks /\ SendsOf(o, w)[r] = w[r]
    BY WireFacts
  <1>4. SendsOf(o, x)[r] = x[r]
    BY <1>2, WireFacts
  <1>5. \A q \in RingRanks : q # r => SendsOf(o, x)[q] = SendsOf(o, w)[q]
    BY DEF SendsOf, Updated, Workers
  <1> QED
    BY <1>2, <1>3, <1>4, <1>5 DEF Updated

\* A link takes the frame a worker sends.
LEMMA WorkerSentPipe ==
    ASSUME RingAssumption, NEW L, NEW o, NEW w, WireTyped(L, o, w),
           NEW r \in Workers, w[r] # <<>>, NEW l \in Links, l = <<r, w[r][1]>>,
           NEW K \in Pipes, Added(L, K, l, w[r][2]), NEW x, Updated(w, x, r, <<>>)
    PROVE  WireTyped(K, o, x) /\ PipeOf(K, SendsOf(o, x)) = PipeOf(L, SendsOf(o, w))
  <1>1. /\ WireTyped(K, o, x) /\ r \in RingRanks
        /\ SendsOf(o, w)[r] = w[r] /\ SendsOf(o, x)[r] = <<>>
        /\ \A q \in RingRanks : q # r => SendsOf(o, x)[q] = SendsOf(o, w)[q]
    BY TypedUpdate
  <1>2. L \in Pipes /\ SendsOf(o, w) \in SendTable /\ SendsOf(o, x) \in SendTable
    BY <1>1, WireFacts
  <1>3. PICK S, T : S = SendsOf(o, w) /\ T = SendsOf(o, x)
    OBVIOUS
  <1>4. /\ S \in SendTable /\ T \in SendTable /\ S[r] # <<>> /\ l = <<r, S[r][1]>> /\ Added(L, K, l, S[r][2])
        /\ T[r] = <<>> /\ \A q \in RingRanks : q # r => T[q] = S[q]
    BY <1>1, <1>2, <1>3
  <1>5. PipeOf(K, T) = PipeOf(L, S)
    BY <1>1, <1>2, <1>4, PipeSent
  <1> QED
    BY <1>1, <1>3, <1>5

\* Rank 0 starts a send.
LEMMA HostSendPipe ==
    ASSUME RingAssumption, NEW L, NEW w, WireTyped(L, <<>>, w),
           NEW q \in Workers, NEW n \in RingFrames
    PROVE  /\ <<0, q>> \in Links /\ WireTyped(L, <<q, n>>, w)
           /\ Added(PipeOf(L, SendsOf(<<>>, w)), PipeOf(L, SendsOf(<<q, n>>, w)), <<0, q>>, n)
  <1>1. PICK l : l = <<0, q>>
    OBVIOUS
  <1>2. l \in Links /\ l[1] = 0 /\ l[2] = q
    BY <1>1 DEF Links, RingRanks, Workers
  <1>3. WireTyped(L, <<q, n>>, w)
    BY DEF WireTyped
  <1>4. PICK S, T : S = SendsOf(<<>>, w) /\ T = SendsOf(<<q, n>>, w)
    OBVIOUS
  <1>5. L \in Pipes /\ S \in SendTable /\ T \in SendTable /\ 0 \in RingRanks /\ S[0] = <<>> /\ T[0] = <<q, n>>
    BY <1>3, <1>4, WireFacts
  <1>6. \A k \in RingRanks : k # 0 => T[k] = S[k]
    BY <1>4 DEF SendsOf
  <1>7. Added(PipeOf(L, S), PipeOf(L, T), l, n)
    BY <1>2, <1>5, <1>6, PipeSend
  <1> QED
    BY <1>1, <1>2, <1>3, <1>4, <1>7

\* A worker starts a send.
LEMMA WorkerSendPipe ==
    ASSUME RingAssumption, NEW L, NEW o, NEW w, WireTyped(L, o, w),
           NEW r \in Workers, w[r] = <<>>, NEW q \in RingRanks, q # r, NEW n \in RingFrames,
           NEW x, Updated(w, x, r, <<q, n>>), NEW l, l = <<r, q>>
    PROVE  /\ l \in Links /\ WireTyped(L, o, x)
           /\ Added(PipeOf(L, SendsOf(o, w)), PipeOf(L, SendsOf(o, x)), l, n)
  <1>0. L \in Pipes /\ SendsOf(o, w) \in SendTable
    BY WireFacts
  <1>1. /\ WireTyped(L, o, x) /\ r \in RingRanks
        /\ SendsOf(o, w)[r] = w[r] /\ SendsOf(o, x)[r] = <<q, n>>
        /\ \A k \in RingRanks : k # r => SendsOf(o, x)[k] = SendsOf(o, w)[k]
    <2>1. PICK y : y = <<q, n>>
      OBVIOUS
    <2>2. y \in RingRanks \X RingFrames /\ y[1] # r
      BY <2>1
    <2> QED
      BY <2>1, <2>2, <1>0, TypedUpdate
  <1>2. l \in Links /\ l[1] = r /\ l[2] = q
    BY <1>1 DEF Links
  <1>3. PICK S, T : S = SendsOf(o, w) /\ T = SendsOf(o, x)
    OBVIOUS
  <1>4. S \in SendTable /\ T \in SendTable
    BY <1>0, <1>1, <1>3, WireFacts
  <1>5. S[r] = <<>> /\ T[r] = <<l[2], n>> /\ \A k \in RingRanks : k # r => T[k] = S[k]
    BY <1>1, <1>2, <1>3
  <1>6. Added(PipeOf(L, S), PipeOf(L, T), l, n)
    BY <1>0, <1>1, <1>2, <1>4, <1>5, PipeSend
  <1> QED
    BY <1>1, <1>2, <1>3, <1>6

\* A rank takes the oldest frame of a link.
LEMMA TakePipe ==
    ASSUME RingAssumption, NEW L, NEW o, NEW w, WireTyped(L, o, w), NEW l \in Links,
           NEW K \in Pipes, Taken(L, K, l)
    PROVE  /\ WireTyped(K, o, w) /\ Taken(PipeOf(L, SendsOf(o, w)), PipeOf(K, SendsOf(o, w)), l)
           /\ PipeOf(L, SendsOf(o, w))[l][1] = Head(L[l])
           /\ Head(L[l]) \in RingFrames /\ Head(L[l]) \in OnLink(PipeOf(L, SendsOf(o, w)), l)
  <1>1. L \in Pipes /\ SendsOf(o, w) \in SendTable
    BY WireFacts
  <1>2. L[l] # <<>>
    BY DEF Taken
  <1>6. WireTyped(K, o, w)
    BY DEF WireTyped
  <1>7. Taken(PipeOf(L, SendsOf(o, w)), PipeOf(K, SendsOf(o, w)), l)
    BY <1>1, PipeTake
  <1>8. /\ PipeOf(L, SendsOf(o, w))[l][1] = Head(L[l]) /\ Head(L[l]) \in RingFrames
        /\ Head(L[l]) \in OnLink(PipeOf(L, SendsOf(o, w)), l)
    BY <1>1, <1>2, PipeHead
  <1> QED
    BY <1>6, <1>7, <1>8

\* Rank 0 gives up a send.
LEMMA DropPipe ==
    ASSUME RingAssumption, NEW L, NEW o, NEW w, WireTyped(L, o, w)
    PROVE  /\ WireTyped(L, <<>>, w)
           /\ \A l \in Links : OnLink(PipeOf(L, SendsOf(<<>>, w)), l) \subseteq OnLink(PipeOf(L, SendsOf(o, w)), l)
  <1>1. WireTyped(L, <<>>, w)
    BY DEF WireTyped
  <1>2. CASE o = <<>>
    BY <1>1, <1>2
  <1>3. CASE o # <<>>
    <2>1. o[1] \in Workers /\ o[2] \in RingFrames
      BY <1>3 DEF WireTyped
    <2>2. PICK q, n : q = o[1] /\ n = o[2]
      OBVIOUS
    <2>3. o = <<q, n>>
      BY <2>2, <1>3 DEF WireTyped
    <2>4. Added(PipeOf(L, SendsOf(<<>>, w)), PipeOf(L, SendsOf(o, w)), <<0, q>>, n) /\ <<0, q>> \in Links
      BY <2>1, <2>2, <2>3, <1>1, HostSendPipe
    <2>5. PICK P, Q, v : P = PipeOf(L, SendsOf(<<>>, w)) /\ Q = PipeOf(L, SendsOf(o, w)) /\ v = <<0, q>>
      OBVIOUS
    <2>6. P \in Pipes /\ Q \in Pipes /\ v \in Links /\ Added(P, Q, v, n)
      BY <2>4, <2>5, <1>1, WireFacts
    <2>7. ASSUME NEW l \in Links, NEW i \in 1..Len(P[l]) PROVE P[l][i] \in OnLink(Q, l)
      <3>1. P[l] \in Seq(RingFrames) /\ P[v] \in Seq(RingFrames)
        BY <2>6 DEF Pipes
      <3>2. i \in 1..Len(Q[l]) /\ Q[l][i] = P[l][i]
        <4>1. CASE l = v
          <5>1. Q[l] = Append(P[l], n)
            BY <4>1, <2>6 DEF Added
          <5> QED
            BY <5>1, <3>1
        <4>2. CASE l # v
          <5>1. Q[l] = P[l]
            BY <4>2, <2>6 DEF Added
          <5> QED
            BY <5>1
        <4> QED
          BY <4>1, <4>2
      <3> QED
        BY <3>2 DEF OnLink
    <2>8. \A l \in Links : OnLink(P, l) \subseteq OnLink(Q, l)
      BY <2>7 DEF OnLink
    <2> QED
      BY <2>5, <2>8, <1>1
  <1> QED
    BY <1>2, <1>3

\* A step that leaves the pipes and the call as they are.
LEMMA SoundSame ==
    ASSUME Sound, Pipe' = Pipe,
           UNCHANGED <<call, slot, chunk, prefilled, pos, session, mirror, frontier, wsession, ringDecode>>
    PROVE  Sound'
  <1>1. SessionsOK'
    BY DEF Sound, SessionsOK
  <1>2. InIdle => InIdle'
    BY DEF InIdle, Still, NotMirrored
  <1>3. InBegin => InBegin'
    BY DEF InBegin, Still, NotMirrored
  <1>4. InCall => InCall'
    BY DEF InCall, NotMirrored, SlotOfChunk
  <1>5. InDead => InDead'
    BY DEF InDead
  <1>6. InDecode => InDecode'
    BY DEF InDecode
  <1>7. InSync => InSync'
    <2>1. Awaited' = Awaited
      BY DEF Awaited
    <2> QED
      BY <2>1 DEF InSync
  <1>8. Still => Still'
    BY DEF Still
  <1> QED
    BY <1>1, <1>2, <1>3, <1>4, <1>5, <1>6, <1>7, <1>8 DEF Sound

\* The wires as the lemmas about pipes want them.
LEMMA PipeFacts ==
    ASSUME RingAssumption, WiresOK
    PROVE  /\ WireTyped(link, out, wout) /\ Pipe = PipeOf(link, SendsOf(out, wout)) /\ Pipe \in Pipes
           /\ link \in Pipes /\ DOMAIN wout = Workers /\ Routed(Pipe)
  BY WireFacts DEF WiresOK, Pipe, Sending

\* The link takes rank 0's frame: the pipes do not change.
LEMMA HostSentKeeps ==
    ASSUME RingAssumption, RingIInv, HostSent
    PROVE  RingIInv'
  <1>1. /\ WireTyped(link, out, wout) /\ Pipe = PipeOf(link, SendsOf(out, wout)) /\ link \in Pipes
        /\ DOMAIN wout = Workers /\ Routed(Pipe)
    BY PipeFacts DEF RingIInv
  <1>2. /\ out # <<>> /\ Len(link[<<0, out[1]>>]) < LinkCap /\ out' = <<>>
        /\ link' = [link EXCEPT ![<<0, out[1]>>] = Append(@, out[2])]
        /\ UNCHANGED <<call, slot, chunk, prefilled, pos, session, transport, mirror,
                       frontier, wsession, wout, died, faults, ringDecode>>
    BY DEF HostSent
  <1>3. <<0, out[1]>> \in Links /\ WireTyped(link', out', wout') /\ Pipe' = Pipe
    BY <1>1, <1>2, HostSentPipe DEF Pipe, Sending
  <1>4. WiresOK'
    BY <1>1, <1>2, <1>3 DEF WiresOK
  <1>5. StateOK'
    <2>1. \A l \in Links : Len(link'[l]) <= LinkCap
      <3> SUFFICES ASSUME NEW l \in Links PROVE Len(link'[l]) <= LinkCap
        OBVIOUS
      <3>1. CASE l = <<0, out[1]>>
        <4>1. link'[l] = Append(link[l], out[2]) /\ link[l] \in Seq(RingFrames)
          BY <3>1, <1>1, <1>2 DEF Pipes
        <4>2. Len(link'[l]) = Len(link[l]) + 1 /\ Len(link[l]) \in Nat
          BY <4>1
        <4> QED
          BY <4>2, <3>1, <1>2 DEF RingAssumption
      <3>2. CASE l # <<0, out[1]>>
        <4>1. link'[l] = link[l]
          BY <3>2, <1>1, <1>2 DEF Pipes
        <4> QED
          BY <4>1 DEF RingIInv, StateOK
      <3> QED
        BY <3>1, <3>2
    <2> QED
      BY <2>1, <1>2 DEF RingIInv, StateOK, InFlight
  <1>6. Causes'
    BY <1>2 DEF RingIInv, Causes
  <1>7. Doomed => Doomed'
    BY <1>2 DEF Doomed
  <1>8. Sound => Sound'
    BY <1>2, <1>3, SoundSame
  <1> QED
    BY <1>4, <1>5, <1>6, <1>7, <1>8 DEF RingIInv

\* The link takes a worker's frame: the pipes do not change.
LEMMA WorkerSentKeeps ==
    ASSUME RingAssumption, RingIInv, NEW r \in Workers, WorkerSent(r)
    PROVE  RingIInv'
  <1>1. /\ WireTyped(link, out, wout) /\ Pipe = PipeOf(link, SendsOf(out, wout)) /\ link \in Pipes
        /\ DOMAIN wout = Workers /\ Routed(Pipe)
    BY PipeFacts DEF RingIInv
  <1>2. /\ wout[r] # <<>> /\ Len(link[<<r, wout[r][1]>>]) < LinkCap
        /\ link' = [link EXCEPT ![<<r, wout[r][1]>>] = Append(@, wout[r][2])]
        /\ wout' = [wout EXCEPT ![r] = <<>>]
        /\ UNCHANGED <<call, slot, chunk, prefilled, pos, session, transport, out, mirror, ringDecode,
                       frontier, wsession, died, faults>>
    BY DEF WorkerSent, rank0
  <1>3. <<r, wout[r][1]>> \in Links /\ WireTyped(link', out', wout') /\ Pipe' = Pipe
    <2>0. wout[r][1] \in RingRanks /\ wout[r][1] # r /\ wout[r][2] \in RingFrames
      BY <1>1, <1>2 DEF WireTyped
    <2>1. PICK l : l = <<r, wout[r][1]>>
      OBVIOUS
    <2>2. l \in Links
      BY <2>0, <2>1 DEF Links, Workers
    <2>3. link' \in Pipes /\ Added(link, link', l, wout[r][2])
      BY <2>0, <2>1, <2>2, <1>1, <1>2, LinkAppend
    <2>4. Updated(wout, wout', r, <<>>)
      BY <1>1, <1>2, TableUpdate
    <2>5. WireTyped(link', out, wout') /\ PipeOf(link', SendsOf(out, wout')) = PipeOf(link, SendsOf(out, wout))
      BY <2>1, <2>2, <2>3, <2>4, <1>1, <1>2, WorkerSentPipe
    <2> QED
      BY <2>1, <2>2, <2>5, <1>2 DEF Pipe, Sending
  <1>4. WiresOK'
    BY <1>1, <1>2, <1>3 DEF WiresOK
  <1>5. StateOK'
    <2>1. \A l \in Links : Len(link'[l]) <= LinkCap
      <3> SUFFICES ASSUME NEW l \in Links PROVE Len(link'[l]) <= LinkCap
        OBVIOUS
      <3>1. CASE l = <<r, wout[r][1]>>
        <4>1. link'[l] = Append(link[l], wout[r][2]) /\ link[l] \in Seq(RingFrames)
          BY <3>1, <1>1, <1>2 DEF Pipes
        <4>2. Len(link'[l]) = Len(link[l]) + 1 /\ Len(link[l]) \in Nat
          BY <4>1
        <4> QED
          BY <4>2, <3>1, <1>2 DEF RingAssumption
      <3>2. CASE l # <<r, wout[r][1]>>
        <4>1. link'[l] = link[l]
          BY <3>2, <1>1, <1>2 DEF Pipes
        <4> QED
          BY <4>1 DEF RingIInv, StateOK
      <3> QED
        BY <3>1, <3>2
    <2> QED
      BY <2>1, <1>2 DEF RingIInv, StateOK, InFlight
  <1>6. Causes'
    BY <1>2 DEF RingIInv, Causes
  <1>7. Doomed => Doomed'
    BY <1>2 DEF Doomed
  <1>8. Sound => Sound'
    BY <1>2, <1>3, SoundSame
  <1> QED
    BY <1>4, <1>5, <1>6, <1>7, <1>8 DEF RingIInv

\* A step that leaves the wires alone leaves the pipes as they are.
LEMMA QuietWires ==
    ASSUME RingAssumption, WiresOK, UNCHANGED <<link, out, wout>>
    PROVE  WiresOK' /\ Pipe' = Pipe
  <1>1. Pipe' = Pipe
    BY DEF Pipe, Sending
  <1> QED
    BY <1>1 DEF WiresOK

\* A worker that ends, whatever the reason.
LEMMA WorkerEnds ==
    ASSUME RingAssumption, RingIInv, NEW r \in Workers, NEW why \in {"crash", "stale", "peer"},
           died[r] = "runs", died' = [died EXCEPT ![r] = why], faults' \in Nat,
           why = "crash" \/ \E q \in Workers : died[q] # "runs",
           UNCHANGED <<call, slot, chunk, prefilled, pos, session, transport, out, mirror, ringDecode,
                       frontier, link, wsession, wout>>
    PROVE  RingIInv'
  <1>1. WiresOK' /\ Pipe' = Pipe
    BY QuietWires DEF RingIInv
  <1>2. died \in [Workers -> {"runs", "crash", "stale", "peer"}]
    BY DEF RingIInv, StateOK
  <1>3. died' \in [Workers -> {"runs", "crash", "stale", "peer"}] /\ died'[r] = why
        /\ \A q \in Workers : q # r => died'[q] = died[q]
    BY <1>2
  <1>4. StateOK'
    BY <1>3 DEF RingIInv, StateOK, InFlight
  <1>5. Causes'
    <2>1. CASE why = "crash"
      BY <2>1, <1>3 DEF Causes
    <2>2. CASE \E q \in Workers : died[q] # "runs"
      <3>1. PICK q \in Workers : died[q] = "crash"
        BY <2>2 DEF RingIInv, Causes
      <3> QED
        BY <3>1, <1>3 DEF Causes
    <2> QED
      BY <2>1, <2>2
  <1>6. Doomed => Doomed'
    BY <1>3 DEF Doomed
  <1>7. Sound => Sound'
    BY <1>1, SoundSame
  <1> QED
    BY <1>1, <1>4, <1>5, <1>6, <1>7 DEF RingIInv

\* A worker crashes.
LEMMA CrashKeeps ==
    ASSUME RingAssumption, RingIInv, NEW r \in Workers, Crash(r)
    PROVE  RingIInv'
  <1>1. /\ died[r] = "runs" /\ died' = [died EXCEPT ![r] = "crash"] /\ faults' = faults + 1
        /\ UNCHANGED <<call, slot, chunk, prefilled, pos, session, transport, out, mirror, ringDecode,
                       frontier, link, wsession, wout>>
    BY DEF Crash, Ends, rank0
  <1>2. faults' \in Nat
    BY <1>1 DEF RingIInv, StateOK
  <1> QED
    BY <1>1, <1>2, WorkerEnds

\* A worker ends because another one has.
LEMMA WorkerPeerLostKeeps ==
    ASSUME RingAssumption, RingIInv, NEW r \in Workers, WorkerPeerLost(r)
    PROVE  RingIInv'
  <1>1. /\ died[r] = "runs" /\ died' = [died EXCEPT ![r] = "peer"] /\ faults' = faults
        /\ \E q \in Workers : died[q] # "runs"
        /\ UNCHANGED <<call, slot, chunk, prefilled, pos, session, transport, out, mirror, ringDecode,
                       frontier, link, wsession, wout>>
    BY DEF WorkerPeerLost, Ends, rank0
  <1>2. faults' \in Nat
    BY <1>1 DEF RingIInv, StateOK
  <1> QED
    BY <1>1, <1>2, WorkerEnds

\* The points of a call.
LEMMA BoundsIs ==
    ASSUME RingAssumption, NEW fr \in [Blocks -> 0..MaxTokens], NEW lo \in Nat, NEW hi \in Nat
    PROVE  /\ Bounds(lo, fr, hi) \in Points /\ Bounds(lo, fr, hi)[0] = hi
           /\ Bounds(lo, fr, hi)[LastBlock + 1] = lo /\ \A b \in Blocks : Bounds(lo, fr, hi)[b] = fr[b]
           /\ LastBlock \in Nat \ {0} /\ Blocks = 1..LastBlock /\ MaxTokens \in Nat
  <1>1. LastBlock \in Nat \ {0} /\ Blocks = 1..LastBlock /\ MaxTokens \in Nat
    BY DEF RingAssumption, LastBlock, Blocks
  <1>2. \A s \in 0..(LastBlock + 1) : (IF s = 0 THEN hi ELSE IF s = LastBlock + 1 THEN lo ELSE fr[s]) \in Nat
    <2> SUFFICES ASSUME NEW s \in 0..(LastBlock + 1)
                 PROVE  (IF s = 0 THEN hi ELSE IF s = LastBlock + 1 THEN lo ELSE fr[s]) \in Nat
      OBVIOUS
    <2>1. CASE s = 0 \/ s = LastBlock + 1
      BY <2>1
    <2>2. CASE s # 0 /\ s # LastBlock + 1
      <3>1. s \in Blocks
        BY <2>2, <1>1
      <3>2. fr[s] \in Nat
        BY <3>1, <1>1
      <3> QED
        BY <2>2, <3>2
    <2> QED
      BY <2>1, <2>2
  <1>3. Bounds(lo, fr, hi) \in Points
    BY <1>2 DEF Bounds, Points
  <1>4. Bounds(lo, fr, hi)[0] = hi /\ Bounds(lo, fr, hi)[LastBlock + 1] = lo
    BY <1>1 DEF Bounds
  <1>5. \A b \in Blocks : Bounds(lo, fr, hi)[b] = fr[b]
    BY <1>1 DEF Bounds
  <1> QED
    BY <1>1, <1>3, <1>4, <1>5

\* While layer work is under way the pipes carry it in order.
LEMMA FlowHere ==
    ASSUME RingAssumption, RingIInv, Sound, call.op \in {"prefill", "dead", "decode"}
    PROVE  /\ Layered(Pipe)
           /\ \E lo, hi \in 0..MaxTokens : Flow(Pipe, Bounds(lo, frontier, hi))
  <1>0. Routed(Pipe) /\ frontier \in [Blocks -> 0..MaxTokens] /\ pos \in 0..MaxTokens /\ MaxTokens \in Nat
        /\ call.first \in Nat /\ call.issued \in Nat /\ call.count \in Nat /\ prefilled \in Nat
    BY DEF RingIInv, StateOK, WiresOK, RingAssumption
  <1>1. CASE call.op = "prefill"
    <2>1. InCall
      BY <1>1 DEF Sound
    <2>2. PICK lo, hi : lo = call.first + prefilled /\ hi = call.first + call.issued
      OBVIOUS
    <2>3. Flow(Pipe, Bounds(lo, frontier, hi)) /\ lo \in Nat /\ hi \in Nat /\ hi <= MaxTokens
      BY <2>1, <2>2, <1>0 DEF InCall
    <2>4. lo <= hi
      <3>1. /\ Bounds(lo, frontier, hi)[0] = hi /\ Bounds(lo, frontier, hi)[LastBlock + 1] = lo
            /\ LastBlock \in Nat
        BY <2>3, <1>0, BoundsIs
      <3> QED
        BY <3>1, <2>3 DEF Flow, Descends
    <2>5. lo \in 0..MaxTokens /\ hi \in 0..MaxTokens
      BY <2>3, <2>4, <1>0
    <2>6. Layered(Pipe)
      BY <2>1, <1>0 DEF InCall, Layered, KindsIn, LayerKinds, EndKinds
    <2> QED
      BY <2>3, <2>5, <2>6
  <1>2. CASE call.op = "dead"
    <2>1. InDead
      BY <1>2 DEF Sound
    <2>2. Layered(Pipe)
      BY <2>1, <1>0 DEF InDead, Layered, KindsIn, LayerKinds, EndKinds
    <2> QED
      BY <2>1, <2>2 DEF InDead
  <1>3. CASE call.op = "decode"
    <2>1. InDecode
      BY <1>3 DEF Sound
    <2>2. Layered(Pipe)
      BY <2>1, <1>0 DEF InDecode, Layered, KindsIn, LayerKinds, EndKinds
    <2>3. pos + 1 \in 0..MaxTokens
      BY <2>1, <1>0 DEF InDecode
    <2> QED
      BY <2>1, <2>2, <2>3, <1>0 DEF InDecode
  <1> QED
    BY <1>1, <1>2, <1>3

\* The frame a worker takes is one it admits.
LEMMA WorkerHead ==
    ASSUME RingAssumption, RingIInv, Sound, NEW r \in Workers, NEW p \in RingRanks \ {r},
           link[<<p, r>>] # <<>>, NEW m, m = Head(link[<<p, r>>])
    PROVE  /\ <<p, r>> \in Links /\ m \in RingFrames /\ m \in OnLink(Pipe, <<p, r>>) /\ Way(m) = <<p, r>>
           /\ m.session = session /\ wsession[r] = session
           /\ \/ call.op = "sync" /\ m.kind = "fetch"
              \/ call.op \in {"prefill", "dead", "decode"} /\ m.kind \in {"work", "decode"} /\ Admits(r, m)
  <1>0. /\ WireTyped(link, out, wout) /\ Pipe = PipeOf(link, SendsOf(out, wout)) /\ link \in Pipes
        /\ Routed(Pipe) /\ Pipe \in Pipes
    BY PipeFacts DEF RingIInv
  <1>1. <<p, r>> \in Links /\ r # 0
    BY DEF Links, Workers
  <1>2. PICK l : l = <<p, r>>
    OBVIOUS
  <1>3. /\ m \in RingFrames /\ m \in OnLink(Pipe, l) /\ Pipe[l][1] = m
    <2>1. SendsOf(out, wout) \in SendTable /\ link[l] # <<>> /\ l \in Links
      BY <1>0, <1>1, <1>2, WireFacts
    <2> QED
      BY <2>1, <1>0, <1>2, PipeHead
  <1>4. Pipe[l] # <<>>
    BY <1>0, <1>1, <1>2, PipeHead, WireFacts
  <1>5. Way(m) = l
    BY <1>0, <1>1, <1>2, <1>3 DEF Routed
  <1>6. m.session = session
    BY <1>1, <1>2, <1>3 DEF Sound, SessionsOK
  <1>7. call.op \in {"prefill", "dead", "decode", "sync"}
    <2>1. call.op \in RingOps
      BY DEF RingIInv, StateOK
    <2>2. ~Still
      BY <1>1, <1>2, <1>4 DEF Still
    <2> QED
      BY <2>1, <2>2 DEF RingOps, Sound, InIdle, InBegin
  <1>8. wsession[r] = session
    BY <1>7 DEF Sound, SessionsOK
  <1>9. CASE call.op = "sync"
    <2>1. m.kind \in SyncKinds
      BY <1>1, <1>2, <1>3, <1>9 DEF Sound, InSync, KindsIn
    <2>2. m.kind # "state"
      BY <1>1, <1>2, <1>5 DEF Way
    <2>3. m.kind = "fetch"
      BY <2>1, <2>2 DEF SyncKinds
    <2> QED
      BY <2>3, <1>1, <1>2, <1>3, <1>5, <1>6, <1>8, <1>9
  <1>10. CASE call.op # "sync"
    <2>1. Layered(Pipe)
      BY <1>7, <1>10, FlowHere
    <2>2. PICK lo, hi \in 0..MaxTokens : Flow(Pipe, Bounds(lo, frontier, hi))
      BY <1>7, <1>10, FlowHere
    <2>3. m.kind \in {"work", "decode", "result", "token"} /\ m.kind \notin SyncKinds
      BY <2>1, <1>1, <1>2, <1>3 DEF Layered, KindsIn, LayerKinds, EndKinds, SyncKinds
    <2>4. m.kind \notin {"result", "token"}
      <3>1. ASSUME m.kind \in {"result", "token"} PROVE FALSE
        <4>1. Way(m) = Route(LastBlock + 1)
          BY <3>1 DEF Way, Stage, LayerKinds
        <4>2. Route(LastBlock + 1)[2] = 0
          BY DEF Route
        <4> QED
          BY <4>1, <4>2, <1>1, <1>2, <1>5
      <3> QED
        BY <3>1
    <2>5. m.kind \in {"work", "decode"} /\ Stage(m) = m.block /\ m.block \in Blocks
      BY <2>3, <2>4, <1>3 DEF Stage, LayerKinds, RingFrames
    <2>6. BlockOwner[m.block] = r
      <3>1. Way(m) = Route(m.block)
        BY <2>5 DEF Way
      <3>2. Route(m.block)[2] = BlockOwner[m.block]
        <4>1. LastBlock \in Nat /\ m.block \in 1..LastBlock
          BY <2>5 DEF LastBlock, Blocks, RingAssumption
        <4> QED
          BY <4>1 DEF Route
      <3> QED
        BY <3>1, <3>2, <1>2, <1>5
    <2>7. m.first = frontier[m.block]
      <3>1. PICK bd : bd = Bounds(lo, frontier, hi)
        OBVIOUS
      <3>2. Covers(Pipe, bd, Reach(bd))
        BY <3>1, <2>2 DEF Flow
      <3>3. m.first = bd[m.block]
        BY <3>2, <2>5, <1>0, <1>1, <1>2, <1>3, <1>4, HeadIsNext
      <3>4. bd[m.block] = frontier[m.block]
        <4>1. frontier \in [Blocks -> 0..MaxTokens] /\ lo \in Nat /\ hi \in Nat
          BY DEF RingIInv, StateOK, RingAssumption
        <4>2. \A b \in Blocks : Bounds(lo, frontier, hi)[b] = frontier[b]
          BY <4>1, BoundsIs
        <4> QED
          BY <4>2, <3>1, <2>5
      <3> QED
        BY <3>3, <3>4
    <2>8. Admits(r, m)
      BY <2>6, <2>7, <1>6, <1>8 DEF Admits
    <2> QED
      BY <2>5, <2>8, <1>1, <1>2, <1>3, <1>5, <1>6, <1>7, <1>8, <1>10
  <1> QED
    BY <1>9, <1>10

\* A worker refuses work only in a ring that has already lost a rank.
LEMMA RefusesWorkKeeps ==
    ASSUME RingAssumption, RingIInv, NEW r \in Workers, NEW p \in RingRanks \ {r}, RefusesWork(r, p)
    PROVE  RingIInv'
  <1>1. /\ died[r] = "runs" /\ died' = [died EXCEPT ![r] = "stale"] /\ faults' = faults
        /\ link[<<p, r>>] # <<>>
        /\ UNCHANGED <<call, slot, chunk, prefilled, pos, session, transport, out, mirror, ringDecode,
                       frontier, link, wsession, wout>>
    BY DEF RefusesWork, Polling, Ends, rank0
  <1>2. faults' \in Nat
    BY <1>1 DEF RingIInv, StateOK
  <1>3. PICK m : m = Head(link[<<p, r>>])
    OBVIOUS
  <1>4. (m.kind \in {"work", "decode"} /\ ~Admits(r, m)) \/ (m.kind = "fetch" /\ m.session # wsession[r])
    BY <1>3 DEF RefusesWork
  <1>5. ~Sound
    BY <1>1, <1>3, <1>4, WorkerHead
  <1>6. \E q \in Workers : died[q] # "runs"
    BY <1>5 DEF RingIInv, Doomed
  <1> QED
    BY <1>1, <1>2, <1>6, WorkerEnds

\* Nothing happens.
LEMMA StutterKeeps ==
    ASSUME RingAssumption, RingIInv, UNCHANGED blocksVars
    PROVE  RingIInv'
  <1>1. UNCHANGED <<call, slot, chunk, prefilled, pos, session, transport, out, mirror, ringDecode,
                    frontier, link, wsession, wout, died, faults>>
    BY DEF blocksVars, rank0, owners
  <1>2. WiresOK' /\ Pipe' = Pipe
    BY <1>1, QuietWires DEF RingIInv
  <1>3. StateOK'
    BY <1>1 DEF RingIInv, StateOK, InFlight
  <1>4. Causes'
    BY <1>1 DEF RingIInv, Causes
  <1>5. Doomed => Doomed'
    BY <1>1 DEF Doomed
  <1>6. Sound => Sound'
    BY <1>1, <1>2, SoundSame
  <1> QED
    BY <1>2, <1>3, <1>4, <1>5, <1>6 DEF RingIInv

\* A call rank 0 works on is not doomed.
LEMMA CallIsSound ==
    ASSUME RingIInv, call.op \in {"idle", "prefill", "decode", "sync"}
    PROVE  Sound
  BY DEF RingIInv, Doomed

\* The client goes away.
LEMMA InterruptKeeps ==
    ASSUME RingAssumption, RingIInv, Interrupt
    PROVE  RingIInv'
  <1>1. /\ call.op = "prefill" /\ call' = [call EXCEPT !.aborted = TRUE]
        /\ UNCHANGED <<slot, chunk, prefilled, pos, session, transport, out, mirror, ringDecode,
                       frontier, link, wsession, wout, died, faults>>
    BY DEF Interrupt, InPrefill, owners
  <1>2. WiresOK' /\ Pipe' = Pipe
    BY <1>1, QuietWires DEF RingIInv
  <1>3. /\ call' \in [op : RingOps, first : 0..MaxTokens, count : 0..MaxTokens, issued : Nat,
                 aborted : BOOLEAN, left : SUBSET Nat]
        /\ call'.op = "prefill" /\ call'.first = call.first /\ call'.count = call.count
        /\ call'.issued = call.issued
    BY <1>1 DEF RingIInv, StateOK
  <1>4. StateOK'
    BY <1>1, <1>3 DEF RingIInv, StateOK, InFlight
  <1>5. Causes'
    BY <1>1 DEF RingIInv, Causes
  <1>6. Sound
    BY <1>1, CallIsSound
  <1>7. InCall'
    <2>1. InCall
      BY <1>1, <1>6 DEF Sound
    <2> QED
      BY <2>1, <1>1, <1>2, <1>3 DEF InCall, NotMirrored, SlotOfChunk
  <1>8. SessionsOK'
    BY <1>1, <1>2, <1>3, <1>6 DEF Sound, SessionsOK
  <1>9. Sound'
    BY <1>3, <1>7, <1>8 DEF Sound
  <1> QED
    BY <1>2, <1>4, <1>5, <1>9 DEF RingIInv

\* The fields of a call that starts anew.
LEMMA NewCall ==
    ASSUME RingAssumption, NEW o \in RingOps, NEW s \in SUBSET Nat
    PROVE  /\ NoCall \in [op : RingOps, first : 0..MaxTokens, count : 0..MaxTokens, issued : Nat,
                          aborted : BOOLEAN, left : SUBSET Nat]
           /\ [NoCall EXCEPT !.op = o] \in [op : RingOps, first : 0..MaxTokens, count : 0..MaxTokens, issued : Nat,
                          aborted : BOOLEAN, left : SUBSET Nat]
           /\ [NoCall EXCEPT !.op = o, !.left = s] \in [op : RingOps, first : 0..MaxTokens, count : 0..MaxTokens,
                          issued : Nat, aborted : BOOLEAN, left : SUBSET Nat]
           /\ NoCall.op = "idle" /\ [NoCall EXCEPT !.op = o].op = o
           /\ [NoCall EXCEPT !.op = o, !.left = s].op = o /\ [NoCall EXCEPT !.op = o, !.left = s].left = s
           /\ [NoCall EXCEPT !.op = o, !.left = s].issued = 0
  <1>1. 0 \in 0..MaxTokens /\ "idle" \in RingOps /\ FALSE \in BOOLEAN /\ {} \in SUBSET Nat
    BY DEF RingAssumption, RingOps
  <1> QED
    BY <1>1 DEF NoCall

\* Every worker has begun the session.
LEMMA BegunKeeps ==
    ASSUME RingAssumption, RingIInv, Begun
    PROVE  RingIInv'
  <1>1. /\ call.op = "begin" /\ call.left = {} /\ call' = NoCall
        /\ UNCHANGED <<slot, chunk, prefilled, pos, session, transport, out, mirror, ringDecode,
                       frontier, link, wsession, wout, died, faults>>
    BY DEF Begun, owners
  <1>2. WiresOK' /\ Pipe' = Pipe
    BY <1>1, QuietWires DEF RingIInv
  <1>3. StateOK'
    <2>1. "idle" \in RingOps /\ {} \in SUBSET Nat
      BY DEF RingOps
    <2>2. call' \in [op : RingOps, first : 0..MaxTokens, count : 0..MaxTokens, issued : Nat,
                 aborted : BOOLEAN, left : SUBSET Nat]
      BY <2>1, <1>1, NewCall
    <2> QED
      BY <2>2, <1>1 DEF RingIInv, StateOK, InFlight
  <1>4. Causes'
    BY <1>1 DEF RingIInv, Causes
  <1>5. Sound
    BY <1>1 DEF RingIInv, Doomed
  <1>6. InBegin /\ SessionsOK
    BY <1>1, <1>5 DEF Sound
  <1>7. InIdle'
    <2>1. Still' /\ pos' = 0 /\ NotMirrored' /\ \A b \in Blocks : frontier'[b] = 0
      BY <1>1, <1>2, <1>6 DEF InBegin, Still, NotMirrored
    <2> QED
      BY <2>1 DEF InIdle
  <1>8. SessionsOK'
    BY <1>1, <1>2, <1>6 DEF SessionsOK
  <1>9. call'.op = "idle"
    BY <1>1 DEF NoCall
  <1>10. Sound'
    BY <1>7, <1>8, <1>9 DEF Sound
  <1> QED
    BY <1>2, <1>3, <1>4, <1>10 DEF RingIInv

\* Ranks and blocks are numbers.
LEMMA WorkersAre ==
    ASSUME RingAssumption
    PROVE  Workers \subseteq Nat /\ Blocks \subseteq Nat /\ \A b \in Blocks : BlockOwner[b] \in RingRanks
  <1>1. Blocks \subseteq Nat /\ \A b \in Blocks : BlockOwner[b] \in Nat
    BY DEF RingAssumption, Blocks
  <1> QED
    BY <1>1 DEF Workers, RingRanks

\* Rank 0 begins a session.
LEMMA ResetKeeps ==
    ASSUME RingAssumption, RingIInv, Reset
    PROVE  RingIInv'
  <1>1. /\ call.op \in {"idle", "failed"} /\ session < MaxSession
        /\ session' = session + 1 /\ pos' = 0 /\ mirror' = [b \in Blocks |-> 0]
        /\ frontier' = [b \in Blocks |-> IF BlockOwner[b] = 0 THEN 0 ELSE frontier[b]]
        /\ call' = [NoCall EXCEPT !.op = "begin", !.left = Workers]
        /\ UNCHANGED <<slot, chunk, prefilled, transport, out, ringDecode,
                       link, wsession, wout, died, faults>>
    BY DEF Reset
  <1>2. WiresOK' /\ Pipe' = Pipe
    BY <1>1, QuietWires DEF RingIInv
  <1>3. /\ call' \in [op : RingOps, first : 0..MaxTokens, count : 0..MaxTokens, issued : Nat,
                 aborted : BOOLEAN, left : SUBSET Nat]
        /\ call'.op = "begin" /\ call'.left = Workers
    <2>1. "begin" \in RingOps /\ Workers \in SUBSET Nat
      BY WorkersAre DEF RingOps
    <2> QED
      BY <2>1, <1>1, NewCall
  <1>4. StateOK'
    <2>1. mirror' \in [Blocks -> 0..MaxTokens] /\ frontier' \in [Blocks -> 0..MaxTokens]
          /\ session' \in 1..MaxSession /\ pos' \in 0..MaxTokens
      <3>1. frontier \in [Blocks -> 0..MaxTokens] /\ session \in 1..MaxSession /\ MaxSession \in Nat /\ 0 \in 0..MaxTokens
        BY DEF RingIInv, StateOK, RingAssumption
      <3>2. frontier' \in [Blocks -> 0..MaxTokens]
        BY <3>1, <1>1
      <3>3. mirror' \in [Blocks -> 0..MaxTokens]
        BY <3>1, <1>1
      <3>4. session' \in 1..MaxSession
        BY <3>1, <1>1
      <3> QED
        BY <3>1, <3>2, <3>3, <3>4, <1>1
    <2> QED
      BY <2>1, <1>1, <1>3 DEF RingIInv, StateOK, InFlight
  <1>5. Causes'
    BY <1>1 DEF RingIInv, Causes
  <1>6. Doomed => Doomed'
    BY <1>1, <1>3 DEF Doomed
  <1>7. ASSUME Sound PROVE Sound'
    <2>1. Still
      BY <1>1, <1>7 DEF Sound, InIdle
    <2>2. Still'
      BY <2>1, <1>2 DEF Still
    <2>3. InBegin'
      <3>1. \A b \in Blocks : BlockOwner[b] \notin Workers => frontier'[b] = 0
        <4>1. \A b \in Blocks : BlockOwner[b] \notin Workers => BlockOwner[b] = 0
          BY WorkersAre DEF Workers
        <4> QED
          BY <4>1, <1>1
      <3>2. NotMirrored'
        BY <1>1 DEF NotMirrored
      <3> QED
        BY <3>1, <3>2, <2>2, <1>1, <1>3 DEF InBegin
    <2>4. SessionsOK'
      <3>1. \A l \in Links : OnLink(Pipe', l) = {}
        BY <2>2 DEF Still, OnLink
      <3> QED
        BY <3>1, <1>3 DEF SessionsOK
    <2> QED
      BY <2>3, <2>4, <1>3 DEF Sound
  <1> QED
    BY <1>2, <1>4, <1>5, <1>6, <1>7 DEF RingIInv

\* A worker begins the session.
LEMMA BeginAtKeeps ==
    ASSUME RingAssumption, RingIInv, NEW r \in Workers, BeginAt(r)
    PROVE  RingIInv'
  <1>1. /\ died[r] = "runs" /\ wout[r] = <<>> /\ call.op = "begin" /\ r \in call.left
        /\ wsession' = [wsession EXCEPT ![r] = session]
        /\ frontier' = [b \in Blocks |-> IF BlockOwner[b] = r THEN 0 ELSE frontier[b]]
        /\ call' = [call EXCEPT !.left = call.left \ {r}]
        /\ UNCHANGED <<slot, chunk, prefilled, pos, session, transport, out, mirror, ringDecode,
                       link, wout, died, faults>>
    BY DEF BeginAt, Polling
  <1>2. WiresOK' /\ Pipe' = Pipe
    BY <1>1, QuietWires DEF RingIInv
  <1>3. /\ call' \in [op : RingOps, first : 0..MaxTokens, count : 0..MaxTokens, issued : Nat,
                 aborted : BOOLEAN, left : SUBSET Nat]
        /\ call'.op = "begin" /\ call'.left = call.left \ {r}
    BY <1>1 DEF RingIInv, StateOK
  <1>4. StateOK'
    <2>a. MaxTokens \in Nat
      BY DEF RingAssumption
    <2>b. 0 \in 0..MaxTokens
      BY <2>a
    <2>c. /\ frontier \in [Blocks -> 0..MaxTokens] /\ wsession \in [Workers -> Nat]
          /\ session \in Nat
      BY DEF RingIInv, StateOK
    <2>d. frontier' \in [Blocks -> 0..MaxTokens]
      BY <2>b, <2>c, <1>1
    <2>1. frontier' \in [Blocks -> 0..MaxTokens] /\ wsession' \in [Workers -> Nat]
      BY <2>c, <2>d, <1>1
    <2> QED
      BY <2>1, <1>1, <1>3 DEF RingIInv, StateOK, InFlight
  <1>5. Causes'
    BY <1>1 DEF RingIInv, Causes
  <1>6. Doomed => Doomed'
    BY <1>1, <1>3 DEF Doomed
  <1>7. ASSUME Sound PROVE Sound'
    <2>1. InBegin /\ SessionsOK
      BY <1>1, <1>7 DEF Sound
    <2>2. InBegin'
      BY <2>1, <1>1, <1>2, <1>3 DEF InBegin, Still, NotMirrored
    <2>3. wsession \in [Workers -> Nat]
      BY DEF RingIInv, StateOK
    <2>4. SessionsOK'
      BY <2>1, <2>3, <1>1, <1>2, <1>3 DEF SessionsOK
    <2> QED
      BY <2>2, <2>4, <1>3 DEF Sound
  <1> QED
    BY <1>2, <1>4, <1>5, <1>6, <1>7 DEF RingIInv

\* Rank 0 sees that a worker has ended.
LEMMA PeerLostKeeps ==
    ASSUME RingAssumption, RingIInv, PeerLost
    PROVE  RingIInv'
  <1>1. /\ \E r \in Workers : died[r] # "runs"
        /\ transport' \in {"poisoned", transport}
        /\ call' = [NoCall EXCEPT !.op = IF transport' = "ready" THEN "failed" ELSE "dead"]
        /\ out' = <<>>
        /\ UNCHANGED <<slot, chunk, prefilled, pos, session, mirror, ringDecode,
                       frontier, link, wsession, wout, died, faults>>
    BY DEF PeerLost, Lost, Fails, owners
  <1>2. /\ call' \in [op : RingOps, first : 0..MaxTokens, count : 0..MaxTokens, issued : Nat,
                 aborted : BOOLEAN, left : SUBSET Nat]
        /\ call'.op \in {"failed", "dead"}
    <2>1. CASE transport' = "ready"
      <3>1. call' = [NoCall EXCEPT !.op = "failed"] /\ "failed" \in RingOps
        BY <2>1, <1>1 DEF RingOps
      <3> QED
        BY <3>1, NewCall
    <2>2. CASE transport' # "ready"
      <3>1. call' = [NoCall EXCEPT !.op = "dead"] /\ "dead" \in RingOps
        BY <2>2, <1>1 DEF RingOps
      <3> QED
        BY <3>1, NewCall
    <2> QED
      BY <2>1, <2>2
  <1>3. WiresOK'
    <2>1. WireTyped(link, out, wout) /\ Pipe = PipeOf(link, SendsOf(out, wout)) /\ DOMAIN wout = Workers /\ Routed(Pipe)
      BY PipeFacts DEF RingIInv
    <2>2. /\ WireTyped(link, <<>>, wout)
          /\ \A l \in Links : OnLink(PipeOf(link, SendsOf(<<>>, wout)), l) \subseteq OnLink(Pipe, l)
      BY <2>1, DropPipe
    <2>3. Pipe' = PipeOf(link, SendsOf(<<>>, wout))
      BY <1>1 DEF Pipe, Sending
    <2>4. Routed(Pipe')
      BY <2>1, <2>2, <2>3 DEF Routed
    <2>5. WireTyped(link', out', wout')
      BY <2>2, <1>1
    <2> QED
      BY <2>1, <2>4, <2>5, <1>1 DEF WiresOK
  <1>4. StateOK'
    <2>1. transport' \in {"ready", "pending", "poisoned"}
      BY <1>1 DEF RingIInv, StateOK
    <2> QED
      BY <2>1, <1>1, <1>2 DEF RingIInv, StateOK, InFlight
  <1>5. Causes'
    BY <1>1 DEF RingIInv, Causes
  <1>6. Doomed'
    BY <1>1, <1>2 DEF Doomed
  <1> QED
    BY <1>3, <1>4, <1>5, <1>6 DEF RingIInv

\* A ring recovery takes the prefill down.
LEMMA RingRecoveryKeeps ==
    ASSUME RingAssumption, RingIInv, RingRecovery
    PROVE  RingIInv'
  <1>1. /\ call.op = "prefill" /\ faults' = faults + 1 /\ transport' = "poisoned"
        /\ call' = [NoCall EXCEPT !.op = "dead"]
        /\ UNCHANGED <<slot, chunk, prefilled, pos, session, out, mirror, ringDecode,
                       frontier, link, wsession, wout, died>>
    BY DEF RingRecovery, InPrefill
  <1>2. /\ call' \in [op : RingOps, first : 0..MaxTokens, count : 0..MaxTokens, issued : Nat,
                 aborted : BOOLEAN, left : SUBSET Nat]
        /\ call'.op = "dead"
    <2>1. "dead" \in RingOps
      BY DEF RingOps
    <2> QED
      BY <2>1, <1>1, NewCall
  <1>3. WiresOK' /\ Pipe' = Pipe
    BY <1>1, QuietWires DEF RingIInv
  <1>4. StateOK'
    <2>1. faults' \in Nat /\ transport' \in {"ready", "pending", "poisoned"}
      BY <1>1 DEF RingIInv, StateOK
    <2> QED
      BY <2>1, <1>1, <1>2 DEF RingIInv, StateOK, InFlight
  <1>5. Causes'
    BY <1>1 DEF RingIInv, Causes
  <1>6. Sound
    BY <1>1, CallIsSound
  <1>7. InDead'
    <2>1. \E lo, hi \in 0..MaxTokens : Flow(Pipe, Bounds(lo, frontier, hi))
      BY <1>1, <1>6, FlowHere
    <2>2. KindsIn(Pipe, {"work", "result"})
      BY <1>1, <1>6 DEF Sound, InCall
    <2> QED
      BY <2>1, <2>2, <1>1, <1>3 DEF InDead
  <1>8. SessionsOK'
    BY <1>1, <1>2, <1>3, <1>6 DEF Sound, SessionsOK
  <1>9. Sound'
    BY <1>2, <1>7, <1>8 DEF Sound
  <1> QED
    BY <1>3, <1>4, <1>5, <1>9 DEF RingIInv

\* Rank 0 decodes on its mirror.
LEMMA DecodeLocalKeeps ==
    ASSUME RingAssumption, RingIInv, DecodeLocal
    PROVE  RingIInv'
  <1>1. /\ call.op = "idle" /\ ~ringDecode /\ pos > 0 /\ pos < MaxTokens
        /\ mirror' = [b \in Blocks |-> IF b \in Remote THEN pos + 1 ELSE 0] /\ pos' = pos + 1
        /\ UNCHANGED <<call, slot, chunk, prefilled, session, transport, out, ringDecode,
                       frontier, link, wsession, wout, died, faults>>
    BY DEF DecodeLocal, owners
  <1>2. WiresOK' /\ Pipe' = Pipe
    BY <1>1, QuietWires DEF RingIInv
  <1>3. StateOK'
    <2>1. pos' \in 0..MaxTokens /\ mirror' \in [Blocks -> 0..MaxTokens]
      BY <1>1 DEF RingIInv, StateOK, RingAssumption
    <2> QED
      BY <2>1, <1>1 DEF RingIInv, StateOK, InFlight
  <1>4. Causes'
    BY <1>1 DEF RingIInv, Causes
  <1>5. Sound
    BY <1>1, CallIsSound
  <1>6. InIdle'
    <2>1. Still'
      BY <1>1, <1>2, <1>5 DEF Sound, InIdle, Still
    <2>2. pos' > 0 /\ \A b \in Remote : mirror'[b] = pos'
      BY <1>1 DEF RingIInv, StateOK, Remote
    <2>3. Remote' = Remote
      BY DEF Remote
    <2> QED
      BY <2>1, <2>2, <2>3, <1>1 DEF InIdle
  <1>7. SessionsOK'
    BY <1>1, <1>2, <1>5 DEF Sound, SessionsOK
  <1>8. Sound'
    BY <1>1, <1>6, <1>7 DEF Sound
  <1> QED
    BY <1>2, <1>3, <1>4, <1>8 DEF RingIInv

\* A call starts with nothing under way and every block at its first token.
LEMMA FlowStart ==
    ASSUME RingAssumption, NEW P, NEW bd \in Points, NEW x,
           \A l \in Links : P[l] = <<>>, \A t \in 0..(LastBlock + 1) : bd[t] = x
    PROVE  Flow(P, bd)
  <1>1. \A l \in Links : Len(P[l]) = 0
    OBVIOUS
  <1>2. \A t \in Stages : t - 1 \in 0..(LastBlock + 1) /\ t \in 0..(LastBlock + 1) /\ Reach(bd)[t] = bd[t - 1]
    BY ReachIs
  <1>3. Covers(P, bd, Reach(bd))
    BY <1>1, <1>2 DEF Covers
  <1>4. Descends(bd)
    BY DEF Descends, Points
  <1> QED
    BY <1>3, <1>4 DEF Flow

\* The points of a call that starts at x.
LEMMA LevelBounds ==
    ASSUME RingAssumption, NEW fr \in [Blocks -> 0..MaxTokens], NEW x \in Nat, \A b \in Blocks : fr[b] = x
    PROVE  /\ Bounds(x, fr, x) \in Points
           /\ \A t \in 0..(LastBlock + 1) : Bounds(x, fr, x)[t] = x
  <1>1. /\ Bounds(x, fr, x) \in Points /\ Bounds(x, fr, x)[0] = x
        /\ Bounds(x, fr, x)[LastBlock + 1] = x /\ \A b \in Blocks : Bounds(x, fr, x)[b] = fr[b]
        /\ LastBlock \in Nat \ {0} /\ Blocks = 1..LastBlock
    BY BoundsIs
  <1>2. \A t \in 0..(LastBlock + 1) : t = 0 \/ t = LastBlock + 1 \/ t \in Blocks
    BY <1>1
  <1> QED
    BY <1>1, <1>2

\* A prefill starts.
LEMMA PrefillKeeps ==
    ASSUME RingAssumption, RingIInv, NEW n \in 1..MaxTokens, Prefill(n)
    PROVE  RingIInv'
  <1>1. /\ call.op = "idle" /\ Resumable /\ pos + n <= MaxTokens
        /\ call' = [NoCall EXCEPT !.op = "prefill", !.first = pos, !.count = n]
        /\ slot' = [f \in DOMAIN slot |-> Empty] /\ chunk' = 0 /\ prefilled' = 0
        /\ UNCHANGED <<pos, session, transport, out, mirror, ringDecode,
                       frontier, link, wsession, wout, died, faults>>
    BY DEF Prefill, owners
  <1>0. /\ pos \in 0..MaxTokens /\ MaxTokens \in Nat /\ slot \in SlotTable /\ frontier \in [Blocks -> 0..MaxTokens]
        /\ Frames \in Nat \ {0}
    BY DEF RingIInv, StateOK, RingAssumption
  <1>2. WiresOK' /\ Pipe' = Pipe
    BY <1>1, QuietWires DEF RingIInv
  <1>3. /\ call' \in [op : RingOps, first : 0..MaxTokens, count : 0..MaxTokens, issued : Nat,
                 aborted : BOOLEAN, left : SUBSET Nat]
        /\ call'.op = "prefill" /\ call'.first = pos /\ call'.count = n /\ call'.issued = 0
    <2>1. n \in 0..MaxTokens /\ 0 \in 0..MaxTokens /\ "prefill" \in RingOps
      BY <1>0 DEF RingOps
    <2>2. call' = [op |-> "prefill", first |-> pos, count |-> n, issued |-> 0, aborted |-> FALSE, left |-> {}]
      BY <1>1 DEF NoCall
    <2> QED
      BY <2>1, <2>2, <1>0
  <1>4. slot' \in SlotTable /\ \A f \in 0..(Frames - 1) : ~slot'[f].active
    <2>1. DOMAIN slot = 0..(Frames - 1)
      BY <1>0 DEF SlotTable
    <2>2. Empty \in [active : BOOLEAN, first : 0..MaxTokens, count : 0..MaxTokens] /\ ~Empty.active
      BY <1>0 DEF Empty
    <2> QED
      BY <2>1, <2>2, <1>1 DEF SlotTable
  <1>5. StateOK'
    <2>1. InFlight' <= Window
      <3>1. {f \in DOMAIN slot' : slot'[f].active} = {}
        BY <1>4 DEF SlotTable
      <3>2. Cardinality({}) = 0
        BY FS_EmptySet
      <3>3. Cardinality({f \in DOMAIN slot' : slot'[f].active}) = 0
        BY <3>1, <3>2, Zenon
      <3>4. InFlight' = 0
        BY <3>3 DEF InFlight
      <3>5. Window \in Nat
        BY DEF RingAssumption
      <3> QED
        BY <3>4, <3>5
    <2> QED
      BY <2>1, <1>0, <1>1, <1>3, <1>4, SMTT(30) DEF RingIInv, StateOK
  <1>6. Causes'
    BY <1>1 DEF RingIInv, Causes
  <1>7. Sound
    BY <1>1, CallIsSound
  <1>8. InIdle /\ SessionsOK
    BY <1>1, <1>7 DEF Sound
  <1>9. Still /\ (\A b \in Blocks : frontier[b] = pos) /\ (ringDecode \/ NotMirrored)
    BY <1>0, <1>1, <1>8 DEF InIdle, Resumable
  <1>10. InCall'
    <2>1. \A l \in Links : Pipe'[l] = <<>>
      BY <1>2, <1>9 DEF Still
    <2>2. \A l \in Links : OnLink(Pipe', l) = {}
      BY <2>1 DEF OnLink
    <2>3. KindsIn(Pipe', {"work", "result"}) /\ SlotsCover(slot', Pipe')
      BY <2>2 DEF KindsIn, SlotsCover
    <2>4. Flow(Pipe', Bounds(pos, frontier, pos))
      <3>1. PICK bd : bd = Bounds(pos, frontier, pos)
        OBVIOUS
      <3>2. bd \in Points /\ \A t \in 0..(LastBlock + 1) : bd[t] = pos
        BY <3>1, <1>0, <1>9, LevelBounds
      <3> QED
        BY <3>1, <3>2, <2>1, FlowStart
    <2>5. call'.first + prefilled' = pos /\ call'.first + call'.issued = pos
      BY <1>0, <1>1, <1>3
    <2>6. SlotsOrdered(slot', SlotOfChunk', pos, pos)
      <3>1. PICK k : k = SlotOfChunk'
        OBVIOUS
      <3>2. k \in 0..(Frames - 1)
        BY <3>1, <1>1, NextSlot DEF SlotOfChunk
      <3>3. \A f \in 0..(Frames - 1) : Dist(f, k) \in 1..Frames
        BY <3>2, DistIs
      <3>4. \A f \in 0..(Frames - 1) : slot'[f].active <=> Dist(f, k) <= 0
        BY <3>3, <1>0, <1>4
      <3>5. 0 \in 0..Frames
        BY <1>0
      <3> QED
        BY <3>1, <3>4, <3>5, <1>4 DEF SlotsOrdered
    <2>7. call'.first = pos' /\ call'.first + call'.count <= MaxTokens /\ call'.count > 0 /\ call'.issued <= call'.count
      BY <1>0, <1>1, <1>3
    <2>8. ringDecode' \/ NotMirrored'
      BY <1>1, <1>9 DEF NotMirrored
    <2> QED
      BY <2>3, <2>4, <2>5, <2>6, <2>7, <2>8, <1>1 DEF InCall
  <1>11. SessionsOK'
    BY <1>1, <1>2, <1>3, <1>8 DEF SessionsOK
  <1>12. Sound'
    BY <1>3, <1>10, <1>11 DEF Sound
  <1> QED
    BY <1>2, <1>5, <1>6, <1>12 DEF RingIInv

\* What a rank that takes layer work knows of it.
LEMMA LayerFrame ==
    ASSUME RingAssumption, NEW m \in RingFrames, m.kind \in LayerKinds, NEW p, NEW r, Way(m) = <<p, r>>
    PROVE  /\ m.block \in Blocks /\ BlockOwner[m.block] = r /\ Stage(m) = m.block /\ Route(m.block) = <<p, r>>
           /\ LastBlock \in Nat \ {0} /\ Blocks = 1..LastBlock
           /\ m.block + 1 \in Stages /\ m.block \in Stages
           /\ m.block < LastBlock =>
                /\ m.block + 1 \in Blocks /\ Route(m.block + 1) = <<r, BlockOwner[m.block + 1]>>
                /\ BlockOwner[m.block + 1] \in RingRanks /\ BlockOwner[m.block + 1] # r
           /\ m.block = LastBlock => r # 0 /\ Route(m.block + 1) = <<r, 0>>
  <1>1. LastBlock \in Nat \ {0} /\ Blocks = 1..LastBlock /\ m.block \in 1..LastBlock /\ BlockOwner[LastBlock] # 0
    BY DEF RingAssumption, LastBlock, Blocks, RingFrames
  <1>2. Stage(m) = m.block /\ Way(m) = Route(m.block)
    BY DEF Stage, Way, LayerKinds
  <1>3. BlockOwner[m.block] = r
    <2>1. Route(m.block)[2] = BlockOwner[m.block]
      BY <1>1 DEF Route
    <2> QED
      BY <2>1, <1>2
  <1>4. ASSUME m.block < LastBlock
        PROVE  /\ m.block + 1 \in Blocks /\ Route(m.block + 1) = <<r, BlockOwner[m.block + 1]>>
               /\ BlockOwner[m.block + 1] \in RingRanks /\ BlockOwner[m.block + 1] # r
    <2>1. m.block + 1 \in Blocks /\ m.block + 1 # 1 /\ m.block + 1 # LastBlock + 1 /\ (m.block + 1) - 1 = m.block
      BY <1>1, <1>4
    <2>2. Route(m.block + 1) = <<r, BlockOwner[m.block + 1]>>
      BY <2>1, <1>3 DEF Route
    <2>3. Route(m.block + 1) \in Links
      BY <2>1, <1>1, RouteLinks DEF Stages
    <2> QED
      BY <2>1, <2>2, <2>3 DEF Links
  <1>5. ASSUME m.block = LastBlock PROVE r # 0 /\ Route(m.block + 1) = <<r, 0>>
    <2>1. m.block + 1 # 1 /\ m.block + 1 = LastBlock + 1 /\ (m.block + 1) - 1 = m.block
      BY <1>1, <1>5
    <2> QED
      BY <2>1, <1>1, <1>3, <1>5 DEF Route
  <1> QED
    BY <1>1, <1>2, <1>3, <1>4, <1>5 DEF Stages

\* The frame an owner sends on.
LEMMA NextFrame ==
    ASSUME RingAssumption, NEW m \in RingFrames, m.kind \in LayerKinds, NEW p, NEW r, Way(m) = <<p, r>>,
           NEW n, Onward(m, n)
    PROVE  /\ n \in RingFrames /\ Way(n) = Route(m.block + 1) /\ Stage(n) = m.block + 1
           /\ n.first = m.first /\ n.count = m.count /\ n.session = m.session /\ n.kind \notin SyncKinds
           /\ n.kind \in (IF m.kind = "work" THEN {"work", "result"} ELSE {"decode", "token"})
  <1>1. /\ m.block \in Blocks /\ LastBlock \in Nat \ {0} /\ Blocks = 1..LastBlock
        /\ m.block < LastBlock => m.block + 1 \in Blocks
    BY LayerFrame
  <1>2. /\ m \in [kind : LayerKinds \cup EndKinds \cup SyncKinds, block : Blocks,
                  first : 0..MaxTokens, count : 0..MaxTokens, session : 1..MaxSession]
        /\ m.count > 0 /\ m.first + m.count <= MaxTokens /\ (m.kind = "decode" => m.count = 1)
    BY DEF RingFrames, LayerKinds, SyncKinds, After
  <1>3. CASE m.block < LastBlock
    <2>1. n = [m EXCEPT !.block = m.block + 1]
      BY <1>3 DEF Onward
    <2>2. /\ n.kind = m.kind /\ n.block = m.block + 1 /\ n.first = m.first /\ n.count = m.count /\ n.session = m.session
          /\ n \in [kind : LayerKinds \cup EndKinds \cup SyncKinds, block : Blocks,
                    first : 0..MaxTokens, count : 0..MaxTokens, session : 1..MaxSession]
      BY <2>1, <1>1, <1>2, <1>3
    <2>3. n \in RingFrames
      BY <2>2, <1>2 DEF RingFrames, After, SyncKinds, LayerKinds
    <2>4. Stage(n) = m.block + 1 /\ n.kind \notin SyncKinds
      BY <2>2 DEF Stage, LayerKinds, SyncKinds
    <2>5. Way(n) = Route(Stage(n))
      BY <2>4 DEF Way, SyncKinds
    <2>6. n.kind \in (IF m.kind = "work" THEN {"work", "result"} ELSE {"decode", "token"})
      BY <2>2 DEF LayerKinds
    <2> QED
      BY <2>2, <2>3, <2>4, <2>5, <2>6
  <1>4. CASE ~(m.block < LastBlock)
    <2>0. m.block = LastBlock
      BY <1>1, <1>4
    <2>1. n = [m EXCEPT !.kind = IF m.kind = "work" THEN "result" ELSE "token"]
      BY <1>4 DEF Onward
    <2>2. /\ n.kind = (IF m.kind = "work" THEN "result" ELSE "token")
          /\ n.block = m.block /\ n.first = m.first /\ n.count = m.count /\ n.session = m.session
      BY <2>1, <1>2
    <2>a. n.kind \in EndKinds /\ n.kind \notin LayerKinds /\ n.kind \notin SyncKinds /\ n.kind # "decode"
          /\ n.kind \in (IF m.kind = "work" THEN {"work", "result"} ELSE {"decode", "token"})
      BY <2>2 DEF EndKinds, LayerKinds, SyncKinds
    <2>b. n \in [kind : LayerKinds \cup EndKinds \cup SyncKinds, block : Blocks,
                    first : 0..MaxTokens, count : 0..MaxTokens, session : 1..MaxSession]
      BY <2>1, <2>2, <2>a, <1>2
    <2>3. n \in RingFrames
      BY <2>2, <2>a, <2>b, <1>2 DEF RingFrames, After
    <2>4. Stage(n) = m.block + 1
      BY <2>0, <2>a DEF Stage
    <2>5. Way(n) = Route(Stage(n))
      BY <2>a DEF Way, SyncKinds
    <2> QED
      BY <2>2, <2>3, <2>4, <2>5, <2>a
  <1> QED
    BY <1>3, <1>4

\* Rank 0 starts a send.
LEMMA HostSends ==
    ASSUME RingAssumption, WiresOK, out = <<>>, NEW q \in Workers, NEW n \in RingFrames,
           Way(n) = <<0, q>>, out' = <<q, n>>, UNCHANGED <<link, wout>>
    PROVE  /\ WiresOK' /\ <<0, q>> \in Links /\ Added(Pipe, Pipe', <<0, q>>, n)
           /\ Pipe \in Pipes /\ Pipe' \in Pipes
  <1>1. /\ WireTyped(link, out, wout) /\ Pipe = PipeOf(link, SendsOf(out, wout)) /\ Pipe \in Pipes
        /\ link \in Pipes /\ DOMAIN wout = Workers /\ Routed(Pipe)
    BY PipeFacts
  <1>2. /\ <<0, q>> \in Links /\ WireTyped(link, <<q, n>>, wout)
        /\ Added(PipeOf(link, SendsOf(<<>>, wout)), PipeOf(link, SendsOf(<<q, n>>, wout)), <<0, q>>, n)
    BY <1>1, HostSendPipe
  <1>3. Pipe' = PipeOf(link, SendsOf(<<q, n>>, wout)) /\ Pipe = PipeOf(link, SendsOf(<<>>, wout))
    BY <1>1 DEF Pipe, Sending
  <1>4. Added(Pipe, Pipe', <<0, q>>, n) /\ Pipe' \in Pipes
    BY <1>2, <1>3, WireFacts
  <1>5. Routed(Pipe')
    <2>1. PICK v : v = <<0, q>>
      OBVIOUS
    <2>2. \A l \in Links : \A m \in OnLink(Pipe', l) : m \in OnLink(Pipe, l) \/ (l = v /\ m = n)
      BY <2>1, <1>1, <1>2, <1>4, AppendLayered
    <2> QED
      BY <2>1, <2>2, <1>1 DEF Routed
  <1>6. WireTyped(link', out', wout')
    BY <1>2
  <1> QED
    BY <1>1, <1>2, <1>4, <1>5, <1>6 DEF WiresOK

\* A rank takes the oldest frame of a link and nothing else.
LEMMA HostTakes ==
    ASSUME RingAssumption, WiresOK, NEW u \in Links, link[u] # <<>>,
           link' = [link EXCEPT ![u] = Tail(link[u])], UNCHANGED <<out, wout>>
    PROVE  /\ WiresOK' /\ Taken(Pipe, Pipe', u) /\ Pipe \in Pipes /\ Pipe' \in Pipes
           /\ Head(link[u]) = Pipe[u][1]
  <1>1. /\ WireTyped(link, out, wout) /\ Pipe = PipeOf(link, SendsOf(out, wout)) /\ Pipe \in Pipes
        /\ link \in Pipes /\ DOMAIN wout = Workers /\ Routed(Pipe)
    BY PipeFacts
  <1>2. link' \in Pipes /\ Taken(link, link', u)
    BY <1>1, LinkTail
  <1>3. /\ WireTyped(link', out, wout)
        /\ Taken(PipeOf(link, SendsOf(out, wout)), PipeOf(link', SendsOf(out, wout)), u)
        /\ PipeOf(link, SendsOf(out, wout))[u][1] = Head(link[u])
    BY <1>1, <1>2, TakePipe
  <1>4. Pipe' = PipeOf(link', SendsOf(out, wout))
    BY DEF Pipe, Sending
  <1>5. Taken(Pipe, Pipe', u) /\ Pipe' \in Pipes
    BY <1>1, <1>3, <1>4, WireFacts
  <1>6. Routed(Pipe')
    <2>1. \A l \in Links : OnLink(Pipe', l) \subseteq OnLink(Pipe, l)
      BY <1>1, <1>5, TailLayered
    <2> QED
      BY <2>1, <1>1 DEF Routed
  <1>7. WireTyped(link', out', wout')
    BY <1>3
  <1> QED
    BY <1>1, <1>3, <1>5, <1>6, <1>7 DEF WiresOK

\* Rank 0 takes a frame and sends another.
LEMMA HostForwards ==
    ASSUME RingAssumption, WiresOK, NEW u \in Links, link[u] # <<>>, out = <<>>,
           link' = [link EXCEPT ![u] = Tail(link[u])], UNCHANGED wout,
           NEW q \in Workers, NEW n \in RingFrames, Way(n) = <<0, q>>, out' = <<q, n>>
    PROVE  /\ WiresOK' /\ <<0, q>> \in Links /\ Pipe \in Pipes /\ Pipe' \in Pipes
           /\ Head(link[u]) = Pipe[u][1]
           /\ \E R \in Pipes : Taken(Pipe, R, u) /\ Added(R, Pipe', <<0, q>>, n)
  <1>1. /\ WireTyped(link, out, wout) /\ Pipe = PipeOf(link, SendsOf(<<>>, wout)) /\ Pipe \in Pipes
        /\ link \in Pipes /\ DOMAIN wout = Workers /\ Routed(Pipe) /\ WireTyped(link, <<>>, wout)
    BY PipeFacts
  <1>2. link' \in Pipes /\ Taken(link, link', u)
    BY <1>1, LinkTail
  <1>3. PICK R : R = PipeOf(link', SendsOf(<<>>, wout))
    OBVIOUS
  <1>4. /\ WireTyped(link', <<>>, wout) /\ Taken(Pipe, R, u) /\ Pipe[u][1] = Head(link[u])
    BY <1>1, <1>2, <1>3, TakePipe
  <1>5. /\ <<0, q>> \in Links /\ WireTyped(link', <<q, n>>, wout)
        /\ Added(PipeOf(link', SendsOf(<<>>, wout)), PipeOf(link', SendsOf(<<q, n>>, wout)), <<0, q>>, n)
    BY <1>4, HostSendPipe
  <1>6. Pipe' = PipeOf(link', SendsOf(<<q, n>>, wout))
    BY DEF Pipe, Sending
  <1>7. R \in Pipes /\ Pipe' \in Pipes /\ Added(R, Pipe', <<0, q>>, n)
    BY <1>3, <1>4, <1>5, <1>6, WireFacts
  <1>8. Routed(Pipe')
    <2>1. PICK v : v = <<0, q>>
      OBVIOUS
    <2>2. \A l \in Links : \A m \in OnLink(Pipe', l) : m \in OnLink(R, l) \/ (l = v /\ m = n)
      BY <2>1, <1>5, <1>7, AppendLayered
    <2>3. \A l \in Links : OnLink(R, l) \subseteq OnLink(Pipe, l)
      BY <1>1, <1>4, TailLayered
    <2> QED
      BY <2>1, <2>2, <2>3, <1>1 DEF Routed
  <1>9. WireTyped(link', out', wout')
    BY <1>5
  <1> QED
    BY <1>1, <1>4, <1>5, <1>7, <1>8, <1>9 DEF WiresOK

\* A worker takes a frame and sends another.
LEMMA WorkerForwards ==
    ASSUME RingAssumption, WiresOK, NEW u \in Links, link[u] # <<>>, NEW r \in Workers, wout[r] = <<>>,
           link' = [link EXCEPT ![u] = Tail(link[u])], UNCHANGED out,
           NEW q \in RingRanks, q # r, NEW n \in RingFrames, Way(n) = <<r, q>>,
           wout' = [wout EXCEPT ![r] = <<q, n>>]
    PROVE  /\ WiresOK' /\ <<r, q>> \in Links /\ Pipe \in Pipes /\ Pipe' \in Pipes
           /\ Head(link[u]) = Pipe[u][1]
           /\ \E R \in Pipes : Taken(Pipe, R, u) /\ Added(R, Pipe', <<r, q>>, n)
  <1>1. /\ WireTyped(link, out, wout) /\ Pipe = PipeOf(link, SendsOf(out, wout)) /\ Pipe \in Pipes
        /\ link \in Pipes /\ DOMAIN wout = Workers /\ Routed(Pipe)
    BY PipeFacts
  <1>2. link' \in Pipes /\ Taken(link, link', u)
    BY <1>1, LinkTail
  <1>3. PICK R : R = PipeOf(link', SendsOf(out, wout))
    OBVIOUS
  <1>4. /\ WireTyped(link', out, wout) /\ Taken(Pipe, R, u) /\ Pipe[u][1] = Head(link[u])
    BY <1>1, <1>2, <1>3, TakePipe
  <1>u. Updated(wout, wout', r, <<q, n>>) /\ DOMAIN wout' = Workers
    BY <1>1, TableUpdate
  <1>v. PICK v : v = <<r, q>>
    OBVIOUS
  <1>5. /\ v \in Links /\ WireTyped(link', out, wout')
        /\ Added(PipeOf(link', SendsOf(out, wout)), PipeOf(link', SendsOf(out, wout')), v, n)
    BY <1>4, <1>u, <1>v, WorkerSendPipe
  <1>6. Pipe' = PipeOf(link', SendsOf(out, wout'))
    BY DEF Pipe, Sending
  <1>7. R \in Pipes /\ Pipe' \in Pipes /\ Added(R, Pipe', v, n)
    BY <1>3, <1>4, <1>5, <1>6, WireFacts
  <1>8. Routed(Pipe')
    <2>2. \A l \in Links : \A m \in OnLink(Pipe', l) : m \in OnLink(R, l) \/ (l = v /\ m = n)
      BY <1>5, <1>7, AppendLayered
    <2>3. \A l \in Links : OnLink(R, l) \subseteq OnLink(Pipe, l)
      BY <1>1, <1>4, TailLayered
    <2> QED
      BY <2>2, <2>3, <1>1, <1>v DEF Routed
  <1>9. WireTyped(link', out', wout')
    BY <1>5
  <1> QED
    BY <1>1, <1>4, <1>5, <1>7, <1>8, <1>9, <1>u, <1>v DEF WiresOK

\* Taking a frame keeps every link within its capacity.
LEMMA CapTail ==
    ASSUME RingAssumption, link \in Pipes, NEW u \in Links, link[u] # <<>>,
           link' = [link EXCEPT ![u] = Tail(link[u])], \A l \in Links : Len(link[l]) <= LinkCap
    PROVE  \A l \in Links : Len(link'[l]) <= LinkCap
  <1>1. Taken(link, link', u) /\ Len(link'[u]) = Len(link[u]) - 1 /\ Len(link[u]) \in Nat
    BY LinkTail
  <1>2. \A l \in Links : l # u => link'[l] = link[l]
    BY <1>1 DEF Taken
  <1>3. LinkCap \in Nat
    BY DEF RingAssumption
  <1>4. Len(link'[u]) <= LinkCap
    BY <1>1, <1>3
  <1> QED
    BY <1>2, <1>4

\* One point of a call moves and the others stay.
LEMMA BoundsMove ==
    ASSUME RingAssumption, NEW fr \in [Blocks -> 0..MaxTokens], NEW lo \in Nat, NEW hi \in Nat, NEW x \in Nat
    PROVE  /\ Moved(Bounds(lo, fr, hi), Bounds(lo, fr, x), 0, x)
           /\ Moved(Bounds(lo, fr, hi), Bounds(x, fr, hi), LastBlock + 1, x)
           /\ \A b \in Blocks : x \in 0..MaxTokens =>
                 /\ [fr EXCEPT ![b] = x] \in [Blocks -> 0..MaxTokens]
                 /\ Moved(Bounds(lo, fr, hi), Bounds(lo, [fr EXCEPT ![b] = x], hi), b, x)
  <1>1. LastBlock \in Nat \ {0} /\ Blocks = 1..LastBlock
    BY DEF RingAssumption, LastBlock, Blocks
  <1>2. Moved(Bounds(lo, fr, hi), Bounds(lo, fr, x), 0, x)
    BY <1>1 DEF Moved, Bounds
  <1>3. Moved(Bounds(lo, fr, hi), Bounds(x, fr, hi), LastBlock + 1, x)
    BY <1>1 DEF Moved, Bounds
  <1>4. ASSUME NEW b \in Blocks, x \in 0..MaxTokens
        PROVE  /\ [fr EXCEPT ![b] = x] \in [Blocks -> 0..MaxTokens]
               /\ Moved(Bounds(lo, fr, hi), Bounds(lo, [fr EXCEPT ![b] = x], hi), b, x)
    <2>1. PICK g : g = [fr EXCEPT ![b] = x]
      OBVIOUS
    <2>2. g \in [Blocks -> 0..MaxTokens] /\ g[b] = x /\ \A c \in Blocks : c # b => g[c] = fr[c]
      BY <2>1, <1>4
    <2>3. b # 0 /\ b # LastBlock + 1 /\ b \in 0..(LastBlock + 1)
      BY <1>1
    <2>4. \A t \in 0..(LastBlock + 1) : t # 0 /\ t # LastBlock + 1 => t \in Blocks
      BY <1>1
    <2>5. Moved(Bounds(lo, fr, hi), Bounds(lo, g, hi), b, x)
      BY <2>2, <2>3, <2>4 DEF Moved, Bounds
    <2> QED
      BY <2>1, <2>2, <2>5
  <1> QED
    BY <1>2, <1>3, <1>4

\* An owner that runs its block and sends the frame on keeps the order of the call.
LEMMA ForwardFlow ==
    ASSUME RingAssumption, NEW P \in Pipes, NEW R \in Pipes, NEW Q \in Pipes,
           NEW fr \in [Blocks -> 0..MaxTokens], NEW lo \in Nat, NEW hi \in Nat,
           Flow(P, Bounds(lo, fr, hi)), Layered(P),
           NEW m \in RingFrames, m.kind \in LayerKinds, NEW u \in Links, Way(m) = u, m = P[u][1], Taken(P, R, u),
           NEW n \in RingFrames, Stage(n) = m.block + 1, n.kind \notin SyncKinds,
           n.first = m.first, n.count = m.count,
           NEW v \in Links, v = Route(m.block + 1), Added(R, Q, v, n)
    PROVE  /\ [fr EXCEPT ![m.block] = m.first + m.count] \in [Blocks -> 0..MaxTokens]
           /\ Flow(Q, Bounds(lo, [fr EXCEPT ![m.block] = m.first + m.count], hi))
  <1>1. m.block \in Blocks /\ m.block \in 1..LastBlock /\ Stage(m) = m.block /\ Way(m) = Route(m.block)
    BY DEF RingFrames, Blocks, LastBlock, Stage, Way, LayerKinds
  <1>2. m.first + m.count \in 0..MaxTokens /\ m.first + m.count \in Nat
    <2>1. m.kind \notin SyncKinds
      BY DEF LayerKinds, SyncKinds
    <2>2. m.first \in 0..MaxTokens /\ m.count \in 0..MaxTokens /\ m.first + m.count <= MaxTokens
      BY <2>1 DEF RingFrames, After
    <2>3. MaxTokens \in Nat
      BY DEF RingAssumption
    <2> QED
      BY <2>2, <2>3
  <1>3. PICK bd, g : bd = Bounds(lo, fr, hi) /\ g = [fr EXCEPT ![m.block] = m.first + m.count]
    OBVIOUS
  <1>4. g \in [Blocks -> 0..MaxTokens]
    BY <1>1, <1>2, <1>3, BoundsMove
  <1>5. PICK c : c = Bounds(lo, g, hi)
    OBVIOUS
  <1>6. bd \in Points /\ c \in Points
    BY <1>3, <1>4, <1>5, BoundsIs
  <1>7. Moved(bd, c, m.block, m.first + m.count)
    BY <1>1, <1>2, <1>3, <1>5, BoundsMove
  <1>8. After(n) = m.first + m.count
    BY DEF After
  <1>9. Flow(P, bd)
    BY <1>3
  <1>10. u = Route(m.block) /\ Stage(P[u][1]) = m.block /\ n.first = P[u][1].first /\ n.count = P[u][1].count
    BY <1>1
  <1>11. Moved(bd, c, m.block, After(n))
    BY <1>7, <1>8, Zenon
  <1>12. Flow(Q, c)
    BY <1>1, <1>6, <1>9, <1>10, <1>11, FlowAdvance
  <1> QED
    BY <1>3, <1>4, <1>5, <1>12

\* What a forwarding step leaves on the links.
LEMMA Forwarded ==
    ASSUME NEW P \in Pipes, NEW R \in Pipes, NEW Q, NEW u \in Links, NEW v \in Links, NEW n,
           Taken(P, R, u), Added(R, Q, v, n)
    PROVE  \A l \in Links : \A m \in OnLink(Q, l) : m \in OnLink(P, l) \/ m = n
  <1>1. \A l \in Links : OnLink(R, l) \subseteq OnLink(P, l)
    BY TailLayered
  <1>2. \A l \in Links : \A m \in OnLink(Q, l) : m \in OnLink(R, l) \/ (l = v /\ m = n)
    BY AppendLayered
  <1> QED
    BY <1>1, <1>2

\* With nothing on the pipes no send is under way.
LEMMA StillWires ==
    ASSUME RingAssumption, WiresOK, Still
    PROVE  /\ out = <<>> /\ \A r \in Workers : wout[r] = <<>>
           /\ \A l \in Links : link[l] = <<>>
  <1>0. /\ WireTyped(link, out, wout) /\ Pipe = PipeOf(link, SendsOf(out, wout)) /\ link \in Pipes
    BY PipeFacts
  <1>1. PICK S : S = SendsOf(out, wout)
    OBVIOUS
  <1>2. S \in SendTable /\ S[0] = out /\ 0 \in RingRanks /\ 0 \notin Workers /\ \A r \in Workers : S[r] = wout[r] /\ r \in RingRanks
    BY <1>0, <1>1, WireFacts
  <1>3. \A l \in Links : link[l] = <<>> /\ Sent(S, l) = <<>>
    <2> SUFFICES ASSUME NEW l \in Links PROVE link[l] = <<>> /\ Sent(S, l) = <<>>
      OBVIOUS
    <2>1. PipeOf(link, S)[l] = <<>>
      BY <1>0, <1>1 DEF Still
    <2> QED
      BY <2>1, <1>0, <1>2, PipeHead
  <1>4. out = <<>>
    <2> SUFFICES ASSUME out # <<>> PROVE FALSE
      OBVIOUS
    <2>1. out[1] \in Workers
      BY <1>0 DEF WireTyped
    <2>2. PICK l : l = <<0, out[1]>>
      OBVIOUS
    <2>3. l \in Links /\ l[1] = 0 /\ l[2] = out[1]
      BY <2>1, <2>2, <1>2 DEF Links
    <2>4. Sent(S, l) = <<S[l[1]][2]>>
      BY <2>3, <1>2 DEF Sent
    <2>5. Sent(S, l) = <<>>
      BY <2>3, <1>3
    <2>6. \A x : <<x>> # <<>>
      OBVIOUS
    <2> QED
      BY <2>4, <2>5, <2>6, Zenon
  <1>5. ASSUME NEW r \in Workers PROVE wout[r] = <<>>
    <2> SUFFICES ASSUME wout[r] # <<>> PROVE FALSE
      OBVIOUS
    <2>1. wout[r][1] \in RingRanks /\ wout[r][1] # r
      BY <1>0 DEF WireTyped
    <2>2. PICK l : l = <<r, wout[r][1]>>
      OBVIOUS
    <2>3. l \in Links /\ l[1] = r /\ l[2] = wout[r][1]
      BY <2>1, <2>2, <1>2 DEF Links
    <2>4. Sent(S, l) = <<S[l[1]][2]>>
      BY <2>3, <1>2 DEF Sent
    <2>5. Sent(S, l) = <<>>
      BY <2>3, <1>3
    <2>6. \A x : <<x>> # <<>>
      OBVIOUS
    <2> QED
      BY <2>4, <2>5, <2>6, Zenon
  <1> QED
    BY <1>3, <1>4, <1>5

\* The links of an empty ring carry nothing.
LEMMA StillCarries ==
    ASSUME Still
    PROVE  \A l \in Links : OnLink(Pipe, l) = {} /\ Len(Pipe[l]) = 0
  BY DEF Still, OnLink

\* Rank 0 sends the first block's owner its work.
LEMMA FirstRoute ==
    ASSUME RingAssumption
    PROVE  /\ Route(1) = <<0, BlockOwner[1]>> /\ BlockOwner[1] \in Workers /\ 1 \in Blocks /\ 1 \in Stages
           /\ LastBlock \in Nat \ {0} /\ Blocks = 1..LastBlock
  <1>1. LastBlock \in Nat \ {0} /\ Blocks = 1..LastBlock /\ BlockOwner[1] # 0
    BY DEF RingAssumption, LastBlock, Blocks
  <1>2. 1 \in Blocks /\ 1 \in Stages /\ 1 # LastBlock + 1
    BY <1>1 DEF Stages
  <1>3. Route(1) = <<0, BlockOwner[1]>>
    BY <1>2 DEF Route
  <1>4. BlockOwner[1] \in Workers
    BY <1>1, <1>2 DEF Workers, RingRanks
  <1> QED
    BY <1>1, <1>2, <1>3, <1>4

\* The end of a prefill.
LEMMA PrefillEndsKeeps ==
    ASSUME RingAssumption, RingIInv, PrefillEnds
    PROVE  RingIInv'
  <1>1. /\ call.op = "prefill" /\ (prefilled = call.count \/ InFlight = 0)
        /\ transport' \in {"ready", transport}
        /\ pos' = call.first + prefilled
        /\ call' = [NoCall EXCEPT !.op = IF prefilled = call.count /\ ~ringDecode THEN "sync" ELSE "idle",
                                  !.left = Blocks]
        /\ UNCHANGED <<slot, chunk, prefilled, session, out, mirror, ringDecode,
                       frontier, link, wsession, wout, died, faults>>
    BY DEF PrefillEnds, Drained, owners
  <1>2. WiresOK' /\ Pipe' = Pipe
    BY <1>1, QuietWires DEF RingIInv
  <1>3. /\ call' \in [op : RingOps, first : 0..MaxTokens, count : 0..MaxTokens, issued : Nat,
                 aborted : BOOLEAN, left : SUBSET Nat]
        /\ call'.op = (IF prefilled = call.count /\ ~ringDecode THEN "sync" ELSE "idle")
        /\ call'.left = Blocks /\ call'.issued = 0
    <2>1. PICK o : o = IF prefilled = call.count /\ ~ringDecode THEN "sync" ELSE "idle"
      OBVIOUS
    <2>2. o \in RingOps /\ Blocks \in SUBSET Nat
      BY <2>1, WorkersAre DEF RingOps
    <2>3. call' = [NoCall EXCEPT !.op = o, !.left = Blocks]
      BY <2>1, <1>1
    <2> QED
      BY <2>1, <2>2, <2>3, NewCall
  <1>4. Sound
    BY <1>1, CallIsSound
  <1>5. InCall /\ SessionsOK
    BY <1>1, <1>4 DEF Sound
  <1>6. /\ frontier \in [Blocks -> 0..MaxTokens] /\ MaxTokens \in Nat /\ slot \in SlotTable /\ Routed(Pipe)
        /\ call.first \in Nat /\ call.issued \in Nat /\ call.count \in Nat /\ prefilled \in Nat
        /\ Frames \in Nat \ {0}
    BY DEF RingIInv, StateOK, WiresOK, RingAssumption
  <1>7. PICK lo, hi : lo = call.first + prefilled /\ hi = call.first + call.issued
    OBVIOUS
  <1>8. PICK bd : bd = Bounds(lo, frontier, hi)
    OBVIOUS
  <1>9. /\ lo \in Nat /\ hi \in Nat /\ Flow(Pipe, bd) /\ bd \in Points /\ bd[0] = hi /\ bd[LastBlock + 1] = lo
        /\ (\A b \in Blocks : bd[b] = frontier[b]) /\ LastBlock \in Nat \ {0} /\ Blocks = 1..LastBlock
    <2>1. lo \in Nat /\ hi \in Nat /\ Flow(Pipe, bd)
      BY <1>5, <1>6, <1>7, <1>8 DEF InCall
    <2> QED
      BY <2>1, <1>6, <1>8, BoundsIs
  <1>10. lo = hi
    <2>1. lo <= hi
      BY <1>9 DEF Flow, Descends
    <2>2. CASE prefilled = call.count
      <3>1. hi <= lo
        BY <2>2, <1>5, <1>6, <1>7 DEF InCall
      <3> QED
        BY <3>1, <2>1, <1>9
    <2>3. CASE InFlight = 0
      <3>1. SlotsOrdered(slot, SlotOfChunk, lo, hi)
        BY <1>5, <1>7 DEF InCall
      <3>2. PICK A : A = {f \in DOMAIN slot : slot[f].active}
        OBVIOUS
      <3>3. IsFiniteSet(A)
        <4>1. DOMAIN slot = 0..(Frames - 1) /\ 0 \in Int /\ Frames - 1 \in Int
          BY <1>6 DEF SlotTable
        <4>2. IsFiniteSet(0..(Frames - 1))
          BY <4>1, FS_Interval
        <4> QED
          BY <4>1, <4>2, <3>2, FS_Subset
      <3>4. Cardinality(A) = 0
        BY <2>3, <3>2 DEF InFlight
      <3>5. A = {}
        BY <3>3, <3>4, FS_EmptySet
      <3>6. \A f \in 0..(Frames - 1) : ~slot[f].active
        BY <3>2, <3>5, <1>6 DEF SlotTable
      <3> QED
        BY <3>1, <3>6 DEF SlotsOrdered
    <2> QED
      BY <2>2, <2>3, <1>1
  <1>11. Still /\ \A b \in Blocks : frontier[b] = lo
    <2>1. Layered(Pipe) /\ Pipe \in Pipes
      BY <1>1, <1>4, FlowHere, PipeFacts DEF RingIInv
    <2>2. (\A l \in Links : Pipe[l] = <<>>) /\ \A t \in 0..(LastBlock + 1) : bd[t] = bd[0]
      BY <2>1, <1>9, <1>10, FlowComplete
    <2>3. \A b \in Blocks : b \in 0..(LastBlock + 1)
      BY <1>9
    <2> QED
      BY <2>2, <2>3, <1>9, <1>10 DEF Still
  <1>12. pos' = lo /\ pos' \in 0..MaxTokens
    <2>1. pos' = lo
      BY <1>1, <1>7
    <2>2. hi <= MaxTokens
      BY <1>5, <1>6, <1>7 DEF InCall
    <2> QED
      BY <2>1, <2>2, <1>6, <1>9, <1>10
  <1>13. StateOK'
    <2>1. transport' \in {"ready", "pending", "poisoned"}
      BY <1>1 DEF RingIInv, StateOK
    <2> QED
      BY <2>1, <1>1, <1>3, <1>12 DEF RingIInv, StateOK, InFlight
  <1>14. Causes'
    BY <1>1 DEF RingIInv, Causes
  <1>15. Still' /\ \A b \in Blocks : frontier'[b] = pos'
    BY <1>1, <1>2, <1>11, <1>12 DEF Still
  <1>16. SessionsOK'
    BY <1>1, <1>2, <1>3, <1>5 DEF SessionsOK
  <1>17. ringDecode \/ NotMirrored
    BY <1>5 DEF InCall
  <1>18. CASE call'.op = "idle"
    <2>1. InIdle'
      BY <1>1, <1>15, <1>17 DEF InIdle, NotMirrored
    <2>2. Sound'
      BY <2>1, <1>16, <1>18 DEF Sound
    <2> QED
      BY <2>2, <1>2, <1>13, <1>14 DEF RingIInv
  <1>19. CASE call'.op = "sync"
    <2>1. ~ringDecode /\ prefilled = call.count
      BY <1>3, <1>19
    <2>2. pos' > 0
      BY <2>1, <1>5, <1>6, <1>7, <1>12 DEF InCall
    <2>3. \A l \in Links : OnLink(Pipe', l) = {} /\ Len(Pipe'[l]) = 0
      BY <1>15 DEF Still, OnLink
    <2>4. KindsIn(Pipe', SyncKinds) /\ OneEach(Pipe')
      BY <2>3 DEF KindsIn, OneEach
    <2>5. \A b \in Blocks : mirror'[b] = 0
      BY <2>1, <1>1, <1>17 DEF NotMirrored
    <2>6. Awaited' = {}
      BY <1>3 DEF Awaited, Remote
    <2>7. call'.issued = Cardinality(Awaited')
      BY <2>6, <1>3, FS_EmptySet
    <2>8. \A b \in Remote' : mirror'[b] \in {0, pos'} /\ (b \in call'.left => mirror'[b] = 0)
      BY <2>5 DEF Remote
    <2>9. InSync'
      BY <2>1, <2>2, <2>3, <2>4, <2>7, <2>8, <1>1, <1>15 DEF InSync
    <2>10. Sound'
      BY <2>9, <1>16, <1>19 DEF Sound
    <2> QED
      BY <2>10, <1>2, <1>13, <1>14 DEF RingIInv
  <1> QED
    BY <1>3, <1>18, <1>19

\* The token enters the ring.
LEMMA DecodeKeeps ==
    ASSUME RingAssumption, RingIInv, Decode
    PROVE  RingIInv'
  <1>1. /\ call.op = "idle" /\ ringDecode /\ pos < MaxTokens
        /\ out' = <<BlockOwner[1], Frame("decode", 1, pos, 1)>>
        /\ call' = [NoCall EXCEPT !.op = "decode", !.first = pos, !.count = 1]
        /\ UNCHANGED <<slot, chunk, prefilled, pos, session, transport, mirror, ringDecode,
                       frontier, link, wsession, wout, died, faults>>
    BY DEF Decode, Sends, owners
  <1>2. /\ pos \in 0..MaxTokens /\ MaxTokens \in Nat /\ frontier \in [Blocks -> 0..MaxTokens]
        /\ session \in 1..MaxSession /\ 1 \in 0..MaxTokens /\ WiresOK
    BY SMTT(30) DEF RingIInv, StateOK, RingAssumption
  <1>3. Sound
    BY <1>1, CallIsSound
  <1>4. Still /\ (\A b \in Blocks : frontier[b] = pos) /\ SessionsOK
    BY <1>1, <1>3 DEF Sound, InIdle
  <1>5. PICK n : n = Frame("decode", 1, pos, 1)
    OBVIOUS
  <1>6. /\ n.kind = "decode" /\ n.block = 1 /\ n.first = pos /\ n.count = 1 /\ n.session = session
        /\ n \in RingFrames /\ Stage(n) = 1 /\ Way(n) = <<0, BlockOwner[1]>> /\ n.kind \notin SyncKinds
        /\ After(n) = pos + 1
    <2>1. /\ n.kind = "decode" /\ n.block = 1 /\ n.first = pos /\ n.count = 1 /\ n.session = session
      BY <1>5 DEF Frame
    <2>2. n.kind \in LayerKinds \cup EndKinds \cup SyncKinds /\ n.kind \in LayerKinds /\ n.kind \notin SyncKinds
      BY <2>1 DEF LayerKinds, SyncKinds
    <2>3. n \in [kind : LayerKinds \cup EndKinds \cup SyncKinds, block : Blocks,
                 first : 0..MaxTokens, count : 0..MaxTokens, session : 1..MaxSession]
      BY <2>1, <2>2, <1>2, <1>5, FirstRoute DEF Frame
    <2>4. After(n) = pos + 1
      BY <2>1 DEF After
    <2>5. n \in RingFrames
      BY <2>1, <2>2, <2>3, <2>4, <1>1, <1>2 DEF RingFrames
    <2>6. Stage(n) = 1
      BY <2>1, <2>2 DEF Stage
    <2>7. Way(n) = <<0, BlockOwner[1]>>
      BY <2>1, <2>6, FirstRoute DEF Way
    <2> QED
      BY <2>1, <2>2, <2>4, <2>5, <2>6, <2>7
  <1>7. PICK q : q = BlockOwner[1]
    OBVIOUS
  <1>8. q \in Workers /\ Route(1) = <<0, q>> /\ Way(n) = <<0, q>> /\ out' = <<q, n>> /\ out = <<>>
    BY <1>1, <1>2, <1>4, <1>5, <1>6, <1>7, FirstRoute, StillWires
  <1>9. /\ WiresOK' /\ <<0, q>> \in Links /\ Added(Pipe, Pipe', <<0, q>>, n)
        /\ Pipe \in Pipes /\ Pipe' \in Pipes
    BY <1>1, <1>2, <1>6, <1>8, HostSends
  <1>10. PICK v : v = <<0, q>>
    OBVIOUS
  <1>11. \A l \in Links : \A m \in OnLink(Pipe', l) : m = n
    <2>1. \A l \in Links : \A m \in OnLink(Pipe', l) : m \in OnLink(Pipe, l) \/ (l = v /\ m = n)
      BY <1>9, <1>10, AppendLayered
    <2> QED
      BY <2>1, <1>4, StillCarries
  <1>12. Flow(Pipe', Bounds(pos, frontier, pos + 1))
    <2>1. PICK bd, c : bd = Bounds(pos, frontier, pos) /\ c = Bounds(pos, frontier, pos + 1)
      OBVIOUS
    <2>2. bd \in Points /\ \A t \in 0..(LastBlock + 1) : bd[t] = pos
      BY <2>1, <1>2, <1>4, LevelBounds
    <2>3. Flow(Pipe, bd)
      BY <2>2, <1>4, FlowStart DEF Still
    <2>4. c \in Points /\ Moved(bd, c, 0, pos + 1)
      BY <2>1, <1>2, BoundsIs, BoundsMove
    <2>5. Layered(Pipe)
      BY <1>4, StillCarries DEF Layered, Routed, KindsIn
    <2>6. bd[0] = pos
      BY <2>2, FirstRoute
    <2>7. n.first = bd[0] /\ v = Route(1) /\ v \in Links /\ Added(Pipe, Pipe', v, n) /\ Moved(bd, c, 0, After(n))
      BY <2>4, <2>6, <1>6, <1>8, <1>9, <1>10
    <2>8. Flow(Pipe', c)
      BY <2>2, <2>3, <2>4, <2>5, <2>7, <1>6, <1>9, FlowIssue
    <2> QED
      BY <2>1, <2>8
  <1>13. /\ call' \in [op : RingOps, first : 0..MaxTokens, count : 0..MaxTokens, issued : Nat,
                 aborted : BOOLEAN, left : SUBSET Nat]
         /\ call'.op = "decode" /\ call'.first = pos
    <2>1. "decode" \in RingOps
      BY DEF RingOps
    <2>2. call' = [op |-> "decode", first |-> pos, count |-> 1, issued |-> 0, aborted |-> FALSE, left |-> {}]
      BY <1>1 DEF NoCall
    <2> QED
      BY <2>1, <2>2, <1>2
  <1>14. StateOK'
    BY <1>1, <1>13 DEF RingIInv, StateOK, InFlight
  <1>15. Causes'
    BY <1>1 DEF RingIInv, Causes
  <1>16. InDecode'
    <2>1. KindsIn(Pipe', {"decode", "token"})
      BY <1>6, <1>11 DEF KindsIn
    <2> QED
      BY <2>1, <1>1, <1>12, <1>13 DEF InDecode
  <1>17. SessionsOK'
    BY <1>1, <1>4, <1>6, <1>11, <1>13 DEF SessionsOK
  <1>18. Sound'
    BY <1>13, <1>16, <1>17 DEF Sound
  <1> QED
    BY <1>9, <1>14, <1>15, <1>18 DEF RingIInv

\* What rank 0 knows of the frame that arrived from p while the ring carries layer work.
LEMMA HostHead ==
    ASSUME RingAssumption, RingIInv, Sound, NEW p \in Workers, NEW u, u = <<p, 0>>,
           link[u] # <<>>, NEW m, m = Head(link[u])
    PROVE  /\ u \in Links /\ m \in RingFrames /\ m \in OnLink(Pipe, u) /\ Way(m) = u /\ m = Pipe[u][1]
           /\ Pipe[u] # <<>> /\ m.session = session /\ Pipe \in Pipes
  <1>0. /\ WireTyped(link, out, wout) /\ Pipe = PipeOf(link, SendsOf(out, wout)) /\ link \in Pipes
        /\ Routed(Pipe) /\ Pipe \in Pipes
    BY PipeFacts DEF RingIInv
  <1>1. u \in Links
    BY DEF Links, Workers, RingRanks
  <1>2. SendsOf(out, wout) \in SendTable
    BY <1>0, WireFacts
  <1>3. m \in RingFrames /\ m \in OnLink(Pipe, u) /\ m = Pipe[u][1] /\ Pipe[u] # <<>>
    BY <1>0, <1>1, <1>2, PipeHead
  <1>4. Way(m) = u
    BY <1>0, <1>1, <1>3 DEF Routed
  <1>5. m.session = session
    BY <1>1, <1>3 DEF Sound, SessionsOK
  <1> QED
    BY <1>0, <1>1, <1>3, <1>4, <1>5

\* A result reaches rank 0 from the last owner only.
LEMMA EndFrame ==
    ASSUME RingAssumption, NEW m \in RingFrames, m.kind \in EndKinds, NEW p, Way(m) = <<p, 0>>
    PROVE  /\ p = BlockOwner[Len(BlockOwner)] /\ Stage(m) = LastBlock + 1 /\ LastBlock + 1 \in Stages
           /\ Route(LastBlock + 1) = <<p, 0>> /\ LastBlock \in Nat \ {0}
  <1>1. LastBlock \in Nat \ {0} /\ LastBlock = Len(BlockOwner)
    BY DEF RingAssumption, LastBlock
  <1>2. Stage(m) = LastBlock + 1 /\ Way(m) = Route(LastBlock + 1)
    BY DEF Stage, Way, EndKinds, LayerKinds
  <1>3. LastBlock + 1 # 1 /\ (LastBlock + 1) - 1 = LastBlock /\ LastBlock + 1 \in Stages
    BY <1>1 DEF Stages
  <1>4. Route(LastBlock + 1)[1] = BlockOwner[LastBlock]
    BY <1>3 DEF Route
  <1> QED
    BY <1>1, <1>2, <1>3, <1>4

\* Rank 0's own block: the frame it sends on, and where.
LEMMA HostBlock ==
    ASSUME RingAssumption, NEW m \in RingFrames, m.kind \in LayerKinds, NEW p, Way(m) = <<p, 0>>,
           NEW n, n = [m EXCEPT !.block = m.block + 1], NEW q, q = BlockOwner[m.block + 1]
    PROVE  /\ q \in Workers /\ n \in RingFrames /\ Way(n) = <<0, q>> /\ Route(m.block + 1) = <<0, q>>
           /\ Stage(n) = m.block + 1 /\ n.kind \notin SyncKinds /\ n.kind = m.kind
           /\ n.first = m.first /\ n.count = m.count /\ n.session = m.session
           /\ m.block \in Blocks
  <1>1. /\ m.block \in Blocks /\ LastBlock \in Nat \ {0} /\ Blocks = 1..LastBlock
        /\ m.block = LastBlock => 0 # 0
        /\ m.block < LastBlock =>
             /\ Route(m.block + 1) = <<0, q>> /\ q \in RingRanks /\ q # 0
    BY LayerFrame
  <1>2. m.block < LastBlock
    BY <1>1
  <1>3. /\ n \in RingFrames /\ Way(n) = Route(m.block + 1) /\ Stage(n) = m.block + 1
        /\ n.first = m.first /\ n.count = m.count /\ n.session = m.session /\ n.kind \notin SyncKinds
    <2>1. Onward(m, n)
      BY <1>2 DEF Onward
    <2>2. ASSUME NEW k, Onward(m, k)
          PROVE  /\ k \in RingFrames /\ Way(k) = Route(m.block + 1) /\ Stage(k) = m.block + 1
                 /\ k.first = m.first /\ k.count = m.count /\ k.session = m.session /\ k.kind \notin SyncKinds
      BY <2>2, NextFrame
    <2> QED
      BY <2>1, <2>2
  <1>4. n.kind = m.kind
    BY DEF RingFrames
  <1> QED
    BY <1>1, <1>2, <1>3, <1>4 DEF Workers

\* The token in the ring is the one rank 0 waits for.
LEMMA TokenHere ==
    ASSUME RingAssumption, RingIInv, Sound, call.op = "decode", NEW u \in Links, Pipe[u] # <<>>
    PROVE  /\ Pipe[u][1].first = call.first /\ call.first = pos /\ After(Pipe[u][1]) = pos + 1
           /\ Pipe[u][1].kind \in {"decode", "token"}
           /\ \A l \in Links, i \in Nat \ {0} : i <= Len(Pipe[l]) => l = u /\ i = 1
  <1>1. InDecode
    BY DEF Sound
  <1>2. /\ frontier \in [Blocks -> 0..MaxTokens] /\ pos \in Nat /\ Pipe \in Pipes
    BY PipeFacts DEF RingIInv, StateOK
  <1>3. PICK bd : bd = Bounds(pos, frontier, pos + 1)
    OBVIOUS
  <1>4. bd \in Points /\ bd[LastBlock + 1] = pos /\ bd[0] = pos + 1 /\ Flow(Pipe, bd)
    <2>1. pos + 1 \in Nat
      BY <1>2
    <2>2. bd \in Points /\ bd[LastBlock + 1] = pos /\ bd[0] = pos + 1
      BY <2>1, <1>2, <1>3, BoundsIs
    <2> QED
      BY <2>2, <1>1, <1>3 DEF InDecode
  <1>5. Layered(Pipe)
    BY FlowHere
  <1>6. 1 \in 1..Len(Pipe[u])
    <2>1. Pipe[u] \in Seq(RingFrames)
      BY <1>2 DEF Pipes
    <2> QED
      BY <2>1
  <1>7. Pipe[u][1].first = pos /\ After(Pipe[u][1]) = pos + 1
    BY <1>2, <1>4, <1>5, <1>6, OneFrame
  <1>8. ASSUME NEW l \in Links, NEW i \in Nat \ {0}, i <= Len(Pipe[l]) PROVE l = u /\ i = 1
    <2>1. Len(Pipe[l]) \in Nat
      <3>1. Pipe[l] \in Seq(RingFrames)
        BY <1>2 DEF Pipes
      <3> QED
        BY <3>1
    <2>2. i \in 1..Len(Pipe[l])
      BY <2>1, <1>8
    <2> QED
      BY <2>2, <1>2, <1>4, <1>5, <1>6, OneFrame
  <1>9. Pipe[u][1].kind \in {"decode", "token"}
    <2>1. Pipe[u][1] \in OnLink(Pipe, u)
      BY <1>6 DEF OnLink
    <2> QED
      BY <2>1, <1>1 DEF InDecode, KindsIn
  <1>10. call.first = pos
    BY <1>1 DEF InDecode
  <1> QED
    BY <1>7, <1>8, <1>9, <1>10

\* A token lost at rank 0's own block leaves nothing in the ring.
LEMMA DecodeNotFiniteKeeps ==
    ASSUME RingAssumption, RingIInv, NEW p \in Workers, DecodeNotFinite(p)
    PROVE  RingIInv'
  <1>0. PICK u : u = <<p, 0>>
    OBVIOUS
  <1>1. /\ call.op = "decode" /\ link[u] # <<>> /\ faults' = faults + 1
        /\ call' = [NoCall EXCEPT !.op = "failed"] /\ link' = [link EXCEPT ![u] = Tail(link[u])]
        /\ UNCHANGED <<slot, chunk, prefilled, pos, session, transport, out, mirror, ringDecode,
                       frontier, wsession, wout, died>>
    BY <1>0 DEF DecodeNotFinite, Arrived, Take
  <1>2. Sound
    BY <1>1, CallIsSound
  <1>3. PICK m : m = Head(link[u])
    OBVIOUS
  <1>4. u \in Links /\ Pipe[u] # <<>>
    BY <1>0, <1>1, <1>2, <1>3, HostHead
  <1>5. WiresOK' /\ Taken(Pipe, Pipe', u) /\ Pipe \in Pipes /\ Pipe' \in Pipes
    BY <1>1, <1>4, HostTakes DEF RingIInv
  <1>6. Still'
    <2> SUFFICES ASSUME NEW l \in Links PROVE Pipe'[l] = <<>>
      BY DEF Still
    <2>0. Pipe[l] \in Seq(RingFrames) /\ Pipe[u] \in Seq(RingFrames)
      BY <1>4, <1>5 DEF Pipes
    <2>1. CASE l = u
      <3>1. Len(Pipe[u]) <= 1
        <4>1. ASSUME Len(Pipe[u]) >= 2 PROVE FALSE
          <5>1. 2 \in Nat \ {0} /\ 2 <= Len(Pipe[u])
            BY <4>1, <2>0
          <5>2. 2 = 1
            BY <5>1, <1>1, <1>2, <1>4, TokenHere
          <5> QED
            BY <5>2
        <4> QED
          BY <4>1, <2>0
      <3>2. Pipe'[u] = Tail(Pipe[u])
        BY <1>5 DEF Taken
      <3>3. Len(Pipe[u]) = 1
        <4>0. PICK k : k = Len(Pipe[u])
          OBVIOUS
        <4>1. k # 0
          BY <4>0, <2>0, <1>4, EmptySeq
        <4>2. k \in Nat /\ k <= 1
          BY <4>0, <2>0, <3>1
        <4>3. k = 1
          BY <4>1, <4>2
        <4> QED
          BY <4>0, <4>3
      <3>4. Tail(Pipe[u]) \in Seq(RingFrames) /\ Len(Tail(Pipe[u])) = 0
        BY <3>3, <2>0, <1>4
      <3>5. Tail(Pipe[u]) = <<>>
        BY <3>4, EmptySeq
      <3> QED
        BY <3>2, <3>5, <2>1
    <2>2. CASE l # u
      <3>1. Pipe'[l] = Pipe[l]
        BY <2>2, <1>5 DEF Taken
      <3>2. ASSUME Pipe[l] # <<>> PROVE FALSE
        <4>1. 1 \in Nat \ {0} /\ 1 <= Len(Pipe[l])
          BY <3>2, <2>0
        <4>2. l = u
          BY <4>1, <1>1, <1>2, <1>4, TokenHere
        <4> QED
          BY <4>2, <2>2
      <3> QED
        BY <3>1, <3>2
    <2> QED
      BY <2>1, <2>2
  <1>7. /\ call' \in [op : RingOps, first : 0..MaxTokens, count : 0..MaxTokens, issued : Nat,
                 aborted : BOOLEAN, left : SUBSET Nat]
        /\ call'.op = "failed"
    <2>1. "failed" \in RingOps
      BY DEF RingOps
    <2> QED
      BY <2>1, <1>1, NewCall
  <1>8. StateOK'
    <2>1. faults' \in Nat
      BY <1>1 DEF RingIInv, StateOK
    <2>2. \A l \in Links : Len(link'[l]) <= LinkCap
      <3>1. link \in Pipes /\ \A l \in Links : Len(link[l]) <= LinkCap
        BY PipeFacts DEF RingIInv, StateOK
      <3> QED
        BY <3>1, <1>1, <1>4, CapTail
    <2> QED
      BY <2>1, <2>2, <1>1, <1>7 DEF RingIInv, StateOK, InFlight
  <1>9. Causes'
    BY <1>1 DEF RingIInv, Causes
  <1>10. SessionsOK'
    <2>1. \A l \in Links : OnLink(Pipe', l) = {}
      BY <1>6 DEF Still, OnLink
    <2>2. SessionsOK
      BY <1>2 DEF Sound
    <2> QED
      BY <2>1, <2>2, <1>1, <1>7 DEF SessionsOK
  <1>11. Sound'
    BY <1>6, <1>7, <1>10 DEF Sound
  <1> QED
    BY <1>5, <1>8, <1>9, <1>11 DEF RingIInv

\* The token comes to rank 0's own block, or its result does.
LEMMA DecodeFrameKeeps ==
    ASSUME RingAssumption, RingIInv, NEW p \in Workers, DecodeFrame(p)
    PROVE  RingIInv'
  <1>0. PICK u, m : u = <<p, 0>> /\ m = Head(link[u])
    OBVIOUS
  <1>1. call.op = "decode" /\ out = <<>> /\ link[u] # <<>> /\ Got(p) = m
    BY <1>0 DEF DecodeFrame, Free, Arrived, Got
  <1>2. Sound
    BY <1>1, CallIsSound
  <1>3. /\ u \in Links /\ m \in RingFrames /\ m \in OnLink(Pipe, u) /\ Way(m) = u /\ m = Pipe[u][1]
        /\ Pipe[u] # <<>> /\ m.session = session /\ Pipe \in Pipes
    BY <1>0, <1>1, <1>2, HostHead
  <1>4. /\ m.first = call.first /\ call.first = pos /\ After(m) = pos + 1 /\ m.kind \in {"decode", "token"}
    BY <1>1, <1>2, <1>3, TokenHere
  <1>5. /\ frontier \in [Blocks -> 0..MaxTokens] /\ pos \in 0..MaxTokens /\ MaxTokens \in Nat
        /\ pos \in Nat /\ pos + 1 \in Nat
    BY SMTT(30) DEF RingIInv, StateOK, RingAssumption
  <1>6. InDecode /\ SessionsOK /\ Layered(Pipe)
    BY <1>1, <1>2, FlowHere DEF Sound
  <1>7. ringDecode /\ pos < MaxTokens /\ KindsIn(Pipe, {"decode", "token"}) /\ Flow(Pipe, Bounds(pos, frontier, pos + 1))
    BY <1>6 DEF InDecode
  <1>8. link \in Pipes /\ WiresOK /\ \A l \in Links : Len(link[l]) <= LinkCap
    BY PipeFacts DEF RingIInv, StateOK
  <1>9. CASE m.kind = "decode"
    <2>1. PICK n, q : n = [m EXCEPT !.block = m.block + 1] /\ q = BlockOwner[m.block + 1]
      OBVIOUS
    <2>2. m.kind \in LayerKinds
      BY <1>9 DEF LayerKinds
    <2>3. /\ frontier' = [frontier EXCEPT ![m.block] = m.first + 1] /\ out' = <<q, n>>
          /\ link' = [link EXCEPT ![u] = Tail(link[u])]
          /\ UNCHANGED <<call, slot, chunk, prefilled, pos, session, transport, mirror, wsession, wout, died,
                         faults, ringDecode>>
      BY <2>1, <1>0, <1>1, <1>3, <1>4, <1>9 DEF DecodeFrame, Sends, Take
    <2>4. /\ q \in Workers /\ n \in RingFrames /\ Way(n) = <<0, q>> /\ Route(m.block + 1) = <<0, q>>
          /\ Stage(n) = m.block + 1 /\ n.kind \notin SyncKinds /\ n.kind = m.kind
          /\ n.first = m.first /\ n.count = m.count /\ n.session = m.session
      BY <2>1, <2>2, <1>0, <1>3, HostBlock
    <2>5. /\ WiresOK' /\ <<0, q>> \in Links /\ Pipe \in Pipes /\ Pipe' \in Pipes
          /\ \E R \in Pipes : Taken(Pipe, R, u) /\ Added(R, Pipe', <<0, q>>, n)
      BY <2>3, <2>4, <1>1, <1>3, <1>8, HostForwards
    <2>6. PICK R \in Pipes : Taken(Pipe, R, u) /\ Added(R, Pipe', <<0, q>>, n)
      BY <2>5
    <2>7. PICK v : v = <<0, q>>
      OBVIOUS
    <2>8. v \in Links /\ v = Route(m.block + 1) /\ Added(R, Pipe', v, n)
      BY <2>4, <2>5, <2>6, <2>7
    <2>9. m.count = 1
      BY <1>3, <1>9 DEF RingFrames
    <2>10. /\ frontier' = [frontier EXCEPT ![m.block] = m.first + m.count]
           /\ frontier' \in [Blocks -> 0..MaxTokens] /\ Flow(Pipe', Bounds(pos, frontier', pos + 1))
      <3>1. frontier' = [frontier EXCEPT ![m.block] = m.first + m.count]
        BY <2>3, <2>9
      <3>2. /\ [frontier EXCEPT ![m.block] = m.first + m.count] \in [Blocks -> 0..MaxTokens]
            /\ Flow(Pipe', Bounds(pos, [frontier EXCEPT ![m.block] = m.first + m.count], pos + 1))
        BY <2>2, <2>4, <2>5, <2>6, <2>8, <1>3, <1>5, <1>6, <1>7, ForwardFlow
      <3> QED
        BY <3>1, <3>2
    <2>11. \A l \in Links : \A k \in OnLink(Pipe', l) : k \in OnLink(Pipe, l) \/ k = n
      BY <2>6, <2>8, <1>3, Forwarded
    <2>12. StateOK'
      <3>1. \A l \in Links : Len(link'[l]) <= LinkCap
        BY <2>3, <1>1, <1>3, <1>8, CapTail
      <3> QED
        BY <3>1, <2>3, <2>10 DEF RingIInv, StateOK, InFlight
    <2>13. Causes'
      BY <2>3 DEF RingIInv, Causes
    <2>14. KindsIn(Pipe', {"decode", "token"})
      BY <2>4, <2>11, <1>7, <1>9 DEF KindsIn
    <2>15. InDecode'
      BY <2>3, <2>10, <2>14, <1>4, <1>7 DEF InDecode
    <2>16. SessionsOK'
      BY <2>3, <2>4, <2>11, <1>3, <1>6 DEF SessionsOK
    <2>17. Sound'
      BY <2>3, <2>15, <2>16, <1>1 DEF Sound
    <2> QED
      BY <2>5, <2>12, <2>13, <2>17 DEF RingIInv
  <1>10. CASE m.kind = "token"
    <2>1. /\ pos' = pos + 1 /\ call' = NoCall
          /\ link' = [link EXCEPT ![u] = Tail(link[u])]
          /\ UNCHANGED <<slot, chunk, prefilled, session, transport, out, mirror,
                               frontier, wsession, wout, died, faults, ringDecode>>
      BY <1>0, <1>1, <1>3, <1>4, <1>10 DEF DecodeFrame, Take
    <2>2. WiresOK' /\ Taken(Pipe, Pipe', u) /\ Pipe' \in Pipes
      BY <2>1, <1>1, <1>3, <1>8, HostTakes
    <2>3. m.kind \in EndKinds
      BY <1>10 DEF EndKinds
    <2>4. Stage(m) = LastBlock + 1 /\ Route(LastBlock + 1) = u
      BY <2>3, <1>0, <1>3, EndFrame
    <2>5. PICK bd, c : bd = Bounds(pos, frontier, pos + 1) /\ c = Bounds(pos + 1, frontier, pos + 1)
      OBVIOUS
    <2>6. /\ bd \in Points /\ c \in Points /\ Moved(bd, c, LastBlock + 1, pos + 1) /\ c[0] = pos + 1
          /\ c[LastBlock + 1] = pos + 1 /\ (\A b \in Blocks : c[b] = frontier[b])
          /\ LastBlock \in Nat \ {0} /\ Blocks = 1..LastBlock
      <3>1. bd \in Points
        BY <2>5, <1>5, BoundsIs
      <3>2. /\ c \in Points /\ c[0] = pos + 1 /\ LastBlock \in Nat \ {0} /\ Blocks = 1..LastBlock
            /\ c[LastBlock + 1] = pos + 1 /\ (\A b \in Blocks : c[b] = frontier[b])
        BY <2>5, <1>5, BoundsIs
      <3>3. Moved(bd, c, LastBlock + 1, pos + 1)
        BY <2>5, <1>5, BoundsMove
      <3> QED
        BY <3>1, <3>2, <3>3
    <2>7. Flow(Pipe, bd) /\ Stage(Pipe[u][1]) = LastBlock + 1 /\ u = Route(LastBlock + 1)
          /\ Moved(bd, c, LastBlock + 1, After(Pipe[u][1]))
      BY <2>4, <2>5, <2>6, <1>3, <1>4, <1>7
    <2>8. Flow(Pipe', c)
      BY <2>2, <2>6, <2>7, <1>3, <1>6, FlowFinish
    <2>9. \A l \in Links : \A k \in OnLink(Pipe', l) : k \in OnLink(Pipe, l)
      BY <2>2, <1>3, TailLayered
    <2>10. Layered(Pipe')
      BY <2>9, <1>6 DEF Layered, Routed, KindsIn
    <2>11. (\A l \in Links : Pipe'[l] = <<>>) /\ \A t \in 0..(LastBlock + 1) : c[t] = c[0]
      BY <2>2, <2>6, <2>8, <2>10, FlowComplete
    <2>12. \A b \in Blocks : frontier'[b] = pos'
      <3>1. \A b \in Blocks : b \in 0..(LastBlock + 1)
        BY <2>6
      <3> QED
        BY <3>1, <2>1, <2>6, <2>11
    <2>13. InIdle'
      BY <2>1, <2>11, <2>12, <1>7 DEF InIdle, Still
    <2>14. /\ call' \in [op : RingOps, first : 0..MaxTokens, count : 0..MaxTokens, issued : Nat,
                 aborted : BOOLEAN, left : SUBSET Nat]
           /\ call'.op = "idle"
      <3>1. "idle" \in RingOps /\ {} \in SUBSET Nat
        BY DEF RingOps
      <3> QED
        BY <3>1, <2>1, NewCall
    <2>15. StateOK'
      <3>1. \A l \in Links : Len(link'[l]) <= LinkCap
        BY <2>1, <1>1, <1>3, <1>8, CapTail
      <3>2. pos' \in 0..MaxTokens
        BY <2>1, <1>5, <1>7
      <3> QED
        BY <3>1, <3>2, <2>1, <2>14 DEF RingIInv, StateOK, InFlight
    <2>16. Causes'
      BY <2>1 DEF RingIInv, Causes
    <2>17. SessionsOK'
      BY <2>1, <2>9, <2>14, <1>1, <1>6 DEF SessionsOK
    <2>18. Sound'
      BY <2>13, <2>14, <2>17 DEF Sound
    <2> QED
      BY <2>2, <2>15, <2>16, <2>18 DEF RingIInv
  <1> QED
    BY <1>4, <1>9, <1>10

\* The smaller of two numbers.
LEMMA MinOfTwo ==
    ASSUME NEW a \in Nat, NEW b \in Nat
    PROVE  Min({a, b}) = (IF a <= b THEN a ELSE b)
  <1>1. \E x \in {a, b} : \A y \in {a, b} : x <= y
    OBVIOUS
  <1>2. Min({a, b}) \in {a, b} /\ \A y \in {a, b} : Min({a, b}) <= y
    BY <1>1 DEF Min
  <1> QED
    BY <1>2

\* A number more or a number less in a finite set of slots.
LEMMA ActiveSets ==
    ASSUME RingAssumption, NEW sl \in SlotTable, NEW tl \in SlotTable, NEW k \in 0..(Frames - 1),
           \A f \in 0..(Frames - 1) : f # k => tl[f] = sl[f]
    PROVE  /\ (~sl[k].active /\ tl[k].active) =>
                Cardinality({f \in DOMAIN tl : tl[f].active}) = Cardinality({f \in DOMAIN sl : sl[f].active}) + 1
           /\ ~tl[k].active =>
                Cardinality({f \in DOMAIN tl : tl[f].active}) <= Cardinality({f \in DOMAIN sl : sl[f].active})
           /\ Cardinality({f \in DOMAIN sl : sl[f].active}) \in Nat
  <1>1. PICK A, B : A = {f \in DOMAIN sl : sl[f].active} /\ B = {f \in DOMAIN tl : tl[f].active}
    OBVIOUS
  <1>2. DOMAIN sl = 0..(Frames - 1) /\ DOMAIN tl = 0..(Frames - 1) /\ 0 \in Int /\ Frames - 1 \in Int
    BY DEF SlotTable, RingAssumption
  <1>3. IsFiniteSet(0..(Frames - 1))
    BY <1>2, FS_Interval
  <1>4. IsFiniteSet(A)
    BY <1>1, <1>2, <1>3, FS_Subset
  <1>5. Cardinality(A) \in Nat
    BY <1>4, FS_CardinalityType
  <1>6. ASSUME ~sl[k].active, tl[k].active PROVE Cardinality(B) = Cardinality(A) + 1
    <2>1. B = A \cup {k} /\ k \notin A
      BY <1>1, <1>2, <1>6
    <2> QED
      BY <2>1, <1>4, FS_AddElement
  <1>7. ASSUME ~tl[k].active PROVE Cardinality(B) <= Cardinality(A)
    <2>1. B \subseteq A
      BY <1>1, <1>2, <1>7
    <2> QED
      BY <2>1, <1>4, FS_Subset
  <1>8. (~sl[k].active /\ tl[k].active) => Cardinality(B) = Cardinality(A) + 1
    BY <1>6
  <1>9. ~tl[k].active => Cardinality(B) <= Cardinality(A)
    BY <1>7
  <1> QED
    BY <1>1, <1>5, <1>8, <1>9, Zenon

\* The next chunk enters the ring: its slot is always free.
LEMMA IssueKeeps ==
    ASSUME RingAssumption, RingIInv, NEW frames \in 1..Window, NEW most \in 1..Micro, Issue(frames, most)
    PROVE  RingIInv'
  <1>1. /\ call.op = "prefill" /\ out = <<>> /\ call.issued < call.count /\ InFlight < frames
    BY DEF Issue, InPrefill, MayIssue, Free
  <1>2. Sound
    BY <1>1, CallIsSound
  <1>3. InCall /\ SessionsOK /\ Layered(Pipe)
    BY <1>1, <1>2, FlowHere DEF Sound
  <1>4. /\ frontier \in [Blocks -> 0..MaxTokens] /\ MaxTokens \in Nat /\ slot \in SlotTable /\ chunk \in Nat
        /\ call.first \in Nat /\ call.issued \in Nat /\ call.count \in Nat /\ prefilled \in Nat
        /\ session \in 1..MaxSession
    BY DEF RingIInv, StateOK, RingAssumption
  <1>5. Frames \in Nat \ {0} /\ Window \in Nat /\ Window <= Frames /\ Micro \in Nat
    BY DEF RingAssumption
  <1>6. PICK lo, hi, k, n : /\ lo = call.first + prefilled /\ hi = call.first + call.issued /\ k = SlotOfChunk
                            /\ n = Min({most, call.count - call.issued})
    OBVIOUS
  <1>7. n \in Nat \ {0} /\ n <= call.count - call.issued
    <2>1. most \in Nat \ {0} /\ call.count - call.issued \in Nat \ {0}
      BY <1>1, <1>4, <1>5
    <2>2. n = (IF most <= call.count - call.issued THEN most ELSE call.count - call.issued)
      BY <2>1, <1>6, MinOfTwo
    <2> QED
      BY <2>1, <2>2
  <1>8. lo \in Nat /\ hi \in Nat /\ Flow(Pipe, Bounds(lo, frontier, hi)) /\ SlotsOrdered(slot, k, lo, hi)
        /\ SlotsCover(slot, Pipe) /\ KindsIn(Pipe, {"work", "result"}) /\ hi + n <= MaxTokens
    <2>1. lo \in Nat /\ hi \in Nat
      BY <1>4, <1>6
    <2>2. call.first + call.count <= MaxTokens
      BY <1>3 DEF InCall
    <2>3. hi + n <= MaxTokens
      BY <2>1, <2>2, <1>4, <1>6, <1>7
    <2>4. Flow(Pipe, Bounds(lo, frontier, hi)) /\ SlotsOrdered(slot, k, lo, hi)
          /\ SlotsCover(slot, Pipe) /\ KindsIn(Pipe, {"work", "result"})
      BY <1>3, <1>6 DEF InCall
    <2> QED
      BY <2>1, <2>3, <2>4
  <1>9. k \in 0..(Frames - 1) /\ (chunk + 1) % Frames = NextIndex(k)
    BY <1>4, <1>6, NextSlot DEF SlotOfChunk
  <1>10. ~slot[k].active
    <2>1. InFlight \in Nat
      BY <1>4, <1>9, ActiveSets DEF InFlight
    <2>2. InFlight < Frames
      BY <2>1, <1>1, <1>5
    <2>3. Cardinality({f \in DOMAIN slot : slot[f].active}) < Frames
      BY <2>2 DEF InFlight
    <2> QED
      BY <2>3, <1>4, <1>8, <1>9, NextSlotFree
  <1>11. PICK w, q : w = Frame("work", 1, hi, n) /\ q = BlockOwner[1]
    OBVIOUS
  <1>12. /\ slot' = [slot EXCEPT ![k] = [active |-> TRUE, first |-> hi, count |-> n]]
         /\ out' = <<q, w>> /\ call' = [call EXCEPT !.issued = call.issued + n]
         /\ chunk' = chunk + 1 /\ transport' \in {"pending", transport}
         /\ UNCHANGED <<prefilled, pos, session, mirror, ringDecode, frontier, link, wsession, wout, died, faults>>
    BY <1>6, <1>10, <1>11 DEF Issue, Sends, owners
  <1>13. /\ w.kind = "work" /\ w.block = 1 /\ w.first = hi /\ w.count = n /\ w.session = session
         /\ w \in RingFrames /\ Stage(w) = 1 /\ Way(w) = <<0, q>> /\ w.kind \notin SyncKinds
         /\ After(w) = hi + n
    <2>1. /\ w.kind = "work" /\ w.block = 1 /\ w.first = hi /\ w.count = n /\ w.session = session
      BY <1>11 DEF Frame
    <2>2. w.kind \in LayerKinds \cup EndKinds \cup SyncKinds /\ w.kind \in LayerKinds /\ w.kind \notin SyncKinds
      BY <2>1 DEF LayerKinds, SyncKinds
    <2>a. hi \in 0..MaxTokens /\ n \in 0..MaxTokens
      BY <1>4, <1>7, <1>8
    <2>3. w \in [kind : LayerKinds \cup EndKinds \cup SyncKinds, block : Blocks,
                 first : 0..MaxTokens, count : 0..MaxTokens, session : 1..MaxSession]
      BY <2>1, <2>2, <2>a, <1>4, <1>11, FirstRoute DEF Frame
    <2>4. After(w) = hi + n
      BY <2>1 DEF After
    <2>b. w.count > 0 /\ w.kind # "decode"
      BY <2>1, <1>7
    <2>5. w \in RingFrames
      BY <2>b, <2>2, <2>3, <2>4, <1>8 DEF RingFrames
    <2>6. Stage(w) = 1
      BY <2>1, <2>2 DEF Stage
    <2>7. Way(w) = <<0, q>>
      BY <2>1, <2>6, <1>11, FirstRoute DEF Way
    <2> QED
      BY <2>1, <2>2, <2>4, <2>5, <2>6, <2>7
  <1>14. q \in Workers /\ Route(1) = <<0, q>>
    BY <1>11, FirstRoute
  <1>15. /\ WiresOK' /\ <<0, q>> \in Links /\ Added(Pipe, Pipe', <<0, q>>, w)
         /\ Pipe \in Pipes /\ Pipe' \in Pipes
    BY <1>1, <1>12, <1>13, <1>14, HostSends DEF RingIInv
  <1>16. PICK v : v = <<0, q>>
    OBVIOUS
  <1>17. \A l \in Links : \A m \in OnLink(Pipe', l) : m \in OnLink(Pipe, l) \/ m = w
    BY <1>15, <1>16, AppendLayered
  <1>18. Flow(Pipe', Bounds(lo, frontier, hi + n))
    <2>1. PICK bd, c : bd = Bounds(lo, frontier, hi) /\ c = Bounds(lo, frontier, hi + n)
      OBVIOUS
    <2>2. hi + n \in Nat
      BY <1>7, <1>8
    <2>3. bd \in Points /\ bd[0] = hi
      BY <2>1, <1>4, <1>8, BoundsIs
    <2>4. c \in Points /\ Moved(bd, c, 0, hi + n)
      BY <2>1, <2>2, <1>4, <1>8, BoundsIs, BoundsMove
    <2>5. w.first = bd[0] /\ v = Route(1) /\ v \in Links /\ Added(Pipe, Pipe', v, w) /\ Moved(bd, c, 0, After(w))
          /\ Flow(Pipe, bd)
      BY <2>1, <2>3, <2>4, <1>8, <1>13, <1>14, <1>15, <1>16
    <2>6. Flow(Pipe', c)
      BY <2>3, <2>4, <2>5, <1>3, <1>13, <1>15, FlowIssue
    <2> QED
      BY <2>1, <2>6
  <1>19. /\ slot' \in SlotTable /\ slot'[k].active /\ slot'[k].first = hi /\ slot'[k].count = n
         /\ \A f \in 0..(Frames - 1) : f # k => slot'[f] = slot[f]
    <2>a. hi \in 0..MaxTokens /\ n \in 0..MaxTokens
      BY <1>4, <1>7, <1>8
    <2>b. [active |-> TRUE, first |-> hi, count |-> n] \in [active : BOOLEAN, first : 0..MaxTokens, count : 0..MaxTokens]
      BY <2>a
    <2> QED
      BY <2>b, <1>4, <1>9, <1>12 DEF SlotTable
  <1>20. /\ call' \in [op : RingOps, first : 0..MaxTokens, count : 0..MaxTokens, issued : Nat,
                 aborted : BOOLEAN, left : SUBSET Nat]
         /\ call'.op = "prefill" /\ call'.first = call.first /\ call'.count = call.count
         /\ call'.issued = call.issued + n
    <2>1. call.issued + n \in Nat
      BY <1>4, <1>7
    <2>2. call \in [op : RingOps, first : 0..MaxTokens, count : 0..MaxTokens, issued : Nat,
                 aborted : BOOLEAN, left : SUBSET Nat]
      BY DEF RingIInv, StateOK
    <2> QED
      BY <2>1, <2>2, <1>1, <1>12
  <1>21. StateOK'
    <2>1. InFlight' <= Window
      <3>1. InFlight' = InFlight + 1 /\ InFlight \in Nat
        BY <1>4, <1>9, <1>10, <1>19, ActiveSets DEF InFlight
      <3> QED
        BY <3>1, <1>1, <1>5
    <2>2. transport' \in {"ready", "pending", "poisoned"} /\ chunk' \in Nat
      BY <1>12 DEF RingIInv, StateOK
    <2> QED
      BY <2>1, <2>2, <1>12, <1>19, <1>20 DEF RingIInv, StateOK
  <1>22. Causes'
    BY <1>12 DEF RingIInv, Causes
  <1>23. InCall'
    <2>1. call'.first + prefilled' = lo /\ call'.first + call'.issued = hi + n
      BY <1>4, <1>6, <1>7, <1>12, <1>20
    <2>2. SlotsOrdered(slot', SlotOfChunk', lo, hi + n)
      <3>1. SlotOfChunk' = NextIndex(k)
        BY <1>9, <1>12 DEF SlotOfChunk
      <3>2. lo <= hi
        <4>1. /\ Bounds(lo, frontier, hi)[0] = hi /\ Bounds(lo, frontier, hi)[LastBlock + 1] = lo
              /\ LastBlock \in Nat
          BY <1>4, <1>8, BoundsIs
        <4> QED
          BY <4>1, <1>8 DEF Flow, Descends
      <3>3. SlotsOrdered(slot', NextIndex(k), lo, hi + n)
        BY <3>2, <1>4, <1>7, <1>8, <1>9, <1>10, <1>19, SlotsIssue
      <3> QED
        BY <3>1, <3>3
    <2>3. SlotsCover(slot', Pipe')
      <3> SUFFICES ASSUME NEW l \in Links, NEW m \in OnLink(Pipe', l)
                   PROVE  \E f \in 0..(Frames - 1) :
                            slot'[f].active /\ slot'[f].first = m.first /\ slot'[f].count = m.count
        BY DEF SlotsCover
      <3>1. CASE m = w
        BY <3>1, <1>9, <1>13, <1>19
      <3>2. CASE m \in OnLink(Pipe, l)
        <4>1. PICK f \in 0..(Frames - 1) : slot[f].active /\ slot[f].first = m.first /\ slot[f].count = m.count
          BY <3>2, <1>8 DEF SlotsCover
        <4>2. f # k
          BY <4>1, <1>10
        <4> QED
          BY <4>1, <4>2, <1>19
      <3> QED
        BY <3>1, <3>2, <1>17
    <2>4. KindsIn(Pipe', {"work", "result"})
      BY <1>8, <1>13, <1>17 DEF KindsIn
    <2>5. /\ call'.first = pos' /\ call'.first + call'.count <= MaxTokens /\ call'.count > 0
          /\ call'.issued <= call'.count /\ (ringDecode' \/ NotMirrored')
      <3>1. /\ call.first = pos /\ call.first + call.count <= MaxTokens /\ call.count > 0
            /\ (ringDecode \/ NotMirrored)
        BY <1>3 DEF InCall
      <3>2. call.issued + n <= call.count
        BY <1>4, <1>7
      <3>3. ringDecode' \/ NotMirrored'
        BY <3>1, <1>12 DEF NotMirrored
      <3> QED
        BY <3>1, <3>2, <3>3, <1>12, <1>20
    <2>6. frontier' = frontier
      BY <1>12
    <2> QED
      BY <2>1, <2>2, <2>3, <2>4, <2>5, <2>6, <1>18 DEF InCall
  <1>24. SessionsOK'
    BY <1>3, <1>12, <1>13, <1>17, <1>1, <1>20 DEF SessionsOK
  <1>25. Sound'
    BY <1>20, <1>23, <1>24 DEF Sound
  <1> QED
    BY <1>15, <1>21, <1>22, <1>25 DEF RingIInv

\* A chunk comes to rank 0's own block, or its result does; neither is ever refused.
LEMMA ChainFrameKeeps ==
    ASSUME RingAssumption, RingIInv, NEW p \in Workers, ChainFrame(p)
    PROVE  RingIInv'
  <1>0. PICK u, m : u = <<p, 0>> /\ m = Head(link[u])
    OBVIOUS
  <1>1. call.op = "prefill" /\ out = <<>> /\ link[u] # <<>> /\ Got(p) = m
    BY <1>0 DEF ChainFrame, Receiving, InPrefill, Free, Arrived, Got
  <1>2. Sound
    BY <1>1, CallIsSound
  <1>3. /\ u \in Links /\ m \in RingFrames /\ m \in OnLink(Pipe, u) /\ Way(m) = u /\ m = Pipe[u][1]
        /\ Pipe[u] # <<>> /\ m.session = session /\ Pipe \in Pipes
    BY <1>0, <1>1, <1>2, HostHead
  <1>4. /\ frontier \in [Blocks -> 0..MaxTokens] /\ MaxTokens \in Nat /\ slot \in SlotTable /\ chunk \in Nat
        /\ call.first \in Nat /\ call.issued \in Nat /\ call.count \in Nat /\ prefilled \in Nat
        /\ Frames \in Nat \ {0}
    BY DEF RingIInv, StateOK, RingAssumption
  <1>5. InCall /\ SessionsOK /\ Layered(Pipe)
    BY <1>1, <1>2, FlowHere DEF Sound
  <1>6. PICK lo, hi, k : lo = call.first + prefilled /\ hi = call.first + call.issued /\ k = SlotOfChunk
    OBVIOUS
  <1>7. /\ lo \in Nat /\ hi \in Nat /\ Flow(Pipe, Bounds(lo, frontier, hi)) /\ SlotsOrdered(slot, k, lo, hi)
        /\ SlotsCover(slot, Pipe) /\ KindsIn(Pipe, {"work", "result"}) /\ hi <= MaxTokens
    <2>1. lo \in Nat /\ hi \in Nat
      BY <1>4, <1>6
    <2>2. call.first + call.count <= MaxTokens /\ call.issued <= call.count
      BY <1>5 DEF InCall
    <2>3. hi <= MaxTokens
      BY <2>1, <2>2, <1>4, <1>6
    <2>4. Flow(Pipe, Bounds(lo, frontier, hi)) /\ SlotsOrdered(slot, k, lo, hi)
          /\ SlotsCover(slot, Pipe) /\ KindsIn(Pipe, {"work", "result"})
      BY <1>5, <1>6 DEF InCall
    <2> QED
      BY <2>1, <2>3, <2>4
  <1>8. k \in 0..(Frames - 1)
    BY <1>4, <1>6, NextSlot DEF SlotOfChunk
  <1>9. m.kind \in {"work", "result"}
    BY <1>3, <1>7 DEF KindsIn
  <1>10. Matching(m) # {} /\ \A f \in Matching(m) :
            f \in 0..(Frames - 1) /\ slot[f].active /\ slot[f].first = m.first /\ slot[f].count = m.count
    <2>1. DOMAIN slot = 0..(Frames - 1)
      BY <1>4 DEF SlotTable
    <2>2. PICK f \in 0..(Frames - 1) : slot[f].active /\ slot[f].first = m.first /\ slot[f].count = m.count
      BY <1>3, <1>7 DEF SlotsCover
    <2> QED
      BY <2>1, <2>2 DEF Matching
  <1>11. link \in Pipes /\ WiresOK /\ \A l \in Links : Len(link[l]) <= LinkCap
    BY PipeFacts DEF RingIInv, StateOK
  <1>12. /\ call.first = pos /\ call.first + call.count <= MaxTokens /\ call.count > 0
         /\ call.issued <= call.count /\ (ringDecode \/ NotMirrored)
    BY <1>5 DEF InCall
  <1>13. CASE m.kind = "work"
    <2>1. PICK n, q : n = [m EXCEPT !.block = m.block + 1] /\ q = BlockOwner[m.block + 1]
      OBVIOUS
    <2>2. m.kind \in LayerKinds
      BY <1>13 DEF LayerKinds
    <2>3. /\ frontier' = [frontier EXCEPT ![m.block] = m.first + m.count] /\ out' = <<q, n>>
          /\ link' = [link EXCEPT ![u] = Tail(link[u])]
          /\ UNCHANGED <<call, slot, chunk, prefilled, pos, session, transport, mirror, wsession, wout, died,
                         faults, ringDecode>>
      BY <2>1, <1>0, <1>1, <1>3, <1>10, <1>13 DEF ChainFrame, Sends, Take
    <2>4. /\ q \in Workers /\ n \in RingFrames /\ Way(n) = <<0, q>> /\ Route(m.block + 1) = <<0, q>>
          /\ Stage(n) = m.block + 1 /\ n.kind \notin SyncKinds /\ n.kind = m.kind
          /\ n.first = m.first /\ n.count = m.count /\ n.session = m.session
      BY <2>1, <2>2, <1>0, <1>3, HostBlock
    <2>5. /\ WiresOK' /\ <<0, q>> \in Links /\ Pipe \in Pipes /\ Pipe' \in Pipes
          /\ \E R \in Pipes : Taken(Pipe, R, u) /\ Added(R, Pipe', <<0, q>>, n)
      BY <2>3, <2>4, <1>1, <1>3, <1>11, HostForwards
    <2>6. PICK R \in Pipes : Taken(Pipe, R, u) /\ Added(R, Pipe', <<0, q>>, n)
      BY <2>5
    <2>7. PICK v : v = <<0, q>>
      OBVIOUS
    <2>8. v \in Links /\ v = Route(m.block + 1) /\ Added(R, Pipe', v, n)
      BY <2>4, <2>5, <2>6, <2>7
    <2>10. frontier' \in [Blocks -> 0..MaxTokens] /\ Flow(Pipe', Bounds(lo, frontier', hi))
      <3>2. /\ [frontier EXCEPT ![m.block] = m.first + m.count] \in [Blocks -> 0..MaxTokens]
            /\ Flow(Pipe', Bounds(lo, [frontier EXCEPT ![m.block] = m.first + m.count], hi))
        BY <2>2, <2>4, <2>5, <2>6, <2>8, <1>3, <1>4, <1>5, <1>7, ForwardFlow
      <3> QED
        BY <2>3, <3>2
    <2>11. \A l \in Links : \A j \in OnLink(Pipe', l) : j \in OnLink(Pipe, l) \/ j = n
      BY <2>6, <2>8, <1>3, Forwarded
    <2>12. StateOK'
      <3>1. \A l \in Links : Len(link'[l]) <= LinkCap
        BY <2>3, <1>1, <1>3, <1>11, CapTail
      <3> QED
        BY <3>1, <2>3, <2>10 DEF RingIInv, StateOK, InFlight
    <2>13. Causes'
      BY <2>3 DEF RingIInv, Causes
    <2>14. KindsIn(Pipe', {"work", "result"})
      BY <2>4, <2>11, <1>7, <1>13 DEF KindsIn
    <2>a. SlotsCover(slot', Pipe')
      <3> SUFFICES ASSUME NEW l \in Links, NEW j \in OnLink(Pipe', l)
                   PROVE  \E f \in 0..(Frames - 1) :
                            slot[f].active /\ slot[f].first = j.first /\ slot[f].count = j.count
        BY <2>3 DEF SlotsCover
      <3>1. CASE j = n
        BY <3>1, <2>4, <1>3, <1>7 DEF SlotsCover
      <3>2. CASE j \in OnLink(Pipe, l)
        BY <3>2, <1>7 DEF SlotsCover
      <3> QED
        BY <3>1, <3>2, <2>11
    <2>15. InCall'
      <3>1. call'.first + prefilled' = lo /\ call'.first + call'.issued = hi /\ SlotOfChunk' = k
        BY <2>3, <1>6 DEF SlotOfChunk
      <3>2. SlotsOrdered(slot', SlotOfChunk', lo, hi)
        BY <3>1, <2>3, <1>7
      <3>3. ringDecode' \/ NotMirrored'
        BY <2>3, <1>12 DEF NotMirrored
      <3> QED
        BY <3>1, <3>2, <3>3, <2>3, <2>10, <2>14, <2>a, <1>12 DEF InCall
    <2>16. SessionsOK'
      BY <2>3, <2>4, <2>11, <1>3, <1>5 DEF SessionsOK
    <2>17. Sound'
      BY <2>3, <2>15, <2>16, <1>1 DEF Sound
    <2> QED
      BY <2>5, <2>12, <2>13, <2>17 DEF RingIInv
  <1>14. CASE m.kind = "result"
    <2>3. m.kind \in EndKinds
      BY <1>14 DEF EndKinds
    <2>4. Stage(m) = LastBlock + 1 /\ Route(LastBlock + 1) = u /\ p = BlockOwner[Len(BlockOwner)]
      BY <2>3, <1>0, <1>3, EndFrame
    <2>5. PICK bd, x : bd = Bounds(lo, frontier, hi) /\ x = lo + m.count
      OBVIOUS
    <2>6. /\ bd \in Points /\ bd[LastBlock + 1] = lo /\ Flow(Pipe, bd)
          /\ LastBlock \in Nat \ {0} /\ Blocks = 1..LastBlock
      BY <2>5, <1>4, <1>7, BoundsIs
    <2>7. m.first = lo /\ m.count \in Nat \ {0} /\ x \in Nat /\ After(m) = x
      <3>1. Covers(Pipe, bd, Reach(bd))
        BY <2>6 DEF Flow
      <3>2. m.first = bd[LastBlock + 1]
        BY <3>1, <2>4, <1>3, HeadIsNext
      <3>3. m.count \in Nat \ {0}
        <4>1. m.kind \notin SyncKinds
          BY <1>14 DEF SyncKinds
        <4> QED
          BY <4>1, <1>3, <1>4, StageIs
      <3> QED
        BY <3>2, <3>3, <2>5, <2>6, <1>7 DEF After
    <2>8. InOrder(m)
      BY <2>7, <1>6 DEF InOrder
    <2>9. /\ \E f \in Matching(m) : slot' = [slot EXCEPT ![f].active = FALSE]
          /\ prefilled' = prefilled + m.count
          /\ link' = [link EXCEPT ![u] = Tail(link[u])]
          /\ UNCHANGED <<call, chunk, pos, session, transport, out, mirror,
                         frontier, wsession, wout, died, faults, ringDecode>>
      BY <2>4, <2>8, <1>0, <1>1, <1>3, <1>10, <1>14 DEF ChainFrame, Take
    <2>10. PICK f \in Matching(m) : slot' = [slot EXCEPT ![f].active = FALSE]
      BY <2>9
    <2>11. /\ f \in 0..(Frames - 1) /\ slot[f].active /\ slot[f].first = lo /\ slot[f].count = m.count
      BY <2>7, <1>10
    <2>12. /\ slot' \in SlotTable /\ ~slot'[f].active
           /\ \A g \in 0..(Frames - 1) : g # f => slot'[g] = slot[g]
      BY <2>10, <2>11, <1>4 DEF SlotTable
    <2>13. SlotsOrdered(slot', k, x, hi)
      BY <2>5, <2>11, <2>12, <1>4, <1>7, <1>8, SlotsFinish
    <2>14. WiresOK' /\ Taken(Pipe, Pipe', u) /\ Pipe' \in Pipes
      BY <2>9, <1>1, <1>3, <1>11, HostTakes
    <2>15. PICK c : c = Bounds(x, frontier, hi)
      OBVIOUS
    <2>16. /\ c \in Points /\ c[0] = hi /\ c[LastBlock + 1] = x
      BY <2>7, <2>15, <1>4, <1>7, BoundsIs
    <2>17. /\ Moved(bd, c, LastBlock + 1, After(Pipe[u][1]))
      <3>1. Moved(bd, c, LastBlock + 1, x)
        BY <2>5, <2>7, <2>15, <1>4, <1>7, BoundsMove
      <3> QED
        BY <3>1, <2>7, <1>3
    <2>18. Stage(Pipe[u][1]) = LastBlock + 1 /\ u = Route(LastBlock + 1)
      BY <2>4, <1>3
    <2>19. Flow(Pipe', c)
      BY <2>6, <2>14, <2>16, <2>17, <2>18, <1>3, <1>5, FlowFinish
    <2>20. \A l \in Links : \A j \in OnLink(Pipe', l) : j \in OnLink(Pipe, l)
      BY <2>14, <1>3, TailLayered
    <2>21. Layered(Pipe')
      BY <2>20, <1>5 DEF Layered, Routed, KindsIn
    <2>22. x <= hi
      BY <2>6, <2>16, <2>19 DEF Flow, Descends
    <2>23. prefilled' \in 0..MaxTokens /\ call'.first + prefilled' = x
      <3>1. call'.first + prefilled' = x
        BY <2>5, <2>7, <2>9, <1>4, <1>6
      <3>2. prefilled' \in Nat
        BY <2>7, <2>9, <1>4
      <3>3. prefilled' <= MaxTokens
        BY <3>1, <3>2, <2>9, <2>22, <1>4, <1>7
      <3> QED
        BY <3>1, <3>2, <3>3, <1>4
    <2>24. \A l \in Links : \A j \in OnLink(Pipe', l) : j.first # lo
      <3> SUFFICES ASSUME NEW l \in Links, NEW i \in 1..Len(Pipe'[l]) PROVE Pipe'[l][i].first # lo
        BY DEF OnLink
      <3>1. Stage(Pipe'[l][i]) \in 0..(LastBlock + 1) /\ Pipe'[l][i].first \in Nat
        BY <2>14, <2>21, Located
      <3>2. c[Stage(Pipe'[l][i])] <= Pipe'[l][i].first
        BY <2>19 DEF Flow, Covers
      <3>3. c[LastBlock + 1] <= c[Stage(Pipe'[l][i])]
        <4>1. Stage(Pipe'[l][i]) <= LastBlock + 1 /\ LastBlock + 1 \in 0..(LastBlock + 1)
          BY <3>1, <2>6
        <4> QED
          BY <4>1, <3>1, <2>19 DEF Flow, Descends
      <3>4. c[Stage(Pipe'[l][i])] \in Nat
        BY <3>1, <2>16 DEF Points
      <3> QED
        <4>1. PICK y, z : y = c[Stage(Pipe'[l][i])] /\ z = Pipe'[l][i].first
          OBVIOUS
        <4>2. y \in Nat /\ z \in Nat /\ y <= z /\ x <= y
          BY <4>1, <3>1, <3>2, <3>3, <3>4, <2>16, Zenon
        <4>3. x = lo + m.count /\ m.count \in Nat \ {0} /\ lo \in Nat
          BY <2>5, <2>7, <1>7
        <4>4. z # lo
          BY <4>2, <4>3
        <4> QED
          BY <4>1, <4>4, Zenon
    <2>25. SlotsCover(slot', Pipe')
      <3> SUFFICES ASSUME NEW l \in Links, NEW j \in OnLink(Pipe', l)
                   PROVE  \E g \in 0..(Frames - 1) :
                            slot'[g].active /\ slot'[g].first = j.first /\ slot'[g].count = j.count
        BY DEF SlotsCover
      <3>1. PICK g \in 0..(Frames - 1) : slot[g].active /\ slot[g].first = j.first /\ slot[g].count = j.count
        BY <2>20, <1>7 DEF SlotsCover
      <3>2. g # f
        BY <3>1, <2>11, <2>24
      <3> QED
        BY <3>1, <3>2, <2>12
    <2>26. InCall'
      <3>1. call'.first + call'.issued = hi /\ SlotOfChunk' = k
        BY <2>9, <1>6 DEF SlotOfChunk
      <3>2. SlotsOrdered(slot', SlotOfChunk', call'.first + prefilled', call'.first + call'.issued)
        BY <3>1, <2>13, <2>23
      <3>3. Flow(Pipe', Bounds(call'.first + prefilled', frontier', call'.first + call'.issued))
        BY <3>1, <2>9, <2>15, <2>19, <2>23
      <3>4. ringDecode' \/ NotMirrored'
        BY <2>9, <1>12 DEF NotMirrored
      <3>5. KindsIn(Pipe', {"work", "result"})
        BY <2>20, <1>7 DEF KindsIn
      <3> QED
        BY <3>2, <3>3, <3>4, <3>5, <2>9, <2>25, <1>12 DEF InCall
    <2>27. StateOK'
      <3>1. \A l \in Links : Len(link'[l]) <= LinkCap
        BY <2>9, <1>1, <1>3, <1>11, CapTail
      <3>2. InFlight' <= InFlight /\ InFlight \in Nat
        BY <2>11, <2>12, <1>4, ActiveSets DEF InFlight
      <3>3. InFlight' <= Window
        <4>1. InFlight <= Window /\ Window \in Nat
          BY DEF RingIInv, StateOK, RingAssumption
        <4>2. InFlight' \in Nat
          BY <2>11, <2>12, <1>4, ActiveSets DEF InFlight
        <4> QED
          BY <4>1, <4>2, <3>2
      <3> QED
        BY <3>1, <3>3, <2>9, <2>12, <2>23 DEF RingIInv, StateOK
    <2>28. Causes'
      BY <2>9 DEF RingIInv, Causes
    <2>29. SessionsOK'
      BY <2>9, <2>20, <1>5 DEF SessionsOK
    <2>30. Sound'
      BY <2>9, <2>26, <2>29, <1>1 DEF Sound
    <2> QED
      BY <2>14, <2>27, <2>28, <2>30 DEF RingIInv
  <1> QED
    BY <1>9, <1>13, <1>14

\* An owner runs its block and sends the frame on.
LEMMA LayerWorkKeeps ==
    ASSUME RingAssumption, RingIInv, NEW r \in Workers, NEW p \in RingRanks \ {r}, LayerWork(r, p)
    PROVE  RingIInv'
  <1>0. PICK u, m : u = <<p, r>> /\ m = Head(link[u])
    OBVIOUS
  <1>1. /\ wout[r] = <<>> /\ link[u] # <<>> /\ m.kind \in {"work", "decode"}
        /\ frontier' = [frontier EXCEPT ![m.block] = m.first + m.count]
        /\ wout' = [wout EXCEPT ![r] = Next2(m)]
        /\ link' = [link EXCEPT ![u] = Tail(link[u])]
        /\ UNCHANGED <<call, slot, chunk, prefilled, pos, session, transport, out, mirror, ringDecode,
                       wsession, died, faults>>
    BY <1>0 DEF LayerWork, Polling, rank0
  <1>2. /\ WireTyped(link, out, wout) /\ Pipe = PipeOf(link, SendsOf(out, wout)) /\ link \in Pipes
        /\ Routed(Pipe) /\ Pipe \in Pipes /\ WiresOK
    BY PipeFacts DEF RingIInv
  <1>3. u \in Links /\ m \in RingFrames /\ m \in OnLink(Pipe, u) /\ m = Pipe[u][1] /\ Way(m) = u
    <2>1. u \in Links
      BY <1>0 DEF Links, Workers
    <2>2. SendsOf(out, wout) \in SendTable
      BY <1>2, WireFacts
    <2>3. m \in RingFrames /\ m \in OnLink(Pipe, u) /\ m = Pipe[u][1]
      BY <2>1, <2>2, <1>0, <1>1, <1>2, PipeHead
    <2> QED
      BY <2>1, <2>3, <1>2 DEF Routed
  <1>4. m.kind \in LayerKinds
    BY <1>1 DEF LayerKinds
  <1>5. /\ m.block \in Blocks /\ LastBlock \in Nat \ {0} /\ Blocks = 1..LastBlock
        /\ m.block < LastBlock => /\ Route(m.block + 1) = <<r, BlockOwner[m.block + 1]>>
                                  /\ BlockOwner[m.block + 1] \in RingRanks /\ BlockOwner[m.block + 1] # r
        /\ m.block = LastBlock => r # 0 /\ Route(m.block + 1) = <<r, 0>>
    BY <1>0, <1>3, <1>4, LayerFrame
  <1>6. PICK q, n : /\ Next2(m) = <<q, n>> /\ q \in RingRanks /\ q # r /\ Route(m.block + 1) = <<r, q>>
                    /\ Onward(m, n)
    <2>1. CASE m.block < LastBlock
      <3>1. Next2(m) = <<BlockOwner[m.block + 1], [m EXCEPT !.block = m.block + 1]>>
        BY <2>1 DEF Next2, LastBlock
      <3>2. Onward(m, [m EXCEPT !.block = m.block + 1])
        BY <2>1 DEF Onward
      <3> QED
        BY <3>1, <3>2, <2>1, <1>5
    <2>2. CASE ~(m.block < LastBlock)
      <3>1. Next2(m) = <<0, [m EXCEPT !.kind = IF m.kind = "work" THEN "result" ELSE "token"]>>
        BY <2>2 DEF Next2, LastBlock
      <3>2. m.block = LastBlock /\ 0 \in RingRanks
        BY <2>2, <1>5 DEF RingRanks
      <3>3. Onward(m, [m EXCEPT !.kind = IF m.kind = "work" THEN "result" ELSE "token"])
        BY <2>2 DEF Onward
      <3> QED
        BY <3>1, <3>2, <3>3, <2>2, <1>5
    <2> QED
      BY <2>1, <2>2
  <1>7. /\ n \in RingFrames /\ Way(n) = Route(m.block + 1) /\ Stage(n) = m.block + 1
        /\ n.first = m.first /\ n.count = m.count /\ n.session = m.session /\ n.kind \notin SyncKinds
        /\ n.kind \in (IF m.kind = "work" THEN {"work", "result"} ELSE {"decode", "token"})
    <2>1. m \in RingFrames /\ Way(m) = <<p, r>>
      BY <1>0, <1>3
    <2> QED
      BY <2>1, <1>4, <1>6, NextFrame
  <1>8. wout' = [wout EXCEPT ![r] = <<q, n>>] /\ Way(n) = <<r, q>>
    BY <1>1, <1>6, <1>7
  <1>9. /\ WiresOK' /\ <<r, q>> \in Links /\ Pipe \in Pipes /\ Pipe' \in Pipes
        /\ \E R \in Pipes : Taken(Pipe, R, u) /\ Added(R, Pipe', <<r, q>>, n)
    <2>1. link[u] # <<>> /\ wout[r] = <<>> /\ link' = [link EXCEPT ![u] = Tail(link[u])] /\ out' = out
      BY <1>1
    <2>2. q \in RingRanks /\ q # r
      BY <1>6
    <2>3. n \in RingFrames
      BY <1>7
    <2> QED
      BY <2>1, <2>2, <2>3, <1>2, <1>3, <1>8, WorkerForwards
  <1>10. PICK R \in Pipes : Taken(Pipe, R, u) /\ Added(R, Pipe', <<r, q>>, n)
    BY <1>9
  <1>11. PICK v : v = <<r, q>>
    OBVIOUS
  <1>12. v \in Links /\ v = Route(m.block + 1) /\ Added(R, Pipe', v, n)
    BY <1>6, <1>9, <1>10, <1>11
  <1>13. frontier \in [Blocks -> 0..MaxTokens] /\ MaxTokens \in Nat
    BY DEF RingIInv, StateOK, RingAssumption
  <1>14. frontier' \in [Blocks -> 0..MaxTokens]
    <2>1. m.kind \notin SyncKinds
      BY <1>1 DEF SyncKinds
    <2>2. m.first \in 0..MaxTokens /\ m.count \in 0..MaxTokens /\ m.first + m.count <= MaxTokens
      BY <2>1, <1>3 DEF RingFrames, After
    <2>3. m.first + m.count \in 0..MaxTokens
      BY <2>2, <1>13
    <2> QED
      BY <2>3, <1>1, <1>13
  <1>15. StateOK'
    <2>1. \A l \in Links : Len(link[l]) <= LinkCap
      BY DEF RingIInv, StateOK
    <2>2. \A l \in Links : Len(link'[l]) <= LinkCap
      BY <2>1, <1>1, <1>2, <1>3, CapTail
    <2> QED
      BY <2>2, <1>1, <1>14 DEF RingIInv, StateOK, InFlight
  <1>16. Causes'
    BY <1>1 DEF RingIInv, Causes
  <1>17. Doomed => Doomed'
    BY <1>1 DEF Doomed
  <1>18. ASSUME Sound PROVE Sound'
    <2>1. m.session = session /\ call.op \in {"prefill", "dead", "decode"}
      <3>1. link[<<p, r>>] # <<>> /\ m = Head(link[<<p, r>>]) /\ m.kind # "fetch"
        BY <1>0, <1>1
      <3> QED
        BY <3>1, <1>18, WorkerHead
    <2>2. Layered(Pipe)
      BY <2>1, <1>18, FlowHere
    <2>3. ASSUME NEW lo \in Nat, NEW hi \in Nat, Flow(Pipe, Bounds(lo, frontier, hi))
          PROVE  Flow(Pipe', Bounds(lo, frontier', hi))
      <3>1. Flow(Pipe', Bounds(lo, [frontier EXCEPT ![m.block] = m.first + m.count], hi))
        BY <2>2, <2>3, <1>3, <1>4, <1>7, <1>9, <1>10, <1>12, <1>13, ForwardFlow
      <3> QED
        BY <3>1, <1>1
    <2>4. \A l \in Links : \A j \in OnLink(Pipe', l) : j \in OnLink(Pipe, l) \/ j = n
      <3>1. Taken(Pipe, R, u) /\ Added(R, Pipe', v, n) /\ Pipe \in Pipes /\ u \in Links /\ v \in Links
        BY <1>2, <1>3, <1>10, <1>12
      <3> QED
        BY <3>1, Forwarded
    <2>5. SessionsOK'
      <3>1. SessionsOK
        BY <1>18 DEF Sound
      <3> QED
        BY <3>1, <2>1, <2>4, <1>1, <1>7 DEF SessionsOK
    <2>6. ASSUME NEW ks, ks \in {{"work", "result"}, {"decode", "token"}}, KindsIn(Pipe, ks)
          PROVE  KindsIn(Pipe', ks)
      <3>1. m.kind \in ks
        BY <2>6, <1>3 DEF KindsIn
      <3>2. n.kind \in ks
        <4>1. CASE ks = {"work", "result"}
          BY <4>1, <3>1, <1>1, <1>7
        <4>2. CASE ks = {"decode", "token"}
          BY <4>2, <3>1, <1>1, <1>7
        <4> QED
          BY <4>1, <4>2, <2>6
      <3> QED
        BY <3>2, <2>4, <2>6 DEF KindsIn
    <2>7. CASE call.op = "prefill"
      <3>1. InCall
        BY <2>7, <1>18 DEF Sound
      <3>2. PICK lo, hi : lo = call.first + prefilled /\ hi = call.first + call.issued
        OBVIOUS
      <3>3. lo \in Nat /\ hi \in Nat /\ Flow(Pipe, Bounds(lo, frontier, hi))
        BY <3>1, <3>2 DEF InCall, RingIInv, StateOK
      <3>4. Flow(Pipe', Bounds(lo, frontier', hi))
        BY <3>3, <2>3
      <3>5. KindsIn(Pipe', {"work", "result"})
        BY <3>1, <2>6 DEF InCall
      <3>6. SlotsCover(slot', Pipe')
        <4>1. SlotsCover(slot, Pipe)
          BY <3>1 DEF InCall
        <4> SUFFICES ASSUME NEW l \in Links, NEW j \in OnLink(Pipe', l)
                     PROVE  \E f \in 0..(Frames - 1) :
                              slot[f].active /\ slot[f].first = j.first /\ slot[f].count = j.count
          BY <1>1 DEF SlotsCover
        <4>2. CASE j = n
          BY <4>1, <4>2, <1>3, <1>7 DEF SlotsCover
        <4>3. CASE j \in OnLink(Pipe, l)
          BY <4>1, <4>3 DEF SlotsCover
        <4> QED
          BY <4>2, <4>3, <2>4
      <3>7. call'.first + prefilled' = lo /\ call'.first + call'.issued = hi /\ SlotOfChunk' = SlotOfChunk
        BY <3>2, <1>1 DEF SlotOfChunk
      <3>8. SlotsOrdered(slot', SlotOfChunk', lo, hi)
        BY <3>1, <3>2, <3>7, <1>1 DEF InCall
      <3>9. ringDecode' \/ NotMirrored'
        BY <3>1, <1>1 DEF InCall, NotMirrored
      <3>10. /\ call.first = pos /\ call.first + call.count <= MaxTokens /\ call.count > 0
             /\ call.issued <= call.count
        BY <3>1 DEF InCall
      <3>11. InCall'
        BY <3>4, <3>5, <3>6, <3>7, <3>8, <3>9, <3>10, <1>1 DEF InCall
      <3> QED
        BY <3>11, <2>5, <2>7, <1>1 DEF Sound
    <2>8. CASE call.op = "dead"
      <3>1. InDead
        BY <2>8, <1>18 DEF Sound
      <3>2. PICK lo, hi \in 0..MaxTokens : Flow(Pipe, Bounds(lo, frontier, hi))
        BY <3>1 DEF InDead
      <3>3. lo \in Nat /\ hi \in Nat
        BY <1>13
      <3>4. Flow(Pipe', Bounds(lo, frontier', hi))
        BY <3>2, <3>3, <2>3
      <3>5. KindsIn(Pipe', {"work", "result"})
        BY <3>1, <2>6 DEF InDead
      <3>6. InDead'
        BY <3>4, <3>5 DEF InDead
      <3> QED
        BY <3>6, <2>5, <2>8, <1>1 DEF Sound
    <2>9. CASE call.op = "decode"
      <3>1. InDecode
        BY <2>9, <1>18 DEF Sound
      <3>3. pos \in Nat /\ pos + 1 \in Nat
        BY DEF RingIInv, StateOK
      <3>4. Flow(Pipe', Bounds(pos, frontier', pos + 1))
        BY <3>1, <3>3, <2>3 DEF InDecode
      <3>5. KindsIn(Pipe', {"decode", "token"})
        BY <3>1, <2>6 DEF InDecode
      <3>6. InDecode'
        BY <3>1, <3>4, <3>5, <1>1 DEF InDecode
      <3> QED
        BY <3>6, <2>5, <2>9, <1>1 DEF Sound
    <2> QED
      BY <2>1, <2>7, <2>8, <2>9
  <1> QED
    BY <1>9, <1>15, <1>16, <1>17, <1>18 DEF RingIInv

\* Taking the frame of a block leaves no other frame of it.
LEMMA OneEachTake ==
    ASSUME NEW P \in Pipes, NEW Q \in Pipes, NEW u \in Links, Taken(P, Q, u), OneEach(P)
    PROVE  OneEach(Q) /\ \A l \in Links : \A m \in OnLink(Q, l) : m.block # P[u][1].block
  <1>1. ASSUME NEW l \in Links, NEW i \in 1..Len(Q[l])
        PROVE  \E a \in 1..Len(P[l]) : Q[l][i] = P[l][a] /\ (IF l = u THEN a = i + 1 ELSE a = i)
    <2>0. P[l] \in Seq(RingFrames) /\ Q[l] \in Seq(RingFrames)
      BY DEF Pipes
    <2>1. CASE l = u
      <3>1. Q[l] = Tail(P[l]) /\ P[l] # <<>>
        BY <2>1 DEF Taken
      <3>2. Len(Q[l]) = Len(P[l]) - 1 /\ Q[l][i] = P[l][i + 1] /\ i + 1 \in 1..Len(P[l])
        BY <3>1, <2>0
      <3> QED
        BY <3>2, <2>1
    <2>2. CASE l # u
      BY <2>2 DEF Taken
    <2> QED
      BY <2>1, <2>2
  <1>2. 1 \in 1..Len(P[u])
    <2>1. P[u] \in Seq(RingFrames) /\ P[u] # <<>>
      BY DEF Pipes, Taken
    <2> QED
      BY <2>1
  <1>3. OneEach(Q)
    <2> SUFFICES ASSUME NEW l \in Links, NEW k \in Links, NEW i \in 1..Len(Q[l]), NEW j \in 1..Len(Q[k]),
                        Q[l][i].block = Q[k][j].block
                 PROVE  l = k /\ i = j
      BY DEF OneEach
    <2>1. PICK a \in 1..Len(P[l]) : Q[l][i] = P[l][a] /\ (IF l = u THEN a = i + 1 ELSE a = i)
      BY <1>1
    <2>2. PICK b \in 1..Len(P[k]) : Q[k][j] = P[k][b] /\ (IF k = u THEN b = j + 1 ELSE b = j)
      BY <1>1
    <2>3. l = k /\ a = b
      BY <2>1, <2>2, SMTT(30) DEF OneEach
    <2> QED
      BY <2>1, <2>2, <2>3
  <1>4. ASSUME NEW l \in Links, NEW i \in 1..Len(Q[l]) PROVE Q[l][i].block # P[u][1].block
    <2>1. PICK a \in 1..Len(P[l]) : Q[l][i] = P[l][a] /\ (IF l = u THEN a = i + 1 ELSE a = i)
      BY <1>1
    <2>2. CASE l = u
      <3>1. a # 1
        BY <2>1, <2>2
      <3> QED
        BY <3>1, <2>1, <1>2 DEF OneEach
    <2>3. CASE l # u
      BY <2>1, <2>3, <1>2 DEF OneEach
    <2> QED
      BY <2>2, <2>3
  <1> QED
    BY <1>3, <1>4 DEF OnLink

\* Adding the first frame of a block.
LEMMA OneEachAdd ==
    ASSUME NEW P \in Pipes, NEW Q \in Pipes, NEW v \in Links, NEW n \in RingFrames, Added(P, Q, v, n), OneEach(P),
           \A l \in Links : \A m \in OnLink(P, l) : m.block # n.block
    PROVE  OneEach(Q)
  <1>1. ASSUME NEW l \in Links, NEW i \in 1..Len(Q[l])
        PROVE  \/ i \in 1..Len(P[l]) /\ Q[l][i] = P[l][i] /\ P[l][i].block # n.block
               \/ l = v /\ i = Len(P[v]) + 1 /\ Q[l][i] = n
    <2>0. P[l] \in Seq(RingFrames) /\ Q[l] \in Seq(RingFrames)
      BY DEF Pipes
    <2>1. CASE l = v
      <3>1. Q[l] = Append(P[l], n)
        BY <2>1 DEF Added
      <3>2. Len(Q[l]) = Len(P[l]) + 1 /\ (i <= Len(P[l]) => Q[l][i] = P[l][i]) /\ (i = Len(P[l]) + 1 => Q[l][i] = n)
            /\ Len(P[l]) \in Nat
        BY <3>1, <2>0
      <3>3. i \in 1..Len(P[l]) \/ i = Len(P[l]) + 1
        BY <3>2
      <3>4. i \in 1..Len(P[l]) => P[l][i].block # n.block
        BY DEF OnLink
      <3> QED
        BY <3>2, <3>3, <3>4, <2>1
    <2>2. CASE l # v
      <3>1. Q[l] = P[l]
        BY <2>2 DEF Added
      <3> QED
        BY <3>1 DEF OnLink
    <2> QED
      BY <2>1, <2>2
  <1> SUFFICES ASSUME NEW l \in Links, NEW k \in Links, NEW i \in 1..Len(Q[l]), NEW j \in 1..Len(Q[k]),
                      Q[l][i].block = Q[k][j].block
               PROVE  l = k /\ i = j
    BY DEF OneEach
  <1>2. \/ i \in 1..Len(P[l]) /\ Q[l][i] = P[l][i] /\ P[l][i].block # n.block
        \/ l = v /\ i = Len(P[v]) + 1 /\ Q[l][i] = n
    BY <1>1
  <1>3. \/ j \in 1..Len(P[k]) /\ Q[k][j] = P[k][j] /\ P[k][j].block # n.block
        \/ k = v /\ j = Len(P[v]) + 1 /\ Q[k][j] = n
    BY <1>1
  <1>4. CASE i \in 1..Len(P[l]) /\ Q[l][i] = P[l][i] /\ P[l][i].block # n.block
    <2>1. j \in 1..Len(P[k]) /\ Q[k][j] = P[k][j]
      BY <1>3, <1>4
    <2>2. P[l][i].block = P[k][j].block
      BY <2>1, <1>4
    <2> QED
      BY <2>1, <2>2, <1>4 DEF OneEach
  <1>5. CASE l = v /\ i = Len(P[v]) + 1 /\ Q[l][i] = n
    <2>1. Q[k][j].block = n.block
      BY <1>5
    <2> QED
      BY <2>1, <1>3, <1>5
  <1> QED
    BY <1>2, <1>4, <1>5

\* The least number of a set is one of it.
LEMMA MinIsIn ==
    ASSUME NEW T, T \subseteq Nat, T # {}
    PROVE  Min(T) \in T
  <1>1. \E d \in T : \A e \in T : ~(<<e, d>> \in OpToRel(<, Nat))
    BY NatLessThanWellFounded, WFMin
  <1>2. PICK d \in T : \A e \in T : ~(e < d)
    BY <1>1 DEF OpToRel
  <1>3. \A e \in T : d <= e
    BY <1>2
  <1> QED
    BY <1>3 DEF Min

\* The blocks whose states rank 0 waits for are finitely many.
LEMMA AwaitedFinite ==
    ASSUME RingAssumption
    PROVE  IsFiniteSet(Awaited) /\ Awaited \subseteq Remote /\ Remote \subseteq Blocks
  <1>1. Blocks = 1..LastBlock /\ LastBlock \in Int /\ 1 \in Int
    BY DEF RingAssumption, Blocks, LastBlock
  <1>2. IsFiniteSet(Blocks)
    BY <1>1, FS_Interval
  <1>3. Awaited \subseteq Remote /\ Remote \subseteq Blocks
    BY DEF Awaited, Remote
  <1>4. IsFiniteSet(Awaited)
    BY <1>2, <1>3, FS_Subset
  <1> QED
    BY <1>3, <1>4

\* Rank 0 asks for the state of one more block.
LEMMA SyncSendKeeps ==
    ASSUME RingAssumption, RingIInv, SyncSend
    PROVE  RingIInv'
  <1>0. PICK b : b = Min(call.left \cap Remote)
    OBVIOUS
  <1>1. /\ call.op = "sync" /\ out = <<>> /\ call.left \cap Remote # {}
        /\ out' = <<BlockOwner[b], Frame("fetch", b, pos, 0)>>
        /\ call' = [call EXCEPT !.left = call.left \ {b}, !.issued = call.issued + 1]
        /\ UNCHANGED <<slot, chunk, prefilled, pos, session, transport, mirror, ringDecode,
                       frontier, link, wsession, wout, died, faults>>
    BY <1>0 DEF SyncSend, Free, Sends, owners
  <1>2. Sound
    BY <1>1, CallIsSound
  <1>3. InSync /\ SessionsOK
    BY <1>1, <1>2 DEF Sound
  <1>4. b \in call.left /\ b \in Remote /\ b \in Blocks /\ BlockOwner[b] # 0
    <2>1. call.left \cap Remote \subseteq Nat
      BY WorkersAre DEF Remote
    <2>2. b \in call.left \cap Remote
      BY <2>1, <1>0, <1>1, MinIsIn
    <2> QED
      BY <2>2 DEF Remote
  <1>5. /\ pos \in 0..MaxTokens /\ session \in 1..MaxSession /\ 0 \in 0..MaxTokens /\ WiresOK
        /\ call \in [op : RingOps, first : 0..MaxTokens, count : 0..MaxTokens, issued : Nat,
                 aborted : BOOLEAN, left : SUBSET Nat]
    BY DEF RingIInv, StateOK, RingAssumption
  <1>6. PICK n, q : n = Frame("fetch", b, pos, 0) /\ q = BlockOwner[b]
    OBVIOUS
  <1>7. /\ n.kind = "fetch" /\ n.block = b /\ n.first = pos /\ n.session = session
        /\ n \in RingFrames /\ Way(n) = <<0, q>> /\ q \in Workers /\ out' = <<q, n>>
    <2>1. /\ n.kind = "fetch" /\ n.block = b /\ n.first = pos /\ n.session = session
      BY <1>6 DEF Frame
    <2>2. n.kind \in LayerKinds \cup EndKinds \cup SyncKinds /\ n.kind \in SyncKinds /\ n.kind # "decode"
      BY <2>1 DEF SyncKinds
    <2>3. n \in [kind : LayerKinds \cup EndKinds \cup SyncKinds, block : Blocks,
                 first : 0..MaxTokens, count : 0..MaxTokens, session : 1..MaxSession]
      BY <2>1, <2>2, <1>4, <1>5, <1>6 DEF Frame
    <2>4. n \in RingFrames
      BY <2>1, <2>2, <2>3, <1>4 DEF RingFrames
    <2>5. Way(n) = <<0, q>>
      BY <2>1, <1>6 DEF Way
    <2>6. q \in Workers
      BY <1>4, <1>6, WorkersAre DEF Workers
    <2> QED
      BY <2>1, <2>4, <2>5, <2>6, <1>1, <1>6
  <1>8. /\ WiresOK' /\ <<0, q>> \in Links /\ Added(Pipe, Pipe', <<0, q>>, n)
        /\ Pipe \in Pipes /\ Pipe' \in Pipes
    BY <1>1, <1>5, <1>7, HostSends
  <1>9. PICK v : v = <<0, q>>
    OBVIOUS
  <1>10. \A l \in Links : \A m \in OnLink(Pipe', l) : m \in OnLink(Pipe, l) \/ m = n
    BY <1>8, <1>9, AppendLayered
  <1>11. /\ call' \in [op : RingOps, first : 0..MaxTokens, count : 0..MaxTokens, issued : Nat,
                 aborted : BOOLEAN, left : SUBSET Nat]
         /\ call'.op = "sync" /\ call'.left = call.left \ {b} /\ call'.issued = call.issued + 1
    <2>1. PICK s, i : s = call.left \ {b} /\ i = call.issued + 1
      OBVIOUS
    <2>2. s \in SUBSET Nat /\ i \in Nat
      BY <2>1, <1>5
    <2>3. call' = [call EXCEPT !.left = s, !.issued = i]
      BY <2>1, <1>1
    <2> QED
      BY <2>1, <2>2, <2>3, <1>1, <1>5
  <1>12. StateOK'
    BY <1>1, <1>11 DEF RingIInv, StateOK, InFlight
  <1>13. Causes'
    BY <1>1 DEF RingIInv, Causes
  <1>14. Awaited' = Awaited \cup {b} /\ b \notin Awaited /\ Remote' = Remote
    <2>1. mirror[b] = 0
      BY <1>3, <1>4 DEF InSync
    <2> QED
      BY <2>1, <1>1, <1>4, <1>11 DEF Awaited, Remote
  <1>15. InSync'
    <2>1. call'.issued = Cardinality(Awaited')
      <3>1. Cardinality(Awaited \cup {b}) = Cardinality(Awaited) + 1
        BY <1>14, AwaitedFinite, FS_AddElement
      <3>2. call.issued = Cardinality(Awaited)
        BY <1>3 DEF InSync
      <3> QED
        BY <3>1, <3>2, <1>11, <1>14
    <2>2. KindsIn(Pipe', SyncKinds)
      <3>1. KindsIn(Pipe, SyncKinds) /\ n.kind \in SyncKinds
        BY <1>3, <1>7 DEF InSync, SyncKinds
      <3> QED
        BY <3>1, <1>10 DEF KindsIn
    <2>3. \A l \in Links : \A m \in OnLink(Pipe, l) :
            m.first = pos /\ m.block \in Awaited /\ (m.kind = "state" => m.count = pos)
      BY <1>3 DEF InSync
    <2>4. \A l \in Links : \A m \in OnLink(Pipe', l) :
            m.first = pos' /\ m.block \in Awaited' /\ (m.kind = "state" => m.count = pos')
      BY <2>3, <1>1, <1>7, <1>10, <1>14
    <2>5. OneEach(Pipe')
      <3>1. OneEach(Pipe) /\ \A l \in Links : \A m \in OnLink(Pipe, l) : m.block # n.block
        BY <2>3, <1>3, <1>7, <1>14 DEF InSync
      <3>2. v \in Links /\ Added(Pipe, Pipe', v, n)
        BY <1>8, <1>9
      <3> QED
        BY <3>1, <3>2, <1>7, <1>8, OneEachAdd
    <2>6. \A c \in Remote' : mirror'[c] \in {0, pos'} /\ (c \in call'.left => mirror'[c] = 0)
      BY <1>1, <1>3, <1>11, <1>14 DEF InSync
    <2>7. ~ringDecode' /\ pos' > 0 /\ \A c \in Blocks : frontier'[c] = pos'
      BY <1>1, <1>3 DEF InSync
    <2> QED
      BY <2>1, <2>2, <2>4, <2>5, <2>6, <2>7 DEF InSync
  <1>16. SessionsOK'
    BY <1>1, <1>3, <1>7, <1>10, <1>11 DEF SessionsOK
  <1>17. Sound'
    BY <1>11, <1>15, <1>16 DEF Sound
  <1> QED
    BY <1>8, <1>12, <1>13, <1>17 DEF RingIInv

\* A state arrives at rank 0.
LEMMA SyncResultKeeps ==
    ASSUME RingAssumption, RingIInv, NEW p \in Workers, SyncResult(p)
    PROVE  RingIInv'
  <1>0. PICK u, m : u = <<p, 0>> /\ m = Head(link[u])
    OBVIOUS
  <1>1. call.op = "sync" /\ out = <<>> /\ link[u] # <<>> /\ Got(p) = m /\ call.left \cap Remote = {}
    BY <1>0 DEF SyncResult, Free, Arrived, Got
  <1>2. Sound
    BY <1>1, CallIsSound
  <1>3. /\ u \in Links /\ m \in RingFrames /\ m \in OnLink(Pipe, u) /\ Way(m) = u /\ m = Pipe[u][1]
        /\ m.session = session /\ Pipe \in Pipes
    BY <1>0, <1>1, <1>2, HostHead
  <1>4. InSync /\ SessionsOK
    BY <1>1, <1>2 DEF Sound
  <1>5. \A l \in Links : \A k \in OnLink(Pipe, l) :
          m.kind \in SyncKinds /\ k.first = pos /\ k.block \in Awaited /\ (k.kind = "state" => k.count = pos)
    BY <1>3, <1>4 DEF InSync, KindsIn
  <1>6. m.kind = "state" /\ m.first = pos /\ m.count = pos /\ m.block \in Awaited
    <2>1. m.kind # "fetch"
      <3>1. ASSUME m.kind = "fetch" PROVE FALSE
        <4>1. Way(m) = <<0, BlockOwner[m.block]>>
          BY <3>1 DEF Way
        <4>2. p = 0
          BY <4>1, <1>0, <1>3
        <4> QED
          BY <4>2 DEF Workers
      <3> QED
        BY <3>1
    <2>2. m.kind \in SyncKinds
      BY <1>3, <1>5
    <2>3. m.kind = "state"
      BY <2>1, <2>2 DEF SyncKinds
    <2> QED
      BY <2>3, <1>3, <1>5
  <1>7. /\ mirror' = [mirror EXCEPT ![m.block] = m.count]
        /\ call' = (IF call.issued = 1 THEN NoCall ELSE [call EXCEPT !.issued = call.issued - 1])
        /\ link' = [link EXCEPT ![u] = Tail(link[u])]
        /\ UNCHANGED <<slot, chunk, prefilled, pos, session, transport, out, ringDecode,
                       frontier, wsession, wout, died, faults>>
    BY <1>0, <1>1, <1>3, <1>6 DEF SyncResult, Take
  <1>8. /\ link \in Pipes /\ WiresOK /\ (\A l \in Links : Len(link[l]) <= LinkCap)
        /\ mirror \in [Blocks -> 0..MaxTokens] /\ pos \in 0..MaxTokens /\ MaxTokens \in Nat
        /\ call \in [op : RingOps, first : 0..MaxTokens, count : 0..MaxTokens, issued : Nat,
                 aborted : BOOLEAN, left : SUBSET Nat]
    BY PipeFacts DEF RingIInv, StateOK, RingAssumption
  <1>9. WiresOK' /\ Taken(Pipe, Pipe', u) /\ Pipe' \in Pipes
    BY <1>1, <1>3, <1>7, <1>8, HostTakes
  <1>10. m.block \in Remote /\ m.block \in Blocks /\ mirror[m.block] = 0
    BY <1>6, AwaitedFinite DEF Awaited
  <1>11. /\ mirror' \in [Blocks -> 0..MaxTokens] /\ mirror'[m.block] = pos
         /\ \A b \in Blocks : b # m.block => mirror'[b] = mirror[b]
    BY <1>6, <1>7, <1>8, <1>10
  <1>12. \A l \in Links : \A k \in OnLink(Pipe', l) : k \in OnLink(Pipe, l)
    BY <1>3, <1>9, TailLayered
  <1>13. OneEach(Pipe') /\ \A l \in Links : \A k \in OnLink(Pipe', l) : k.block # m.block
    BY <1>3, <1>4, <1>9, OneEachTake DEF InSync
  <1>14. PICK A, B : A = Awaited /\ B = A \ {m.block}
    OBVIOUS
  <1>15. IsFiniteSet(A) /\ m.block \in A /\ IsFiniteSet(B) /\ Cardinality(B) = Cardinality(A) - 1
         /\ Cardinality(A) \in Nat /\ Cardinality(B) \in Nat
    <2>1. IsFiniteSet(A) /\ m.block \in A
      BY <1>6, <1>14, AwaitedFinite
    <2>2. IsFiniteSet(B) /\ Cardinality(B) = Cardinality(A) - 1
      BY <2>1, <1>14, FS_RemoveElement
    <2> QED
      BY <2>1, <2>2, FS_CardinalityType
  <1>16. call.issued = Cardinality(A)
    BY <1>4, <1>14 DEF InSync
  <1>17. \A l \in Links : \A k \in OnLink(Pipe', l) : k.block \in B
    BY <1>5, <1>12, <1>13, <1>14
  <1>18. ~ringDecode /\ pos > 0 /\ (\A b \in Blocks : frontier[b] = pos)
         /\ \A b \in Remote : mirror[b] \in {0, pos}
    BY <1>4 DEF InSync
  <1>19. B = {b \in Remote : mirror'[b] = 0} /\ B = {b \in Remote : b \notin call.left /\ mirror'[b] = 0}
    <2>1. A = {b \in Remote : b \notin call.left /\ mirror[b] = 0}
      BY <1>14 DEF Awaited
    <2>2. \A b \in Remote : b \notin call.left /\ b \in Blocks
      BY <1>1, AwaitedFinite
    <2>3. mirror'[m.block] # 0
      BY <1>11, <1>18, <1>8
    <2> QED
      BY <2>1, <2>2, <2>3, <1>11, <1>14
  <1>20. Causes'
    BY <1>7 DEF RingIInv, Causes
  <1>21. \A l \in Links : Len(link'[l]) <= LinkCap
    BY <1>1, <1>3, <1>7, <1>8, CapTail
  <1>22. Remote' = Remote
    BY DEF Remote
  <1>23. CASE call.issued = 1
    <2>1. B = {}
      BY <1>15, <1>16, <1>23, FS_EmptySet
    <2>2. Still'
      <3> SUFFICES ASSUME NEW l \in Links, Pipe'[l] # <<>> PROVE FALSE
        BY DEF Still
      <3>1. Pipe'[l] \in Seq(RingFrames)
        BY <1>9 DEF Pipes
      <3>2. 1 \in 1..Len(Pipe'[l])
        BY <3>1
      <3>3. Pipe'[l][1] \in OnLink(Pipe', l)
        BY <3>2 DEF OnLink
      <3> QED
        BY <3>3, <2>1, <1>17
    <2>3. \A b \in Remote : mirror'[b] = pos
      <3> SUFFICES ASSUME NEW b \in Remote PROVE mirror'[b] = pos
        OBVIOUS
      <3>1. mirror'[b] # 0
        BY <2>1, <1>19
      <3>2. b \in Blocks /\ mirror[b] \in {0, pos}
        BY <1>18, AwaitedFinite
      <3> QED
        BY <3>1, <3>2, <1>11
    <2>4. InIdle'
      BY <2>2, <2>3, <1>7, <1>18, <1>22 DEF InIdle
    <2>5. /\ call' \in [op : RingOps, first : 0..MaxTokens, count : 0..MaxTokens, issued : Nat,
                 aborted : BOOLEAN, left : SUBSET Nat]
          /\ call'.op = "idle"
      <3>1. "idle" \in RingOps /\ {} \in SUBSET Nat /\ call' = NoCall
        BY <1>7, <1>23 DEF RingOps
      <3> QED
        BY <3>1, NewCall
    <2>6. StateOK'
      BY <2>5, <1>7, <1>11, <1>21 DEF RingIInv, StateOK, InFlight
    <2>7. SessionsOK'
      BY <2>5, <1>1, <1>4, <1>7, <1>12 DEF SessionsOK
    <2>8. Sound'
      BY <2>4, <2>5, <2>7 DEF Sound
    <2> QED
      BY <2>6, <2>8, <1>9, <1>20 DEF RingIInv
  <1>24. CASE call.issued # 1
    <2>1. call.issued \in Nat \ {0}
      <3>1. Cardinality(A) - 1 \in Nat
        BY <1>15
      <3> QED
        BY <3>1, <1>15, <1>16
    <2>2. /\ call' \in [op : RingOps, first : 0..MaxTokens, count : 0..MaxTokens, issued : Nat,
                 aborted : BOOLEAN, left : SUBSET Nat]
          /\ call'.op = "sync" /\ call'.left = call.left /\ call'.issued = call.issued - 1
      <3>1. call' = [call EXCEPT !.issued = call.issued - 1] /\ call.issued - 1 \in Nat
        BY <2>1, <1>7, <1>24
      <3> QED
        BY <3>1, <1>1, <1>8
    <2>3. Awaited' = B
      BY <2>2, <1>19 DEF Awaited, Remote
    <2>4. StateOK'
      BY <2>2, <1>7, <1>11, <1>21 DEF RingIInv, StateOK, InFlight
    <2>5. InSync'
      <3>1. call'.issued = Cardinality(Awaited')
        BY <2>2, <2>3, <1>15, <1>16
      <3>2. KindsIn(Pipe', SyncKinds)
        BY <1>4, <1>12 DEF InSync, KindsIn
      <3>3. \A l \in Links : \A k \in OnLink(Pipe', l) :
              k.first = pos' /\ k.block \in Awaited' /\ (k.kind = "state" => k.count = pos')
        BY <2>3, <1>5, <1>7, <1>12, <1>17
      <3>4. \A b \in Remote : mirror'[b] \in {0, pos'} /\ (b \in call'.left => mirror'[b] = 0)
        <4>1. \A b \in Remote : b \notin call'.left /\ b \in Blocks
          BY <2>2, <1>1, AwaitedFinite
        <4> QED
          BY <4>1, <1>7, <1>11, <1>18
      <3> QED
        BY <3>1, <3>2, <3>3, <3>4, <1>7, <1>13, <1>18, <1>22 DEF InSync
    <2>6. SessionsOK'
      BY <2>2, <1>1, <1>4, <1>7, <1>12 DEF SessionsOK
    <2>7. Sound'
      BY <2>2, <2>5, <2>6 DEF Sound
    <2> QED
      BY <2>4, <2>7, <1>9, <1>20 DEF RingIInv
  <1> QED
    BY <1>23, <1>24

\* An owner answers a fetch with its block's state.
LEMMA StateFetchKeeps ==
    ASSUME RingAssumption, RingIInv, NEW r \in Workers, NEW p \in RingRanks \ {r}, StateFetch(r, p)
    PROVE  RingIInv'
  <1>0. PICK u, m : u = <<p, r>> /\ m = Head(link[u])
    OBVIOUS
  <1>a. PICK n : n = [m EXCEPT !.kind = "state", !.count = frontier[m.block]]
    OBVIOUS
  <1>1. /\ wout[r] = <<>> /\ link[u] # <<>> /\ m.kind = "fetch" /\ m.session = wsession[r]
        /\ wout' = [wout EXCEPT ![r] = <<0, n>>]
        /\ link' = [link EXCEPT ![u] = Tail(link[u])]
        /\ UNCHANGED <<call, slot, chunk, prefilled, pos, session, transport, out, mirror, ringDecode,
                       frontier, wsession, died, faults>>
    BY <1>0, <1>a DEF StateFetch, Polling, rank0
  <1>2. /\ WireTyped(link, out, wout) /\ Pipe = PipeOf(link, SendsOf(out, wout)) /\ link \in Pipes
        /\ Routed(Pipe) /\ Pipe \in Pipes /\ WiresOK
    BY PipeFacts DEF RingIInv
  <1>3. u \in Links /\ m \in RingFrames /\ m \in OnLink(Pipe, u) /\ m = Pipe[u][1] /\ Way(m) = u
    <2>1. u \in Links
      BY <1>0 DEF Links, Workers
    <2>2. SendsOf(out, wout) \in SendTable
      BY <1>2, WireFacts
    <2>3. m \in RingFrames /\ m \in OnLink(Pipe, u) /\ m = Pipe[u][1]
      BY <2>1, <2>2, <1>0, <1>1, <1>2, PipeHead
    <2> QED
      BY <2>1, <2>3, <1>2 DEF Routed
  <1>4. frontier \in [Blocks -> 0..MaxTokens]
    BY DEF RingIInv, StateOK
  <1>5. m.block \in Blocks /\ BlockOwner[m.block] = r /\ BlockOwner[m.block] # 0
    <2>1. Way(m) = <<0, BlockOwner[m.block]>>
      BY <1>1 DEF Way
    <2>2. BlockOwner[m.block] = r
      BY <2>1, <1>0, <1>3
    <2> QED
      BY <2>2, <1>3 DEF RingFrames, Workers
  <1>6. /\ n.kind = "state" /\ n.block = m.block /\ n.first = m.first /\ n.count = frontier[m.block]
        /\ n.session = m.session /\ n \in RingFrames /\ Way(n) = <<r, 0>>
    <2>1. m \in [kind : LayerKinds \cup EndKinds \cup SyncKinds, block : Blocks,
                 first : 0..MaxTokens, count : 0..MaxTokens, session : 1..MaxSession]
      BY <1>3 DEF RingFrames
    <2>2. frontier[m.block] \in 0..MaxTokens
      BY <1>4, <1>5
    <2>3. "state" \in LayerKinds \cup EndKinds \cup SyncKinds /\ "state" \in SyncKinds
      BY DEF SyncKinds
    <2>4. /\ n.kind = "state" /\ n.block = m.block /\ n.first = m.first /\ n.count = frontier[m.block]
          /\ n.session = m.session
      BY <2>1, <1>a
    <2>5. n \in [kind : LayerKinds \cup EndKinds \cup SyncKinds, block : Blocks,
                 first : 0..MaxTokens, count : 0..MaxTokens, session : 1..MaxSession]
      BY <2>1, <2>2, <2>3, <1>a
    <2>6. n \in RingFrames
      BY <2>3, <2>4, <2>5, <1>5 DEF RingFrames
    <2>7. Way(n) = <<r, 0>>
      BY <2>4, <1>5 DEF Way
    <2> QED
      BY <2>4, <2>6, <2>7
  <1>7. /\ WiresOK' /\ <<r, 0>> \in Links /\ Pipe \in Pipes /\ Pipe' \in Pipes
        /\ \E R \in Pipes : Taken(Pipe, R, u) /\ Added(R, Pipe', <<r, 0>>, n)
    <2>1. link[u] # <<>> /\ wout[r] = <<>> /\ link' = [link EXCEPT ![u] = Tail(link[u])] /\ out' = out
          /\ wout' = [wout EXCEPT ![r] = <<0, n>>]
      BY <1>1
    <2>2. 0 \in RingRanks /\ 0 # r
      BY DEF RingRanks, Workers
    <2>3. n \in RingFrames /\ Way(n) = <<r, 0>>
      BY <1>6
    <2>4. u \in Links
      BY <1>3
    <2> QED
      BY <2>1, <2>2, <2>3, <2>4, <1>2, WorkerForwards
  <1>8. PICK R \in Pipes : Taken(Pipe, R, u) /\ Added(R, Pipe', <<r, 0>>, n)
    BY <1>7
  <1>9. PICK v : v = <<r, 0>>
    OBVIOUS
  <1>10. v \in Links /\ Added(R, Pipe', v, n)
    BY <1>7, <1>8, <1>9
  <1>11. StateOK'
    <2>1. \A l \in Links : Len(link[l]) <= LinkCap
      BY DEF RingIInv, StateOK
    <2>2. \A l \in Links : Len(link'[l]) <= LinkCap
      BY <2>1, <1>1, <1>2, <1>3, CapTail
    <2> QED
      BY <2>2, <1>1 DEF RingIInv, StateOK, InFlight
  <1>12. Causes'
    BY <1>1 DEF RingIInv, Causes
  <1>13. Doomed => Doomed'
    BY <1>1 DEF Doomed
  <1>14. ASSUME Sound PROVE Sound'
    <2>1. m.session = session /\ call.op = "sync"
      <3>1. link[<<p, r>>] # <<>> /\ m = Head(link[<<p, r>>]) /\ m.kind \notin {"work", "decode"}
        BY <1>0, <1>1
      <3> QED
        BY <3>1, <1>14, WorkerHead
    <2>2. InSync /\ SessionsOK
      BY <2>1, <1>14 DEF Sound
    <2>3. \A l \in Links : \A k \in OnLink(Pipe', l) : k \in OnLink(Pipe, l) \/ k = n
      <3>1. Taken(Pipe, R, u) /\ Added(R, Pipe', v, n) /\ Pipe \in Pipes /\ u \in Links /\ v \in Links
        BY <1>2, <1>3, <1>8, <1>10
      <3> QED
        BY <3>1, Forwarded
    <2>4. SessionsOK'
      BY <2>1, <2>2, <2>3, <1>1, <1>6 DEF SessionsOK
    <2>5. Awaited' = Awaited /\ Remote' = Remote
      BY <1>1 DEF Awaited, Remote
    <2>6. \A l \in Links : \A k \in OnLink(Pipe, l) :
            k.first = pos /\ k.block \in Awaited /\ (k.kind = "state" => k.count = pos)
      BY <2>2 DEF InSync
    <2>7. n.first = pos /\ n.block \in Awaited /\ n.count = pos
      <3>1. m.first = pos /\ m.block \in Awaited
        BY <2>6, <1>3
      <3>2. frontier[m.block] = pos
        BY <2>2, <1>5 DEF InSync
      <3> QED
        BY <3>1, <3>2, <1>6
    <2>8. \A l \in Links : \A k \in OnLink(Pipe', l) :
            k.first = pos' /\ k.block \in Awaited' /\ (k.kind = "state" => k.count = pos')
      BY <2>3, <2>5, <2>6, <2>7, <1>1
    <2>9. KindsIn(Pipe', SyncKinds)
      <3>1. KindsIn(Pipe, SyncKinds) /\ n.kind \in SyncKinds
        BY <2>2, <1>6 DEF InSync, SyncKinds
      <3> QED
        BY <3>1, <2>3 DEF KindsIn
    <2>10. OneEach(Pipe')
      <3>1. OneEach(Pipe)
        BY <2>2 DEF InSync
      <3>2. OneEach(R) /\ \A l \in Links : \A k \in OnLink(R, l) : k.block # Pipe[u][1].block
        BY <3>1, <1>2, <1>3, <1>8, OneEachTake
      <3>3. Pipe[u][1].block = n.block
        BY <1>3, <1>6
      <3>4. \A l \in Links : \A k \in OnLink(R, l) : k.block # n.block
        BY <3>2, <3>3
      <3>5. n \in RingFrames /\ Pipe' \in Pipes
        BY <1>6, <1>7
      <3> QED
        BY <3>2, <3>4, <3>5, <1>10, OneEachAdd
    <2>11. InSync'
      BY <2>2, <2>5, <2>8, <2>9, <2>10, <1>1 DEF InSync
    <2> QED
      BY <2>1, <2>4, <2>11, <1>1 DEF Sound
  <1> QED
    BY <1>7, <1>11, <1>12, <1>13, <1>14 DEF RingIInv

\* The ring starts empty, with every block at no token.
LEMMA RingStarts ==
    ASSUME RingAssumption, RingInit
    PROVE  RingIInv
  <1>1. /\ call = NoCall /\ slot = [f \in 0..(Frames - 1) |-> Empty]
        /\ chunk = 0 /\ prefilled = 0 /\ pos = 0 /\ session = 1
        /\ transport = "ready" /\ out = <<>> /\ ringDecode \in BOOLEAN
        /\ mirror = [b \in Blocks |-> 0] /\ frontier = [b \in Blocks |-> 0]
        /\ link = [l \in Links |-> <<>>] /\ wsession = [r \in Workers |-> 1]
        /\ wout = [r \in Workers |-> <<>>] /\ died = [r \in Workers |-> "runs"] /\ faults = 0
    BY DEF RingInit
  <1>2. /\ MaxTokens \in Nat /\ MaxSession \in Nat \ {0} /\ Frames \in Nat \ {0} /\ LinkCap \in Nat /\ Window \in Nat
        /\ 0 \in 0..MaxTokens
    BY DEF RingAssumption
  <1>3. WireTyped(link, out, wout)
    BY <1>1 DEF WireTyped, Pipes
  <1>4. \A l \in Links : Pipe[l] = <<>>
    <2> SUFFICES ASSUME NEW l \in Links PROVE Pipe[l] = <<>>
      OBVIOUS
    <2>1. SendsOf(out, wout) \in SendTable /\ link \in Pipes /\ \A r \in RingRanks : SendsOf(out, wout)[r] = <<>>
      <3>1. SendsOf(out, wout) \in SendTable /\ link \in Pipes
        BY <1>3, WireFacts
      <3>2. \A r \in RingRanks : SendsOf(out, wout)[r] = <<>>
        BY <1>1 DEF SendsOf, Workers
      <3> QED
        BY <3>1, <3>2
    <2>2. l[1] \in RingRanks
      BY DEF Links
    <2>3. Sent(SendsOf(out, wout), l) = <<>>
      BY <2>1, <2>2 DEF Sent
    <2>4. link[l] = <<>>
      BY <1>1
    <2>5. Pipe[l] = <<>> \o <<>>
      BY <2>1, <2>3, <2>4, PipeType DEF Pipe, Sending
    <2> QED
      BY <2>5
  <1>5. \A l \in Links : OnLink(Pipe, l) = {}
    BY <1>4 DEF OnLink
  <1>6. WiresOK
    BY <1>1, <1>3, <1>5 DEF WiresOK, Routed
  <1>7. Empty \in [active : BOOLEAN, first : 0..MaxTokens, count : 0..MaxTokens] /\ ~Empty.active
    BY <1>2 DEF Empty
  <1>8. slot \in SlotTable
    BY <1>1, <1>7 DEF SlotTable
  <1>9. InFlight = 0
    <2>1. {f \in DOMAIN slot : slot[f].active} = {}
      BY <1>1, <1>7
    <2>2. Cardinality({f \in DOMAIN slot : slot[f].active}) = 0
      BY <2>1, FS_EmptySet, Zenon
    <2> QED
      BY <2>2 DEF InFlight
  <1>10. /\ call \in [op : RingOps, first : 0..MaxTokens, count : 0..MaxTokens, issued : Nat,
                 aborted : BOOLEAN, left : SUBSET Nat]
         /\ call.op = "idle"
    <2>1. "idle" \in RingOps /\ {} \in SUBSET Nat
      BY DEF RingOps
    <2> QED
      BY <2>1, <1>1, NewCall
  <1>11. StateOK
    <2>1. session \in 1..MaxSession /\ chunk \in Nat /\ faults \in Nat
      BY <1>1, <1>2
    <2>2. mirror \in [Blocks -> 0..MaxTokens] /\ frontier \in [Blocks -> 0..MaxTokens]
      BY <1>1, <1>2
    <2>3. wsession \in [Workers -> Nat] /\ died \in [Workers -> {"runs", "crash", "stale", "peer"}]
      BY <1>1
    <2>4. (\A l \in Links : Len(link[l]) <= LinkCap) /\ InFlight <= Window
      BY <1>1, <1>2, <1>9
    <2> QED
      BY <2>1, <2>2, <2>3, <2>4, <1>1, <1>2, <1>8, <1>10 DEF StateOK
  <1>12. Causes
    BY <1>1 DEF Causes
  <1>13. Sound
    <2>1. Still
      BY <1>4 DEF Still
    <2>2. InIdle
      BY <2>1, <1>1 DEF InIdle, NotMirrored
    <2>3. SessionsOK
      BY <1>1, <1>5 DEF SessionsOK
    <2> QED
      BY <2>2, <2>3, <1>10 DEF Sound
  <1> QED
    BY <1>6, <1>11, <1>12, <1>13 DEF RingIInv

\* What the invariant says of the ring between calls.
LEMMA RingIsRight ==
    ASSUME RingAssumption, RingIInv
    PROVE  BlocksInv
  <1>1. RingTypeOK
    BY DEF RingIInv, StateOK, RingTypeOK, RingOps
  <1>2. BlocksAgree
    <2> SUFFICES ASSUME call.op = "idle", NEW b \in Blocks
                 PROVE  IF ringDecode THEN frontier[b] = pos
                        ELSE BlockOwner[b] # 0 => mirror[b] \in {0, pos} /\ (mirror[b] = 0 => frontier[b] = pos)
      BY DEF BlocksAgree
    <2>1. InIdle
      BY CallIsSound DEF Sound
    <2>2. pos \in Nat
      BY DEF RingIInv, StateOK
    <2> QED
      BY <2>1, <2>2 DEF InIdle, NotMirrored, Remote
  <1>3. NothingLeft
    <2> SUFFICES ASSUME call.op \in {"idle", "begin", "failed"}, \A r \in Workers : died[r] = "runs"
                 PROVE  (\A l \in Links : link[l] = <<>>) /\ \A r \in Workers : wout[r] = <<>>
      BY DEF NothingLeft
    <2>1. Sound
      BY DEF RingIInv, Doomed
    <2>2. Still
      BY <2>1 DEF Sound, InIdle, InBegin
    <2> QED
      BY <2>2, StillWires DEF RingIInv
  <1>4. NeverMisrouted
    <2> SUFFICES ASSUME call.op = "mismatch" \/ (\E r \in Workers : died[r] = "stale")
                 PROVE  \E r \in Workers : died[r] = "crash"
      BY DEF NeverMisrouted
    <2>1. \E r \in Workers : died[r] # "runs"
      <3>1. CASE call.op = "mismatch"
        BY <3>1 DEF RingIInv, Sound, Doomed
      <3>2. CASE \E r \in Workers : died[r] = "stale"
        BY <3>2
      <3> QED
        BY <3>1, <3>2
    <2> QED
      BY <2>1 DEF RingIInv, Causes
  <1> QED
    BY <1>1, <1>2, <1>3, <1>4 DEF BlocksInv

\* Every step of every rank keeps the invariant.
LEMMA RingKeeps ==
    ASSUME RingAssumption, RingIInv, [RingNext]_blocksVars
    PROVE  RingIInv'
  <1>1. CASE HostStep
    <2>1. CASE HostSent
      BY <2>1, HostSentKeeps
    <2>2. CASE PrefillEnds
      BY <2>2, PrefillEndsKeeps
    <2>3. CASE SyncSend
      BY <2>3, SyncSendKeeps
    <2>4. CASE Begun
      BY <2>4, BegunKeeps
    <2>5. CASE PeerLost
      BY <2>5, PeerLostKeeps
    <2>6. ASSUME NEW k \in 1..Window, NEW t \in 1..Micro, Issue(k, t) PROVE RingIInv'
      BY <2>6, IssueKeeps
    <2>7. ASSUME NEW p \in Workers, ChainFrame(p) PROVE RingIInv'
      BY <2>7, ChainFrameKeeps
    <2>8. ASSUME NEW p \in Workers, SyncResult(p) PROVE RingIInv'
      BY <2>8, SyncResultKeeps
    <2>9. ASSUME NEW p \in Workers, DecodeFrame(p) PROVE RingIInv'
      BY <2>9, DecodeFrameKeeps
    <2> QED
      BY <2>1, <2>2, <2>3, <2>4, <2>5, <2>6, <2>7, <2>8, <2>9, <1>1 DEF HostStep
  <1>2. ASSUME NEW r \in Workers, WorkerStep(r) PROVE RingIInv'
    <2>1. CASE WorkerSent(r)
      BY <2>1, WorkerSentKeeps
    <2>2. CASE BeginAt(r)
      BY <2>2, BeginAtKeeps
    <2>3. CASE WorkerPeerLost(r)
      BY <2>3, WorkerPeerLostKeeps
    <2>4. ASSUME NEW p \in RingRanks \ {r}, LayerWork(r, p) PROVE RingIInv'
      BY <2>4, LayerWorkKeeps
    <2>5. ASSUME NEW p \in RingRanks \ {r}, RefusesWork(r, p) PROVE RingIInv'
      BY <2>5, RefusesWorkKeeps
    <2>6. ASSUME NEW p \in RingRanks \ {r}, StateFetch(r, p) PROVE RingIInv'
      BY <2>6, StateFetchKeeps
    <2> QED
      BY <2>1, <2>2, <2>3, <2>4, <2>5, <2>6, <1>2 DEF WorkerStep
  <1>3. CASE Environment
    <2>1. ASSUME NEW n \in 1..MaxTokens, Prefill(n) PROVE RingIInv'
      BY <2>1, PrefillKeeps
    <2>2. CASE Decode
      BY <2>2, DecodeKeeps
    <2>3. CASE DecodeLocal
      BY <2>3, DecodeLocalKeeps
    <2>4. CASE Reset
      BY <2>4, ResetKeeps
    <2>5. CASE Interrupt
      BY <2>5, InterruptKeeps
    <2>6. CASE RingRecovery
      BY <2>6, RingRecoveryKeeps
    <2>7. CASE RingOver
      BY <2>7, StutterKeeps DEF RingOver
    <2>8. ASSUME NEW r \in Workers, Crash(r) PROVE RingIInv'
      BY <2>8, CrashKeeps
    <2>9. ASSUME NEW p \in Workers, DecodeNotFinite(p) PROVE RingIInv'
      BY <2>9, DecodeNotFiniteKeeps
    <2> QED
      BY <2>1, <2>2, <2>3, <2>4, <2>5, <2>6, <2>7, <2>8, <2>9, <1>3 DEF Environment
  <1>4. CASE UNCHANGED blocksVars
    BY <1>4, StutterKeeps
  <1> QED
    BY <1>1, <1>2, <1>3, <1>4 DEF RingNext

\* Between calls rank 0 and the owners of the blocks hold the same tokens and
\* nothing is under way, and no order of sends, window sizes, interrupts,
\* resets and worker ends makes the checks of ring_slot_finish, of the
\* frame handlers or of the state import refuse a frame of a ring whose workers
\* have not crashed.
THEOREM RingBlocksInv ==
    ASSUME RingAssumption
    PROVE  RingSpec => []BlocksInv
  <1>1. RingInit => RingIInv
    BY RingStarts
  <1>2. RingIInv /\ [RingNext]_blocksVars => RingIInv'
    BY RingKeeps
  <1>3. RingIInv => BlocksInv
    BY RingIsRight
  <1> QED
    BY <1>1, <1>2, <1>3, PTL DEF RingSpec

=============================================================================

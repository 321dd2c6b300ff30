-------------------------- MODULE OwnerTransaction --------------------------
(***************************************************************************)
(* The depth-B batch step as rank 0 runs it against the other owners       *)
(* (runtime.c: coordinator_decode_batch_step, coordinator_owner_transaction*)
(* and the workers' handle_owner_session_transaction and                   *)
(* handle_decode_batch_work; owner.c: snapshot, rollback and active        *)
(* session).  Every slot of a batch is prepared on every rank, the batch   *)
(* travels the blocks of the ring, then every slot is committed, or rolled *)
(* back, one transaction per slot.  DecodeBatch models the table that      *)
(* drives these hooks with one atomic owner; here the owners are separate  *)
(* processes behind FIFO connections and any of them may die.              *)
(***************************************************************************)
EXTENDS Integers, Sequences, FiniteSets

CONSTANTS
    N,          \* peers are 1..N
    Chain,      \* the ranks in block order; the first block is remote
    Slots,      \* owner sessions (state slots)
    MaxSteps,   \* bound: committed steps of a slot
    MaxTries,   \* bound: steps begun
    MayCrash    \* whether a worker may die of its own

\* What the constants of every instance satisfy.
ChainAssumption ==
    /\ N \in Nat \ {0}
    /\ Chain \in Seq(0..N) /\ {Chain[i] : i \in DOMAIN Chain} = 0..N /\ Chain[1] # 0
    /\ \A i, j \in DOMAIN Chain : Chain[i] = Chain[j] => i = j     \* a rank owns one block
    /\ IsFiniteSet(Slots) /\ 0 \in Slots
    /\ MaxSteps \in Nat

VARIABLES
    tokens,     \* rank -> slot -> tokens its session absorbed
    checkpoint, \* rank -> slot -> the frontier a checkpoint holds, or None
    active,     \* rank -> active_session
    alive,      \* peer -> its worker runs
    req, rep,   \* peer -> CONTROL frames to it and back from it, FIFO
    work,       \* the batch work: its slots and the index in Chain it waits at
    host,       \* slot -> tokens the batch table committed
    gen,        \* depthb_generation
    ctl,        \* where rank 0 is
    tries

vars == <<tokens, checkpoint, active, alive, req, rep, work, host, gen, ctl, tries>>

Peers == 1..N
Ranks == 0..N
None == -1
NoWork == [at |-> 0, batch |-> <<>>]
Reply == [prepare |-> "prepared", commit |-> "committed", restore |-> "restored"]
Batches == {b \in UNION {[1..n -> Slots] : n \in 1..Cardinality(Slots)} :
              \A i, j \in DOMAIN b : b[i] = b[j] => i = j}
Idle == [pc |-> "idle"]
Halted == [pc |-> "halted"]

Init ==
    /\ tokens = [r \in Ranks |-> [s \in Slots |-> 0]]
    /\ checkpoint = [r \in Ranks |-> [s \in Slots |-> None]]
    /\ active = [r \in Ranks |-> 0]
    /\ alive = [p \in Peers |-> TRUE]
    /\ req = [p \in Peers |-> <<>>] /\ rep = [p \in Peers |-> <<>>]
    /\ work = NoWork /\ host = [s \in Slots |-> 0] /\ gen = 0
    /\ ctl = Idle /\ tries = 0

-----------------------------------------------------------------------------
(* One owner: depthb_owner_prepare, _commit and _restore *)

RolledBack(r, s) ==
    IF checkpoint[r][s] = None THEN tokens
    ELSE [tokens EXCEPT ![r][s] = checkpoint[r][s]]

CheckpointAfter(r, op, s) ==
    [checkpoint EXCEPT ![r][s] = IF op = "prepare" THEN tokens[r][s] ELSE None]

ActiveAfter(op, s) == IF op = "prepare" THEN s ELSE 0

Apply(r, op, s) ==
    /\ tokens' = IF op = "restore" THEN RolledBack(r, s) ELSE tokens
    /\ checkpoint' = CheckpointAfter(r, op, s)
    /\ active' = [active EXCEPT ![r] = ActiveAfter(op, s)]

\* A worker serves the next control frame, or fails and dies.
HandleTransaction(p) ==
    /\ alive[p] /\ req[p] # <<>>
    /\ LET m == Head(req[p]) IN
       /\ Apply(p, m.op, m.slot)
       /\ rep' = [rep EXCEPT ![p] = Append(@, [m EXCEPT !.op = Reply[m.op]])]
    /\ req' = [req EXCEPT ![p] = Tail(@)]
    /\ UNCHANGED <<alive, work, host, gen, ctl, tries>>

\* The process ends: of its own, or because a connection to a dead rank broke.
Die(p) ==
    /\ alive[p]
    /\ MayCrash \/ \E q \in Peers : ~alive[q]
    /\ alive' = [alive EXCEPT ![p] = FALSE]
    /\ req' = [req EXCEPT ![p] = <<>>]
    /\ work' = IF work.at \in DOMAIN Chain /\ Chain[work.at] = p THEN NoWork ELSE work
    /\ UNCHANGED <<tokens, checkpoint, active, rep, host, gen, ctl, tries>>

-----------------------------------------------------------------------------
(* coordinator_owner_transaction at rank 0.  ctl.todo is the transactions   *)
(* still to run, ctl.batch the scheduled slots, ctl.then what follows.      *)

Txn(op, s) == [op |-> op, slot |-> s]
SlotsOf(batch) == {batch[i] : i \in DOMAIN batch}
All(op, batch) == [i \in DOMAIN batch |-> Txn(op, batch[i])]

\* Local half of the next transaction; peers are told one after the other.
\* With nothing left to do rank 0 goes on to `then`.
Start(todo, batch, then) ==
    IF todo = <<>>
    THEN /\ ctl' = CASE then = "ring" -> [pc |-> "ring", batch |-> batch]
                     [] then = "idle" -> Idle
                     [] OTHER -> Halted
         /\ work' = IF then = "ring" THEN [at |-> 1, batch |-> batch] ELSE work
         /\ host' = IF then = "idle"
                    THEN [s \in Slots |-> IF s \in SlotsOf(batch) THEN host[s] + 1 ELSE host[s]]
                    ELSE host
         /\ UNCHANGED <<tokens, checkpoint, active, gen>>
    ELSE /\ Apply(0, Head(todo).op, Head(todo).slot)
         /\ gen' = gen + 1
         /\ ctl' = [pc |-> "send", todo |-> todo, batch |-> batch, then |-> then, peer |-> 1]
         /\ UNCHANGED <<work, host>>

\* What follows an aborted batch: every slot is restored, then the step retries.
Retry(batch) ==
    /\ Apply(0, "restore", batch[1])
    /\ gen' = gen + 1
    /\ ctl' = [pc |-> "send", todo |-> All("restore", batch), batch |-> <<>>,
               then |-> "idle", peer |-> 1]
    /\ UNCHANGED <<work, host>>

\* Mutant: only the slot whose prepare failed is restored.
BeforeMutant == <<>>

\* The slots a failing prepare finds prepared already.
Before ==
    LET at == CHOOSE i \in DOMAIN ctl.batch : ctl.batch[i] = Head(ctl.todo).slot
    IN  SubSeq(All("restore", ctl.batch), 1, at - 1)

\* What follows a failed transaction: a prepare restores its own slot, then the
\* slots prepared before it; a commit restores every slot; a restore goes on
\* with the next slot.  The step then reports the error.
Recovery ==
    CASE Head(ctl.todo).op = "prepare" -> <<Txn("restore", Head(ctl.todo).slot)>> \o Before
      [] Head(ctl.todo).op = "commit" -> All("restore", ctl.batch)
      [] OTHER -> Tail(ctl.todo)

Fail == Start(Recovery, ctl.batch, "halted")

StepBegin(batch) ==
    /\ ctl = Idle /\ tries < MaxTries
    /\ \A i \in DOMAIN batch : host[batch[i]] < MaxSteps
    /\ tries' = tries + 1
    /\ Start(All("prepare", batch), batch, "ring")
    /\ UNCHANGED <<alive, req, rep>>

\* The local snapshot of a prepare fails: nothing was sent, the slots prepared
\* before it are restored.
LocalPrepareFails ==
    /\ ctl.pc = "send" /\ ctl.peer = 1 /\ Head(ctl.todo).op = "prepare"
    /\ LET before == Before
           s == Head(ctl.todo).slot
       IN  IF before = <<>>
           THEN /\ checkpoint' = [checkpoint EXCEPT ![0][s] = None]
                /\ ctl' = Halted
                /\ UNCHANGED <<tokens, active, gen>>
           ELSE /\ tokens' = RolledBack(0, before[1].slot)
                /\ checkpoint' = [checkpoint EXCEPT ![0][s] = None, ![0][before[1].slot] = None]
                /\ active' = [active EXCEPT ![0] = 0]
                /\ gen' = gen + 1
                /\ ctl' = [ctl EXCEPT !.todo = before, !.then = "halted"]
    /\ UNCHANGED <<alive, req, rep, work, host, tries>>

\* A send to a dead peer is noticed or not.
Send ==
    /\ ctl.pc = "send"
    /\ LET p == ctl.peer
           sent == [ctl EXCEPT !.peer = IF p = N THEN 1 ELSE p + 1,
                               !.pc = IF p = N THEN "recv" ELSE "send"]
       IN  \/ /\ ctl' = sent
              /\ req' = IF alive[p] THEN [req EXCEPT ![p] = Append(@,
                             [op |-> Head(ctl.todo).op, slot |-> Head(ctl.todo).slot, gen |-> gen])]
                        ELSE req
              /\ UNCHANGED <<tokens, checkpoint, active, work, host, gen>>
           \/ ~alive[p] /\ Fail /\ UNCHANGED req
    /\ UNCHANGED <<alive, rep, tries>>

Accepts(m) == m = [op |-> Reply[Head(ctl.todo).op], slot |-> Head(ctl.todo).slot, gen |-> gen]

\* The reply of the next peer, in rank order.
Receive ==
    /\ ctl.pc = "recv"
    /\ LET p == ctl.peer IN
       \/ /\ rep[p] # <<>>
          /\ rep' = [rep EXCEPT ![p] = Tail(@)]
          /\ IF ~Accepts(Head(rep[p])) THEN Fail
             ELSE IF p = N THEN Start(Tail(ctl.todo), ctl.batch, ctl.then)
             ELSE /\ ctl' = [ctl EXCEPT !.peer = p + 1]
                  /\ UNCHANGED <<tokens, checkpoint, active, work, host, gen>>
       \/ rep[p] = <<>> /\ ~alive[p] /\ Fail /\ UNCHANGED rep
    /\ UNCHANGED <<alive, req, tries>>

-----------------------------------------------------------------------------
(* The ring pass *)

Advance(r, slots) ==
    tokens' = [tokens EXCEPT ![r] = [s \in Slots |-> IF s \in slots THEN @[s] + 1 ELSE @[s]]]

\* A block owner runs its block for every slot, then forwards the batch.
RunBlock ==
    /\ work.at \in DOMAIN Chain
    /\ LET r == Chain[work.at] IN
       /\ IF r = 0 THEN ctl.pc = "ring" ELSE alive[r]
       /\ Advance(r, SlotsOf(work.batch))
       /\ active' = [active EXCEPT ![r] = work.batch[Len(work.batch)]]
    /\ work' = [work EXCEPT !.at = @ + 1]
    /\ UNCHANGED <<checkpoint, alive, req, rep, host, gen, ctl, tries>>

\* Rank 0's own block fails after the first slots advanced.
OwnBlockFails ==
    /\ ctl.pc = "ring" /\ work.at \in DOMAIN Chain /\ Chain[work.at] = 0
    /\ work' = NoWork
    /\ \E k \in 0..(Len(ctl.batch) - 1) :
          ctl' = [pc |-> "failed", batch |-> ctl.batch] /\
          Advance(0, {ctl.batch[i] : i \in 1..k})
    /\ UNCHANGED <<checkpoint, active, alive, req, rep, host, gen, tries>>

\* Mutant: a broken connection goes unnoticed while rank 0 waits.
RingBreaksMutant == FALSE /\ UNCHANGED vars

\* A peer's connection breaks while rank 0 waits for the ring.
RingBreaks ==
    /\ ctl.pc = "ring" /\ \E p \in Peers : ~alive[p]
    /\ ctl' = [pc |-> "failed", batch |-> ctl.batch]
    /\ UNCHANGED <<tokens, checkpoint, active, alive, req, rep, work, host, gen, tries>>

\* fg_decode_batch_step_restore after a failed ring pass or output.
StepRestore ==
    /\ ctl.pc = "failed"
    /\ Start(All("restore", ctl.batch), ctl.batch, "halted")
    /\ UNCHANGED <<alive, req, rep, tries>>

\* The result is back and sampled: commit, or the injected abort, or a failure.
StepResult(outcome) ==
    /\ ctl.pc = "ring" /\ work.at = Len(Chain) + 1
    /\ CASE outcome = "abort" -> Retry(ctl.batch)
         [] outcome = "commit" -> Start(All("commit", ctl.batch), ctl.batch, "idle")
         [] OTHER -> Start(All("restore", ctl.batch), ctl.batch, "halted")
    /\ UNCHANGED <<alive, req, rep, tries>>

StepReturns == \E o \in {"abort", "commit", "fail"} : StepResult(o)

Resting == ctl.pc \in {"idle", "halted"}

\* Rank 0 was told to stop, the bound on steps is reached, or a rank is gone.
Over == (Resting \/ \E p \in Peers : ~alive[p]) /\ UNCHANGED vars

Next ==
    \/ \E p \in Peers : HandleTransaction(p) \/ Die(p)
    \/ \E b \in Batches : StepBegin(b)
    \/ LocalPrepareFails
    \/ Send
    \/ Receive
    \/ RunBlock
    \/ OwnBlockFails
    \/ RingBreaks
    \/ StepRestore
    \/ StepReturns
    \/ Over

\* Rank 0 and the workers keep running; nothing makes a worker die.
Fairness ==
    /\ WF_vars(Send) /\ WF_vars(Receive) /\ WF_vars(RunBlock) /\ WF_vars(RingBreaks)
    /\ WF_vars(StepRestore) /\ WF_vars(StepReturns)
    /\ \A p \in Peers : WF_vars(HandleTransaction(p))

Spec == Init /\ [][Next]_vars /\ Fairness

-----------------------------------------------------------------------------
(* Properties *)

\* Type of the owners' sessions and of rank 0's place in the step.
TypeOK ==
    /\ \A r \in Ranks, s \in Slots : /\ tokens[r][s] \in 0..(MaxSteps + 1)
                                     /\ checkpoint[r][s] \in (0..MaxSteps) \cup {None}
    /\ active \in [Ranks -> Slots] /\ alive \in [Peers -> BOOLEAN]
    /\ work.at \in 0..(Len(Chain) + 1)
    /\ ctl.pc \in {"idle", "send", "recv", "ring", "failed", "halted"}

\* After every step, committed, aborted or failed, with all ranks alive: each
\* owner's session is exactly at the table's committed frontier, holds no
\* checkpoint, and no reply of an old transaction waits to be read (comments
\* on coordinator_owner_transaction and coordinator_decode_batch_step).
OwnersAgree ==
    (Resting /\ \A p \in Peers : alive[p]) =>
        /\ \A r \in Ranks, s \in Slots : tokens[r][s] = host[s] /\ checkpoint[r][s] = None
        /\ \A p \in Peers : req[p] = <<>> /\ rep[p] = <<>>

\* The ring only moves owners that can all be rolled back: while a batch is out,
\* every rank holds a checkpoint of the committed frontier of every slot.
RingIsProtected ==
    ctl.pc = "ring" => \A r \in Ranks : \A s \in SlotsOf(ctl.batch) : checkpoint[r][s] = host[s]

\* The single-token path finds session 0 active after a committed or aborted
\* step (depthb_owner_commit and _restore end on session 0).
SessionZeroActive == ctl = Idle => \A r \in Ranks : active[r] = 0

\* Every batch step ends: rank 0 never waits for a reply that cannot come.
StepEnds == (ctl.pc \in {"send", "recv", "ring", "failed"}) ~> Resting

\* A failed prepare leaves no live rank with a checkpoint (the comment on
\* coordinator_owner_transaction: "the fleet never holds a half-prepared batch").
NeverHalfPrepared ==
    ctl.pc = "halted" => \A p \in Peers, s \in Slots :
        (alive[p] /\ req[p] = <<>>) => checkpoint[p][s] = None

\* The owners of a step: together at the table's frontier between steps, each
\* able to go back while a batch is out, on session 0 when it has ended.
TransactionInv ==
    /\ TypeOK
    /\ OwnersAgree
    /\ RingIsProtected
    /\ SessionZeroActive
=============================================================================

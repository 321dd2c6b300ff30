----------------------------- MODULE DecodeBatch -----------------------------
(***************************************************************************)
(* The depth-B decode batch table (src/src/decode_batch.c) and the owner   *)
(* checkpoints its hooks drive (src/src/runtime.c).                        *)
(*                                                                         *)
(* The table binds conversations to owner state slots, picks the ready     *)
(* ones for one ring step, and commits or restores that step as a whole.   *)
(* `sequences' keeps its stale tail beyond `count', as the C array does:   *)
(* removal moves the last entry down and only decrements the count.        *)
(* committed_tokens and context_tokens always move together, and so do the *)
(* two generations, so each pair is one field here.  Positions, QSA        *)
(* cursors and sampler state are one opaque `data' value that says for     *)
(* which sequence and token index it was computed.                         *)
(***************************************************************************)
EXTENDS Integers, FiniteSets, Sequences

CONSTANTS
    Seqs,           \* sequence ids a caller may bind (non-zero uint64)
    NoSeq,          \* the zero id of an entry that was never bound
    Depth,          \* table->depth, at most FG_DECODE_BATCH_MAX
    SequenceMax,    \* FG_DECODE_BATCH_SEQUENCE_MAX
    ScanBudget,     \* policy->qsa_scan_budget_bytes
    MaxTokens,      \* bound: committed tokens of a sequence
    MaxNow,         \* bound: the caller's clock
    LeaveMidStep,   \* may a caller remove a sequence while a step is open
    CommitFaults    \* may an owner commit transaction fail

ASSUME DecodeBatchAssumption ==
    /\ NoSeq \notin Seqs
    /\ Depth \in Nat \ {0}
    /\ SequenceMax \in Nat \ {0}
    /\ ScanBudget \in Nat
    /\ MaxTokens \in Nat
    /\ MaxNow \in Nat
    /\ LeaveMidStep \in BOOLEAN
    /\ CommitFaults \in BOOLEAN

VARIABLES
    sequences,  \* table->sequences, stale entries included
    count,      \* table->count
    step,       \* the caller's fg_decode_batch_step
    owner,      \* per state slot: device frontier and checkpoint of the owners
    now         \* the clock passed to ready()

vars == <<sequences, count, step, owner, now>>

Indices == 0..(SequenceMax - 1)
Slots   == 0..(Depth - 1)
Bound   == 0..(count - 1)

\* No owner checkpoint is held.
NoCheckpoint == -1

Tokens == 0..(MaxTokens + 1)
Data   == [of : Seqs \cup {NoSeq}, at : Tokens]

Sequence ==
    [id : Seqs \cup {NoSeq}, gen : Tokens, slot : Slots, token : Tokens,
     committed : Tokens, data : Data, ready : BOOLEAN, inFlight : BOOLEAN,
     since : 0..MaxNow]

Unbound ==
    [id |-> NoSeq, gen |-> 0, slot |-> 0, token |-> 0, committed |-> 0,
     data |-> [of |-> NoSeq, at |-> 0], ready |-> FALSE, inFlight |-> FALSE,
     since |-> 0]

\* A batch entry holds the index of the sequence; `id' is a history field (who
\* was scheduled) that no action reads.
Idle == [active |-> FALSE, batch |-> <<>>, snaps |-> <<>>, outcomes |-> <<>>]

Init ==
    /\ sequences = [i \in Indices |-> Unbound]
    /\ count = 0
    /\ step = Idle
    /\ owner = [s \in Slots |-> [tokens |-> 0, checkpoint |-> NoCheckpoint]]
    /\ now = 0
-----------------------------------------------------------------------------
(* The QSA scan budget that sizes a batch. *)

QsaLayers   == 12
IndexBytes  == 148
PageBytes   == 4944
CommitBytes == 5080
AttnBytes   == 1088
SelectMax   == 512

MinOf(a, b) == IF a <= b THEN a ELSE b

QsaBytesPerToken(context) ==
    LET blocks == MinOf(context \div 4, SelectMax)
    IN  QsaLayers * ( context * IndexBytes
                    + blocks * PageBytes * 2
                    + MinOf(blocks * 4, context) * AttnBytes
                    + CommitBytes )

\* The largest batch up to `cap' whose aggregate scan fits the budget; a batch
\* of one is always admitted.
ChooseBatch(context, cap) ==
    LET fits == {b \in 2..cap : b * QsaBytesPerToken(context) <= ScanBudget}
    IN  IF fits = {} THEN 1 ELSE CHOOSE b \in fits : \A c \in fits : c <= b
-----------------------------------------------------------------------------
(* Binding, readiness and frontiers. *)

BoundIndex(id) == {i \in Bound : sequences[i].id = id}

SlotUsed(s) == \E i \in Bound : sequences[i].slot = s

\* A new conversation takes a free owner slot; its owner namespace is fresh.
SequenceEnter(id, s) ==
    /\ BoundIndex(id) = {}
    /\ ~SlotUsed(s)
    /\ count < SequenceMax
    /\ sequences' = [sequences EXCEPT ![count] =
                        [Unbound EXCEPT !.id = id, !.slot = s,
                                        !.data = [of |-> id, at |-> 0]]]
    /\ count' = count + 1
    /\ owner' = [owner EXCEPT ![s] = [tokens |-> 0, checkpoint |-> NoCheckpoint]]
    /\ UNCHANGED <<step, now>>

\* The last entry replaces the removed one; the tail entry is left as it was.
SequenceLeave(id) ==
    /\ step.active => LeaveMidStep
    /\ \E i \in BoundIndex(id) :
        /\ ~sequences[i].inFlight
        /\ sequences' = IF i + 1 < count
                        THEN [sequences EXCEPT ![i] = sequences[count - 1]]
                        ELSE sequences
    /\ count' = count - 1
    /\ UNCHANGED <<step, owner, now>>

SequenceReady(id) ==
    /\ now < MaxNow
    /\ \E i \in BoundIndex(id) :
        /\ ~sequences[i].inFlight
        /\ \E t \in {now, now + 1} :
            /\ now' = t
            /\ sequences' = [sequences EXCEPT ![i].ready = TRUE, ![i].since = t]
    /\ UNCHANGED <<count, step, owner>>

\* A prefill or an external restore left the owners at frontier n.
SequenceFrontier(id, n) ==
    /\ n <= MaxTokens
    /\ \E i \in BoundIndex(id) :
        /\ ~sequences[i].inFlight
        /\ sequences' = [sequences EXCEPT ![i].committed = n, ![i].token = n,
                            ![i].data = [of |-> id, at |-> n]]
        /\ owner' = [owner EXCEPT ![sequences[i].slot] =
                        [tokens |-> n, checkpoint |-> NoCheckpoint]]
    /\ UNCHANGED <<count, step, now>>
-----------------------------------------------------------------------------
(* One ring step: schedule, prepare, run, advance, then commit or restore. *)

Candidates == {i \in Bound : sequences[i].ready /\ ~sequences[i].inFlight}

\* The oldest ready sequence first, the lower index on a tie.
Before(i, j) ==
    \/ sequences[i].since < sequences[j].since
    \/ sequences[i].since = sequences[j].since /\ i < j

WorstContext ==
    CHOOSE n \in Tokens :
        /\ \E i \in Candidates : n \in {sequences[i].committed, sequences[i].token}
        /\ \A i \in Candidates : sequences[i].committed <= n /\ sequences[i].token <= n

Limit == MinOf(ChooseBatch(WorstContext, Depth), Cardinality(Candidates))

Chosen(k) ==
    CHOOSE i \in Candidates : Cardinality({j \in Candidates : Before(j, i)}) = k - 1

Schedule ==
    [k \in 1..Limit |->
        LET i == Chosen(k)
        IN  [index |-> i, slot |-> sequences[i].slot,
             token |-> sequences[i].token, id |-> sequences[i].id]]

InBatch(batch, i) == \E k \in 1..Len(batch) : batch[k].index = i

\* The owner hooks.  A checkpoint is dropped by commit, and restore rolls back
\* only while one is held.
OwnerPrepare(o, s) == [o EXCEPT ![s].checkpoint = o[s].tokens]

OwnerCommit(o, s) == [o EXCEPT ![s].checkpoint = NoCheckpoint]

\* Mutant: the checkpoint is released without the rollback.
OwnerRestoreForgets(o, s) == [o EXCEPT ![s].checkpoint = NoCheckpoint]

OwnerRestore(o, s) ==
    IF o[s].checkpoint = NoCheckpoint THEN o
    ELSE [o EXCEPT ![s] = [tokens |-> o[s].checkpoint, checkpoint |-> NoCheckpoint]]

BatchSlots(batch) == {batch[k].slot : k \in 1..Len(batch)}

\* What a hook does to every slot in S (the slots are distinct).
OnSlots(Hook(_, _), S) == [s \in Slots |-> IF s \in S THEN Hook(owner, s)[s] ELSE owner[s]]

\* Bound: no sequence commits more than MaxTokens steps or tokens.
Room == \A i \in Bound :
    sequences[i].committed < MaxTokens /\ sequences[i].gen < MaxTokens

\* Every slot's checkpoint is taken, the batch is in flight.
StepBegin ==
    /\ Room
    /\ ~step.active
    /\ Candidates # {}
    /\ LET batch == Schedule
       IN  /\ step' = [active |-> TRUE, batch |-> batch,
                       snaps |-> [k \in 1..Limit |-> sequences[batch[k].index]],
                       outcomes |-> [k \in 1..Limit |-> FALSE]]
           /\ sequences' = [i \in Indices |->
                IF InBatch(batch, i)
                THEN [sequences[i] EXCEPT !.ready = FALSE, !.inFlight = TRUE]
                ELSE sequences[i]]
           /\ owner' = OnSlots(OwnerPrepare, BatchSlots(batch))
    /\ UNCHANGED <<count, now>>

\* The prepare of some slot fails: the slots prepared before it are restored, the
\* failing transaction undoes itself, and every scheduled sequence is ready again.
StepBeginFails ==
    /\ ~step.active
    /\ Candidates # {}
    /\ step' = Idle
    /\ sequences' = [i \in Indices |->
         IF InBatch(Schedule, i)
         THEN [sequences[i] EXCEPT !.ready = TRUE, !.inFlight = FALSE]
         ELSE sequences[i]]
    /\ UNCHANGED <<count, owner, now>>

\* The ring runs the block of every slot; a fault leaves a prefix of them advanced.
RingPass(reached) ==
    /\ step.active
    /\ \A k \in 1..Len(step.batch) :
        owner[step.batch[k].slot].tokens = owner[step.batch[k].slot].checkpoint
    /\ reached <= Len(step.batch)
    /\ owner' = [s \in Slots |->
         IF \E k \in 1..reached : step.batch[k].slot = s
         THEN [owner[s] EXCEPT !.tokens = @ + 1] ELSE owner[s]]
    /\ UNCHANGED <<sequences, count, step, now>>

\* One slot's sampled outcome is recorded, after the whole ring pass returned.
StepAdvance(k) ==
    /\ step.active
    /\ k <= Len(step.batch)
    /\ ~step.outcomes[k]
    /\ \A j \in 1..Len(step.batch) :
        owner[step.batch[j].slot].tokens = owner[step.batch[j].slot].checkpoint + 1
    /\ step' = [step EXCEPT !.outcomes[k] = TRUE]
    /\ UNCHANGED <<sequences, count, owner, now>>

\* Every slot has an outcome and no scheduled sequence moved since its snapshot.
\* (Mutant: one outcome is enough.)
MayCommitEarly ==
    /\ step.active
    /\ \E k \in 1..Len(step.batch) : step.outcomes[k]

MayCommit ==
    /\ step.active
    /\ \A k \in 1..Len(step.batch) :
        /\ step.outcomes[k]
        /\ sequences[step.batch[k].index].gen = step.snaps[k].gen

SlotIndex(i) == CHOOSE k \in 1..Len(step.batch) : step.batch[k].index = i

Committed(i) ==
    LET entry == step.batch[SlotIndex(i)]
    IN  [sequences[i] EXCEPT !.committed = @ + 1, !.token = @ + 1, !.gen = @ + 1,
             !.data = [of |-> entry.id, at |-> entry.token + 1],
             !.ready = FALSE, !.inFlight = FALSE]

StepCommit ==
    /\ MayCommit
    /\ owner' = OnSlots(OwnerCommit, BatchSlots(step.batch))
    /\ sequences' = [i \in Indices |->
         IF InBatch(step.batch, i) THEN Committed(i) ELSE sequences[i]]
    /\ step' = Idle
    /\ UNCHANGED <<count, now>>

\* The host half of a restore: every scheduled index gets its snapshot back and
\* is ready for a retry.
\* (Mutant: the in-flight mark survives the restore.)
RestoredInFlight(i) ==
    [step.snaps[SlotIndex(i)] EXCEPT !.since = sequences[i].since, !.ready = TRUE,
        !.inFlight = sequences[i].inFlight]

Restored(i) ==
    [step.snaps[SlotIndex(i)] EXCEPT !.id = sequences[i].id, !.slot = sequences[i].slot,
        !.since = sequences[i].since, !.ready = TRUE, !.inFlight = FALSE]

HostRestore ==
    /\ sequences' = [i \in Indices |->
         IF InBatch(step.batch, i) THEN Restored(i) ELSE sequences[i]]
    /\ step' = Idle

StepRestore ==
    /\ step.active
    /\ owner' = OnSlots(OwnerRestore, BatchSlots(step.batch))
    /\ HostRestore
    /\ UNCHANGED <<count, now>>

\* A commit transaction fails after this owner released the checkpoints of the
\* first `gone' slots: the whole step is restored, through checkpoints those slots
\* no longer hold.
StepCommitFails(gone) ==
    /\ gone > 0 => CommitFaults
    /\ MayCommit
    /\ gone <= Len(step.batch)
    /\ LET released == {step.batch[j].slot : j \in 1..gone}
       IN  owner' = [s \in Slots |->
             IF s \in released THEN OwnerCommit(owner, s)[s]
             ELSE IF s \in BatchSlots(step.batch) THEN OwnerRestore(owner, s)[s]
             ELSE owner[s]]
    /\ HostRestore
    /\ UNCHANGED <<count, now>>
-----------------------------------------------------------------------------
Next ==
    \/ \E id \in Seqs, s \in Slots : SequenceEnter(id, s)
    \/ \E id \in Seqs : SequenceLeave(id)
    \/ \E id \in Seqs : SequenceReady(id)
    \/ \E id \in Seqs, n \in 1..MaxTokens : SequenceFrontier(id, n)
    \/ StepBegin
    \/ StepBeginFails
    \/ \E reached \in 1..Depth : RingPass(reached)
    \/ \E k \in 1..Depth : StepAdvance(k)
    \/ StepCommit
    \/ StepRestore
    \/ \E gone \in 0..Depth : StepCommitFails(gone)

Spec == Init /\ [][Next]_vars
-----------------------------------------------------------------------------
(* Properties. *)

\* Every field keeps its type (fg_decode_batch_table, fg_decode_batch_step).
TypeOK ==
    /\ sequences \in [Indices -> Sequence]
    /\ count \in 0..SequenceMax
    /\ step.active \in BOOLEAN
    /\ Len(step.batch) <= Depth
    /\ DOMAIN step.snaps = DOMAIN step.batch
    /\ DOMAIN step.outcomes = DOMAIN step.batch
    /\ \A k \in DOMAIN step.batch :
         step.batch[k] \in [index : Indices, slot : Slots, token : Tokens, id : Seqs]
    /\ owner \in [Slots -> [tokens : Tokens, checkpoint : Tokens \cup {NoCheckpoint}]]
    /\ now \in 0..MaxNow

\* Two bound sequences never share an owner state namespace, so no batch runs two
\* conversations on one device state (state_slot_used, fg_decode_batch.h:37).
SlotsDisjoint ==
    \A i, j \in Bound : i # j => /\ sequences[i].id # sequences[j].id
                                /\ sequences[i].slot # sequences[j].slot

\* A sequence is in flight exactly while an open step holds it, at the index the
\* step will commit or restore: nothing moves it, and nothing strands it in flight
\* (fg_decode_batch.h:95, "a sequence that is still in flight cannot be rebound or
\* removed").
InFlightIsScheduled ==
    /\ \A i \in Bound :
         sequences[i].inFlight <=> step.active /\ InBatch(step.batch, i)
    /\ step.active => \A k \in DOMAIN step.batch :
         /\ step.batch[k].index \in Bound
         /\ sequences[step.batch[k].index].id = step.batch[k].id

\* What a bound sequence holds (position, QSA cursors, sampler) was computed for
\* that sequence at its own token index, whatever batch it ran in.
OutcomeIsOwn ==
    \A i \in Bound :
        sequences[i].data = [of |-> sequences[i].id, at |-> sequences[i].token]

\* Between steps the host frontier of every bound sequence is the frontier of its
\* owner namespace and no checkpoint is pinned.
HostOwnerAgree ==
    ~step.active => \A i \in Bound :
        owner[sequences[i].slot] = [tokens |-> sequences[i].committed,
                                    checkpoint |-> NoCheckpoint]

\* Host and device of every slot of the closing step moved by `delta' tokens.
StepMoved(delta) ==
    \A k \in DOMAIN step.batch :
        /\ sequences'[step.batch[k].index].committed = step.snaps[k].committed + delta
        /\ owner'[step.batch[k].slot].tokens = step.snaps[k].committed + delta

\* A step that closes has advanced every one of its slots by the token it sampled
\* for them, or none, on the host and on the owners (runtime.c:5066, "All state
\* changes are committed or rolled back as one transaction").
StepIsAtomic ==
    [][step.active /\ ~step'.active =>
         \/ StepMoved(1) /\ \A k \in DOMAIN step.batch : step.outcomes[k]
         \/ StepMoved(0)]_vars

\* The table between and during steps: namespaces are disjoint, exactly the
\* scheduled sequences are in flight, an outcome is of its own sequence, and host
\* and owners agree on every frontier.
BatchInv ==
    /\ TypeOK
    /\ SlotsDisjoint
    /\ InFlightIsScheduled
    /\ OutcomeIsOwn
    /\ HostOwnerAgree
=============================================================================

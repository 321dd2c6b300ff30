-------------------------- MODULE DecodeBatchProofs --------------------------
(***************************************************************************)
(* Proofs about the depth-B decode batch table, for every set of           *)
(* sequences, depth, table size and scan budget.                           *)
(***************************************************************************)
EXTENDS DecodeBatch, FiniteSetTheorems, SequenceTheorems, WellFoundedInduction, TLAPS

\* Every non-empty set of naturals that is bounded has a greatest element.
LEMMA Greatest ==
    ASSUME NEW T, T \subseteq Nat, T # {}, NEW m \in Nat, \A t \in T : t <= m
    PROVE  \E t \in T : \A u \in T : u <= t
  <1> DEFINE D == {d \in Nat : \E t \in T : d = m - t}
  <1>1. D \subseteq Nat /\ D # {}
    <2>1. PICK t \in T : TRUE
      OBVIOUS
    <2>2. m - t \in D
      BY <2>1
    <2> QED
      BY <2>2
  <1>2. \E d \in D : \A e \in D : ~(<<e, d>> \in OpToRel(<, Nat))
    <2> HIDE DEF D
    <2> QED
      BY <1>1, NatLessThanWellFounded, WFMin
  <1>3. PICK d \in D : \A e \in D : ~(e < d)
    BY <1>1, <1>2 DEF OpToRel
  <1>4. PICK t \in T : d = m - t
    BY <1>3
  <1>5. ASSUME NEW u \in T PROVE u <= t
    <2>1. m - u \in D
      BY <1>5
    <2> QED
      BY <1>3, <1>4, <1>5, <2>1
  <1> QED
    BY <1>4, <1>5

\* fg_decode_batch_choose admits at least one sequence and never more than its cap.
LEMMA ChooseBatchBounds ==
    ASSUME NEW context, NEW cap \in Nat \ {0}
    PROVE  ChooseBatch(context, cap) \in 1..cap
  <1> DEFINE fits == {b \in 2..cap : b * QsaBytesPerToken(context) <= ScanBudget}
  <1>1. CASE fits = {}
    BY <1>1 DEF ChooseBatch
  <1>2. CASE fits # {}
    <2>1. fits \subseteq Nat /\ \A t \in fits : t <= cap
      OBVIOUS
    <2>2. \E b \in fits : \A c \in fits : c <= b
      <3> HIDE DEF fits
      <3> QED
        BY <1>2, <2>1, Greatest
    <2>3. ChooseBatch(context, cap) \in fits
      BY <1>2, <2>2 DEF ChooseBatch
    <2> QED
      BY <2>3
  <1> QED
    BY <1>1, <1>2
-----------------------------------------------------------------------------
(* The schedule: the k-th oldest candidate exists and is one sequence. *)

\* What the scheduler reads of the table.
TableOK == sequences \in [Indices -> Sequence] /\ count \in 0..SequenceMax

\* The candidates scheduled before entry i.
Older(i) == {j \in Candidates : Before(j, i)}

\* The candidates are finitely many entries of the array.
LEMMA CandidatesFinite ==
    ASSUME TableOK
    PROVE  /\ Candidates \subseteq Indices
           /\ \A i \in Candidates : sequences[i].since \in Nat /\ i \in Nat
           /\ IsFiniteSet(Candidates)
           /\ Cardinality(Candidates) \in Nat
           /\ \A i \in Candidates : IsFiniteSet(Older(i)) /\ Cardinality(Older(i)) \in Nat
  <1>1. Candidates \subseteq Indices /\ Candidates \subseteq Nat
        /\ \A i \in Candidates : i <= SequenceMax
    BY DecodeBatchAssumption DEF TableOK, Candidates, Bound, Indices
  <1>2. IsFiniteSet(Candidates)
    BY <1>1, FS_BoundedSetOfNaturals, DecodeBatchAssumption
  <1>3. \A i \in Candidates : sequences[i].since \in Nat
    BY <1>1, DecodeBatchAssumption DEF TableOK, Sequence
  <1>4. \A i \in Candidates : IsFiniteSet(Older(i))
    BY <1>2, FS_Subset DEF Older
  <1> QED
    BY <1>1, <1>2, <1>3, <1>4, FS_CardinalityType

\* `Older first, the lower index on a tie' is a strict total order of the candidates.
LEMMA BeforeIsOrder ==
    ASSUME TableOK, NEW i \in Candidates, NEW j \in Candidates
    PROVE  /\ ~Before(i, i)
           /\ i # j => Before(i, j) \/ Before(j, i)
           /\ Before(i, j) => \A k \in Candidates : Before(k, i) => Before(k, j)
  BY CandidatesFinite DEF Before

\* No two candidates have equally many older ones.
LEMMA RankInjective ==
    ASSUME TableOK, NEW i \in Candidates, NEW j \in Candidates,
           Cardinality(Older(i)) = Cardinality(Older(j))
    PROVE  i = j
  <1>1. ASSUME NEW a \in Candidates, NEW b \in Candidates, Before(a, b)
        PROVE  Cardinality(Older(a)) # Cardinality(Older(b))
    <2>1. Older(a) \in SUBSET Older(b)
      BY <1>1, BeforeIsOrder DEF Older
    <2>2. a \in Older(b) /\ a \notin Older(a)
      BY <1>1, BeforeIsOrder DEF Older
    <2>3. IsFiniteSet(Older(b))
      BY CandidatesFinite
    <2> QED
      BY <2>1, <2>2, <2>3, FS_Subset
  <1> QED
    BY <1>1, BeforeIsOrder

\* Every rank up to the number of candidates is taken.
LEMMA RankTaken ==
    ASSUME TableOK, NEW k \in 1..Cardinality(Candidates)
    PROVE  \E i \in Candidates : Cardinality(Older(i)) = k - 1
  <1> DEFINE n == Cardinality(Candidates)
             R == 0..(n - 1)
             f == [i \in Candidates |-> Cardinality(Older(i))]
  <1>1. n \in Nat /\ IsFiniteSet(Candidates)
    BY CandidatesFinite
  <1>2. IsFiniteSet(R) /\ Cardinality(R) = n
    <2> HIDE DEF n
    <2>1. 0 \in Int /\ n - 1 \in Int
      BY <1>1
    <2>2. /\ IsFiniteSet(0..(n - 1))
          /\ Cardinality(0..(n - 1)) = IF 0 > n - 1 THEN 0 ELSE (n - 1) - 0 + 1
      BY <2>1, FS_Interval
    <2> QED
      BY <1>1, <2>2
  <1>3. \A i \in Candidates : Cardinality(Older(i)) \in R
    <2> TAKE i \in Candidates
    <2>1. Older(i) \in SUBSET Candidates /\ i \notin Older(i)
      BY BeforeIsOrder DEF Older
    <2>2. Cardinality(Older(i)) <= n /\ Cardinality(Older(i)) # n
      BY <1>1, <2>1, FS_Subset
    <2>3. Cardinality(Older(i)) \in Nat
      BY CandidatesFinite
    <2> HIDE DEF n
    <2> QED
      BY <1>1, <2>2, <2>3
  <1>4. f \in Injection(Candidates, R)
    <2>1. f \in [Candidates -> R]
      BY <1>3
    <2>2. \A a, b \in Candidates : f[a] = f[b] => a = b
      BY RankInjective
    <2> QED
      BY <2>1, <2>2 DEF Injection, IsInjective
  <1>5. f \in Surjection(Candidates, R)
    <2> HIDE DEF f, R
    <2> QED
      BY <1>2, <1>4, FS_Injection
  <1>6. k - 1 \in R
    BY <1>1
  <1>7. PICK i \in Candidates : f[i] = k - 1
    BY <1>5, <1>6 DEF Surjection
  <1> QED
    BY <1>7

\* fg_decode_batch_schedule takes Limit sequences, at least one and at most Depth, all
\* of them candidates and no two the same.
LEMMA ScheduleIs ==
    ASSUME TableOK, Candidates # {}
    PROVE  /\ Limit \in 1..Depth
           /\ \A k \in 1..Limit : Chosen(k) \in Candidates
           /\ \A k, l \in 1..Limit : k # l => Chosen(k) # Chosen(l)
  <1>1. Cardinality(Candidates) \in Nat \ {0}
    BY CandidatesFinite, FS_EmptySet
  <1>2. Limit \in 1..Depth /\ Limit <= Cardinality(Candidates)
    <2>1. ChooseBatch(WorstContext, Depth) \in 1..Depth
      BY ChooseBatchBounds, DecodeBatchAssumption
    <2> QED
      BY <1>1, <2>1, DecodeBatchAssumption DEF Limit, MinOf
  <1>3. ASSUME NEW k \in 1..Limit
        PROVE  Chosen(k) \in Candidates /\ Cardinality(Older(Chosen(k))) = k - 1
    <2>1. \E i \in Candidates : Cardinality({j \in Candidates : Before(j, i)}) = k - 1
      <3>1. k \in 1..Cardinality(Candidates)
        BY <1>1, <1>2, <1>3
      <3>2. \E i \in Candidates : Cardinality(Older(i)) = k - 1
        BY <3>1, RankTaken
      <3> QED
        BY <3>2 DEF Older
    <2> DEFINE P(i) == Cardinality({j \in Candidates : Before(j, i)}) = k - 1
    <2>2. Chosen(k) \in Candidates /\ P(Chosen(k))
      <3>1. \E i \in Candidates : P(i)
        BY <2>1
      <3>2. Chosen(k) = CHOOSE i \in Candidates : P(i)
        BY DEF Chosen
      <3> HIDE DEF P
      <3> QED
        BY <3>1, <3>2
    <2> QED
      BY <2>2 DEF Older
  <1>4. ASSUME NEW k \in 1..Limit, NEW l \in 1..Limit, k # l
        PROVE  Chosen(k) # Chosen(l)
    <2>1. k - 1 # l - 1
      BY <1>2, <1>4
    <2> QED
      BY <1>3, <2>1
  <1> QED
    BY <1>2, <1>3, <1>4
-----------------------------------------------------------------------------
(* The inductive invariant. *)

\* A place of the batch, and what the owners keep per state slot.
Entry == [index : Indices, slot : Slots, token : Tokens, id : Seqs]

\* One slot per scheduled sequence, at most Depth of them.
StepOK ==
    /\ step \in [active : BOOLEAN, batch : Seq(Entry), snaps : Seq(Sequence),
                 outcomes : Seq(BOOLEAN)]
    /\ Len(step.batch) <= Depth
    /\ Len(step.snaps) = Len(step.batch)
    /\ Len(step.outcomes) = Len(step.batch)

\* A bound sequence has an id, and its token index is its committed frontier.
FrontierOK ==
    \A i \in Bound :
        /\ sequences[i].id \in Seqs
        /\ sequences[i].token = sequences[i].committed

\* An open step names distinct sequences, each of them as it was when its snapshot was
\* taken but for the two marks the step itself set.
EntryHolds(k) ==
    LET e == step.batch[k]
        q == sequences[e.index]
    IN  /\ e.index \in Bound
        /\ e.id = q.id /\ e.slot = q.slot /\ e.token = q.token
        /\ q.committed < MaxTokens /\ q.gen < MaxTokens
        /\ step.snaps[k] = [q EXCEPT !.ready = TRUE, !.inFlight = FALSE]

StepHolds ==
    step.active =>
        /\ \A k, l \in 1..Len(step.batch) :
             k # l => step.batch[k].index # step.batch[l].index
        /\ \A k \in 1..Len(step.batch) : EntryHolds(k)

\* The host's half of the invariant.
HostInv ==
    /\ TableOK
    /\ now \in 0..MaxNow
    /\ StepOK
    /\ SlotsDisjoint
    /\ FrontierOK
    /\ OutcomeIsOwn
    /\ InFlightIsScheduled
    /\ StepHolds

OwnerState == [tokens : Tokens, checkpoint : Tokens \cup {NoCheckpoint}]

\* The owners' half: a slot outside the open step holds the host's frontier and no
\* checkpoint; a slot of the step pins the frontier of its snapshot and runs at most one
\* token ahead of it, and every slot has run once an outcome is recorded.
OwnerInv ==
    /\ owner \in [Slots -> OwnerState]
    /\ \A i \in Bound : ~sequences[i].inFlight =>
         owner[sequences[i].slot] = [tokens |-> sequences[i].committed,
                                     checkpoint |-> NoCheckpoint]
    /\ step.active => \A k \in 1..Len(step.batch) :
         LET o == owner[step.batch[k].slot]
         IN  /\ o.checkpoint = step.snaps[k].committed
             /\ o.tokens \in {o.checkpoint, o.checkpoint + 1}
             /\ (\E j \in 1..Len(step.batch) : step.outcomes[j]) =>
                  o.tokens = o.checkpoint + 1
-----------------------------------------------------------------------------
(* The table operations. *)

\* An entry that was never bound is well typed.
LEMMA UnboundOK ==
    /\ Unbound \in Sequence
    /\ Unbound.token = 0 /\ Unbound.committed = 0 /\ Unbound.inFlight = FALSE
  BY DecodeBatchAssumption DEF Unbound, Sequence, Data, Tokens, Slots

\* The empty table (fg_decode_batch_table_init).
LEMMA InitHost == Init => HostInv /\ OwnerInv
  <1> SUFFICES ASSUME Init PROVE HostInv /\ OwnerInv
    OBVIOUS
  <1> USE DecodeBatchAssumption
  <1>2. TableOK /\ now \in 0..MaxNow
    BY UnboundOK DEF Init, TableOK
  <1>3. StepOK
    BY DEF Init, Idle, StepOK
  <1>4. Bound = {} /\ ~step.active
    BY DEF Init, Bound, Idle
  <1>5. SlotsDisjoint /\ FrontierOK /\ OutcomeIsOwn
    BY <1>4 DEF SlotsDisjoint, FrontierOK, OutcomeIsOwn
  <1>6. InFlightIsScheduled /\ StepHolds
    BY <1>4 DEF InFlightIsScheduled, StepHolds
  <1>7. OwnerInv
    BY <1>4 DEF Init, OwnerInv, OwnerState, Tokens, NoCheckpoint
  <1> QED
    BY <1>2, <1>3, <1>5, <1>6, <1>7 DEF HostInv

\* In a step that leaves the open batch and the sequences it holds alone, the step
\* still holds them.
LEMMA StepUndisturbed ==
    ASSUME HostInv, UNCHANGED step, TableOK',
           step.active => \A k \in 1..Len(step.batch) :
               /\ step.batch[k].index \in Bound'
               /\ sequences'[step.batch[k].index] = sequences[step.batch[k].index],
           \A i \in Bound' : sequences'[i].inFlight <=>
               i \in Bound /\ sequences[i].inFlight /\ step.active
    PROVE  StepOK' /\ InFlightIsScheduled' /\ StepHolds'
  <1> USE DEF HostInv
  <1>1. StepOK'
    BY DEF StepOK
  <1>2. StepHolds'
    BY ZenonT(60) DEF StepHolds, EntryHolds
  <1>3. DOMAIN step.batch = 1..Len(step.batch)
    BY DEF StepOK
  <1>4. InFlightIsScheduled'
    <2>1. ASSUME NEW i \in Bound'
          PROVE  sequences'[i].inFlight <=> step.active /\ InBatch(step.batch, i)
      <3>1. CASE i \in Bound
        BY <2>1, <3>1 DEF InFlightIsScheduled
      <3>2. CASE i \notin Bound
        BY <2>1, <3>2, ZenonT(60) DEF InBatch, StepHolds, EntryHolds
      <3> QED
        BY <3>1, <3>2
    <2>2. step.active => \A k \in DOMAIN step.batch :
            /\ step.batch[k].index \in Bound'
            /\ sequences'[step.batch[k].index].id = step.batch[k].id
      BY <1>3 DEF InFlightIsScheduled
    <2> QED
      BY <2>1, <2>2 DEF InFlightIsScheduled, InBatch
  <1> QED
    BY <1>1, <1>2, <1>4

\* A bound entry is a typed entry of the array.
LEMMA BoundFacts ==
    ASSUME HostInv
    PROVE  /\ Bound \subseteq Indices
           /\ \A i \in Bound : /\ sequences[i] \in Sequence
                               /\ sequences[i].slot \in Slots
                               /\ sequences[i].committed \in Tokens
                               /\ ~step.active => ~sequences[i].inFlight
  <1>1. Bound \subseteq Indices
    BY DecodeBatchAssumption DEF HostInv, TableOK, Bound, Indices
  <1>2. \A i \in Bound : sequences[i] \in Sequence
    BY <1>1 DEF HostInv, TableOK
  <1>3. \A i \in Bound : ~step.active => ~sequences[i].inFlight
    BY DEF HostInv, InFlightIsScheduled
  <1> QED
    BY <1>1, <1>2, <1>3 DEF Sequence

\* What an open step says of its k-th sequence.
LEMMA EntryFacts ==
    ASSUME HostInv, step.active, NEW k \in 1..Len(step.batch)
    PROVE  /\ step.batch[k].index \in Bound
           /\ step.batch[k].slot = sequences[step.batch[k].index].slot
           /\ step.batch[k].id = sequences[step.batch[k].index].id
           /\ step.batch[k].token = sequences[step.batch[k].index].token
  BY DEF HostInv, StepHolds, EntryHolds

\* The snapshot of the k-th sequence is that sequence but for the marks.
LEMMA SnapFacts ==
    ASSUME HostInv, step.active, NEW k \in 1..Len(step.batch)
    PROVE  LET q == sequences[step.batch[k].index]
               n == step.snaps[k]
           IN  /\ q \in Sequence /\ n \in Sequence
               /\ n.id = q.id /\ n.slot = q.slot /\ n.token = q.token /\ n.gen = q.gen
               /\ n.committed = q.committed /\ n.data = q.data /\ n.since = q.since
               /\ n.committed < MaxTokens /\ n.gen < MaxTokens
  <1> DEFINE q == sequences[step.batch[k].index]
             n == step.snaps[k]
  <1>1. q \in Sequence
    BY EntryFacts, DecodeBatchAssumption DEF HostInv, TableOK, Bound, Indices
  <1>2. n = [q EXCEPT !.ready = TRUE, !.inFlight = FALSE] /\ q.committed < MaxTokens
        /\ q.gen < MaxTokens
    BY DEF HostInv, StepHolds, EntryHolds
  <1> HIDE DEF q, n
  <1>3. /\ n \in Sequence
        /\ n.id = q.id /\ n.slot = q.slot /\ n.token = q.token /\ n.gen = q.gen
        /\ n.committed = q.committed /\ n.data = q.data /\ n.since = q.since
    BY <1>1, <1>2 DEF Sequence
  <1> QED
    BY <1>1, <1>2, <1>3 DEF q, n

\* Binding (fg_decode_batch_sequence_enter).
LEMMA EnterHost ==
    ASSUME HostInv, NEW id \in Seqs, NEW s \in Slots, SequenceEnter(id, s)
    PROVE  HostInv'
  <1> USE DecodeBatchAssumption DEF HostInv
  <1> DEFINE q == [Unbound EXCEPT !.id = id, !.slot = s, !.data = [of |-> id, at |-> 0]]
  <1>1. /\ q \in Sequence
        /\ q.id = id /\ q.slot = s /\ q.data = [of |-> id, at |-> 0]
        /\ q.token = 0 /\ q.committed = 0 /\ q.inFlight = FALSE
    <2>1. [of |-> id, at |-> 0] \in Data
      BY DEF Data, Tokens
    <2> QED
      BY <2>1, UnboundOK DEF Sequence
  <1> HIDE DEF q
  <1>2. /\ count \in Indices /\ count' = count + 1 /\ count \notin Bound
        /\ Bound' = Bound \cup {count}
        /\ sequences' = [sequences EXCEPT ![count] = q]
        /\ now' = now /\ step' = step
    BY DEF SequenceEnter, TableOK, Indices, Bound, q
  <1>3. sequences'[count] = q /\ \A i \in Bound : sequences'[i] = sequences[i] /\ i \in Indices
    BY <1>2 DEF TableOK, Indices, Bound
  <1>4. TableOK'
    BY <1>1, <1>2 DEF TableOK, Indices
  <1>5. SlotsDisjoint'
    <2>1. \A i \in Bound : sequences[i].id # id /\ sequences[i].slot # s
      BY DEF SequenceEnter, BoundIndex, SlotUsed
    <2> QED
      BY <1>1, <1>2, <1>3, <2>1 DEF SlotsDisjoint
  <1>6. FrontierOK' /\ OutcomeIsOwn'
    BY <1>1, <1>2, <1>3 DEF FrontierOK, OutcomeIsOwn
  <1>7. StepOK' /\ InFlightIsScheduled' /\ StepHolds'
    <2>1. step.active => \A k \in 1..Len(step.batch) :
               /\ step.batch[k].index \in Bound'
               /\ sequences'[step.batch[k].index] = sequences[step.batch[k].index]
      BY <1>2, <1>3 DEF StepHolds, EntryHolds
    <2>2. \A i \in Bound' : sequences'[i].inFlight <=>
               i \in Bound /\ sequences[i].inFlight /\ step.active
      BY <1>1, <1>2, <1>3 DEF InFlightIsScheduled
    <2> QED
      BY <1>2, <1>4, <2>1, <2>2, StepUndisturbed
  <1> QED
    BY <1>2, <1>4, <1>5, <1>6, <1>7

\* A new namespace is no one else's, so its reset disturbs no other owner slot.
LEMMA EnterOwner ==
    ASSUME HostInv, OwnerInv, NEW id \in Seqs, NEW s \in Slots, SequenceEnter(id, s)
    PROVE  OwnerInv'
  <1> USE DecodeBatchAssumption DEF HostInv
  <1>1. /\ count \in Indices /\ count \notin Bound
        /\ Bound' = Bound \cup {count}
        /\ step' = step
        /\ owner' = [owner EXCEPT ![s] = [tokens |-> 0, checkpoint |-> NoCheckpoint]]
        /\ \A i \in Bound : i \in Indices /\ sequences[i].slot # s
    BY DEF SequenceEnter, TableOK, Indices, Bound, SlotUsed
  <1>2. /\ sequences'[count].slot = s /\ sequences'[count].committed = 0
        /\ \A i \in Bound : sequences'[i] = sequences[i]
    <2> DEFINE q == [Unbound EXCEPT !.id = id, !.slot = s, !.data = [of |-> id, at |-> 0]]
    <2>1. q.slot = s /\ q.committed = 0
      BY UnboundOK DEF Sequence
    <2>2. sequences' = [sequences EXCEPT ![count] = q]
      BY DEF SequenceEnter
    <2> HIDE DEF q
    <2> QED
      BY <1>1, <2>1, <2>2 DEF TableOK
  <1>3. owner' \in [Slots -> OwnerState]
    BY <1>1 DEF OwnerInv, OwnerState, Tokens
  <1>4. \A i \in Bound : sequences[i].slot \in Slots
    BY <1>1 DEF TableOK, Sequence
  <1>5. \A i \in Bound' : ~sequences'[i].inFlight =>
           owner'[sequences'[i].slot] = [tokens |-> sequences'[i].committed,
                                         checkpoint |-> NoCheckpoint]
    BY <1>1, <1>2, <1>4 DEF OwnerInv
  <1>6. step.active => \A k \in 1..Len(step.batch) :
           owner'[step.batch[k].slot] = owner[step.batch[k].slot]
    <2> SUFFICES ASSUME step.active, NEW k \in 1..Len(step.batch)
                 PROVE  owner'[step.batch[k].slot] = owner[step.batch[k].slot]
      OBVIOUS
    <2>1. step.batch[k].slot \in Slots \ {s}
      BY <1>1, <1>4, EntryFacts
    <2> QED
      BY <1>1, <2>1 DEF OwnerInv
  <1> QED
    BY <1>1, <1>3, <1>5, <1>6, SMTT(30) DEF OwnerInv

\* Removal between steps (fg_decode_batch_sequence_leave): the last entry moves into
\* the hole, so the bound entries are the same sequences but the one that left.
LEMMA LeaveInv ==
    ASSUME HostInv, ~LeaveMidStep, NEW id \in Seqs, SequenceLeave(id)
    PROVE  HostInv' /\ (OwnerInv => OwnerInv')
  <1> USE DecodeBatchAssumption DEF HostInv
  <1>1. PICK i \in BoundIndex(id) :
          sequences' = IF i + 1 < count
                       THEN [sequences EXCEPT ![i] = sequences[count - 1]]
                       ELSE sequences
    BY DEF SequenceLeave
  <1>2. /\ ~step.active /\ step' = step /\ owner' = owner /\ now' = now
        /\ i \in Bound /\ count' = count - 1
    BY DEF SequenceLeave, BoundIndex
  <1>3. /\ count' \in 0..SequenceMax /\ i \in Indices /\ count - 1 \in Bound
        /\ count - 1 \in Indices /\ Bound' \subseteq Bound /\ Bound \subseteq Indices
        /\ count - 1 \notin Bound'
    BY <1>2 DEF TableOK, Bound, Indices
  <1>4. TableOK'
    BY <1>1, <1>2, <1>3 DEF TableOK
  <1> DEFINE from(j) == IF j = i THEN count - 1 ELSE j
  <1>5. \A j \in Bound' : from(j) \in Bound /\ sequences'[j] = sequences[from(j)]
    <2> TAKE j \in Bound'
    <2>1. CASE i + 1 < count
      BY <1>1, <1>3, <2>1 DEF TableOK
    <2>2. CASE ~(i + 1 < count)
      <3>1. i = count - 1
        BY <1>2, <1>3, <2>2 DEF TableOK, Bound
      <3> QED
        BY <1>1, <1>3, <2>2, <3>1 DEF TableOK
    <2> QED
      BY <2>1, <2>2
  <1>6. \A j, l \in Bound' : j # l => from(j) # from(l)
    BY <1>3
  <1> HIDE DEF from
  <1>7. SlotsDisjoint'
    BY <1>5, <1>6 DEF SlotsDisjoint
  <1>8. FrontierOK' /\ OutcomeIsOwn'
    BY <1>5 DEF FrontierOK, OutcomeIsOwn
  <1>9. StepOK' /\ InFlightIsScheduled' /\ StepHolds'
    <2>1. \A j \in Bound' : ~sequences'[j].inFlight
      BY <1>2, <1>5 DEF InFlightIsScheduled
    <2> QED
      BY <1>2, <1>4, <2>1, StepUndisturbed
  <1>10. OwnerInv => OwnerInv'
    BY <1>2, <1>5 DEF OwnerInv
  <1> QED
    BY <1>2, <1>4, <1>7, <1>8, <1>9, <1>10

\* Marking a sequence ready (fg_decode_batch_sequence_ready).
LEMMA ReadyInv ==
    ASSUME HostInv, NEW id \in Seqs, SequenceReady(id)
    PROVE  HostInv' /\ (OwnerInv => OwnerInv')
  <1> USE DecodeBatchAssumption DEF HostInv
  <1>1. PICK i \in BoundIndex(id), t \in {now, now + 1} :
          /\ ~sequences[i].inFlight
          /\ now' = t
          /\ sequences' = [sequences EXCEPT ![i].ready = TRUE, ![i].since = t]
    BY DEF SequenceReady
  <1>2. /\ step' = step /\ owner' = owner /\ count' = count /\ Bound' = Bound
        /\ i \in Bound /\ i \in Indices /\ t \in 0..MaxNow /\ Bound \subseteq Indices
    BY DEF SequenceReady, BoundIndex, Bound, TableOK, Indices
  <1>3. /\ sequences' \in [Indices -> Sequence]
        /\ \A j \in Indices : j # i => sequences'[j] = sequences[j]
        /\ sequences'[i].id = sequences[i].id /\ sequences'[i].slot = sequences[i].slot
        /\ sequences'[i].token = sequences[i].token
        /\ sequences'[i].committed = sequences[i].committed
        /\ sequences'[i].data = sequences[i].data
        /\ sequences'[i].inFlight = sequences[i].inFlight
    BY <1>1, <1>2, ZenonT(60) DEF TableOK, Sequence
  <1>4. TableOK' /\ now' \in 0..MaxNow
    BY <1>1, <1>2, <1>3 DEF TableOK
  <1>5. SlotsDisjoint' /\ FrontierOK' /\ OutcomeIsOwn'
    BY <1>2, <1>3 DEF SlotsDisjoint, FrontierOK, OutcomeIsOwn
  <1>6. StepOK' /\ InFlightIsScheduled' /\ StepHolds'
    <2>1. step.active => \A k \in 1..Len(step.batch) : step.batch[k].index # i
      BY <1>1, <1>2 DEF InFlightIsScheduled, InBatch
    <2>2. step.active => \A k \in 1..Len(step.batch) :
               /\ step.batch[k].index \in Bound'
               /\ sequences'[step.batch[k].index] = sequences[step.batch[k].index]
      BY <1>2, <1>3, <2>1 DEF StepHolds, EntryHolds
    <2>3. \A j \in Bound' : sequences'[j].inFlight <=>
               j \in Bound /\ sequences[j].inFlight /\ step.active
      BY <1>2, <1>3 DEF InFlightIsScheduled
    <2> QED
      BY <1>2, <1>4, <2>2, <2>3, StepUndisturbed
  <1>7. OwnerInv => OwnerInv'
    BY <1>2, <1>3, SMTT(30) DEF OwnerInv
  <1> QED
    BY <1>4, <1>5, <1>6, <1>7

\* A prefill or an external restore (fg_decode_batch_sequence_frontier).
LEMMA FrontierInv ==
    ASSUME HostInv, NEW id \in Seqs, NEW n \in 1..MaxTokens, SequenceFrontier(id, n)
    PROVE  HostInv' /\ (OwnerInv => OwnerInv')
  <1> USE DecodeBatchAssumption DEF HostInv
  <1> DEFINE d == [of |-> id, at |-> n]
  <1>1. PICK i \in BoundIndex(id) :
          /\ ~sequences[i].inFlight
          /\ sequences' = [sequences EXCEPT ![i].committed = n, ![i].token = n,
                                            ![i].data = d]
          /\ owner' = [owner EXCEPT ![sequences[i].slot] =
                        [tokens |-> n, checkpoint |-> NoCheckpoint]]
    BY DEF SequenceFrontier
  <1>2. /\ step' = step /\ now' = now /\ count' = count /\ Bound' = Bound
        /\ i \in Bound /\ i \in Indices /\ Bound \subseteq Indices
        /\ sequences[i].id = id
    BY DEF SequenceFrontier, BoundIndex, Bound, TableOK, Indices
  <1>3. n \in Tokens /\ d \in Data
    BY DEF Data, Tokens
  <1>4. /\ sequences' \in [Indices -> Sequence]
        /\ \A j \in Indices : j # i => sequences'[j] = sequences[j]
        /\ sequences'[i].id = id /\ sequences'[i].slot = sequences[i].slot
        /\ sequences'[i].token = n /\ sequences'[i].committed = n
        /\ sequences'[i].data = d
        /\ sequences'[i].inFlight = sequences[i].inFlight
    <2> DEFINE q == [sequences[i] EXCEPT !.committed = n, !.token = n, !.data = d]
    <2>1. sequences' = [sequences EXCEPT ![i] = q]
      BY <1>1, <1>2 DEF TableOK
    <2> HIDE DEF d
    <2>2. sequences[i] \in Sequence
      BY <1>2 DEF TableOK
    <2>3. /\ q \in Sequence
          /\ q.id = sequences[i].id /\ q.slot = sequences[i].slot
          /\ q.token = n /\ q.committed = n /\ q.data = d
          /\ q.inFlight = sequences[i].inFlight
      BY <1>3, <2>2 DEF Sequence
    <2> HIDE DEF q
    <2> QED
      BY <1>2, <2>1, <2>3 DEF TableOK
  <1>5. TableOK' /\ now' \in 0..MaxNow
    BY <1>2, <1>4 DEF TableOK
  <1>6. SlotsDisjoint' /\ FrontierOK' /\ OutcomeIsOwn'
    BY <1>2, <1>4 DEF SlotsDisjoint, FrontierOK, OutcomeIsOwn
  <1>7. step.active => \A k \in 1..Len(step.batch) :
          /\ step.batch[k].index # i
          /\ step.batch[k].index \in Bound
          /\ step.batch[k].slot = sequences[step.batch[k].index].slot
    BY <1>1, <1>2 DEF InFlightIsScheduled, InBatch, StepHolds, EntryHolds
  <1>8. StepOK' /\ InFlightIsScheduled' /\ StepHolds'
    <2>1. step.active => \A k \in 1..Len(step.batch) :
               /\ step.batch[k].index \in Bound'
               /\ sequences'[step.batch[k].index] = sequences[step.batch[k].index]
      BY <1>2, <1>4, <1>7
    <2>2. \A j \in Bound' : sequences'[j].inFlight <=>
               j \in Bound /\ sequences[j].inFlight /\ step.active
      BY <1>2, <1>4 DEF InFlightIsScheduled
    <2> QED
      BY <1>2, <1>5, <2>1, <2>2, StepUndisturbed
  <1>9. ASSUME OwnerInv PROVE OwnerInv'
    <2>1. \A j \in Bound : /\ sequences[j].slot \in Slots
                           /\ j # i => sequences[j].slot # sequences[i].slot
      BY <1>2 DEF TableOK, Sequence, SlotsDisjoint
    <2>2. owner' \in [Slots -> OwnerState]
      BY <1>1, <1>3, <1>9 DEF OwnerInv, OwnerState
    <2>3. \A j \in Bound' : ~sequences'[j].inFlight =>
             owner'[sequences'[j].slot] = [tokens |-> sequences'[j].committed,
                                           checkpoint |-> NoCheckpoint]
      BY <1>1, <1>2, <1>4, <1>9, <2>1 DEF OwnerInv
    <2>4. step.active => \A k \in 1..Len(step.batch) :
             owner'[step.batch[k].slot] = owner[step.batch[k].slot]
      BY <1>1, <1>2, <1>7, <1>9, <2>1 DEF OwnerInv
    <2> QED
      BY <1>2, <1>9, <2>2, <2>3, <2>4 DEF OwnerInv
  <1> QED
    BY <1>5, <1>6, <1>8, <1>9
-----------------------------------------------------------------------------
(* One ring step. *)

\* The two marks of a scheduled sequence change nothing else of it, and clearing them
\* gives the snapshot back.
LEMMA Marked ==
    ASSUME NEW q \in Sequence, q.ready = TRUE, q.inFlight = FALSE,
           NEW r, r = [q EXCEPT !.ready = FALSE, !.inFlight = TRUE]
    PROVE  /\ r \in Sequence
           /\ r.id = q.id /\ r.slot = q.slot /\ r.token = q.token /\ r.gen = q.gen
           /\ r.committed = q.committed /\ r.data = q.data /\ r.since = q.since
           /\ r.inFlight = TRUE
           /\ q = [r EXCEPT !.ready = TRUE, !.inFlight = FALSE]
  BY DEF Sequence

\* A function on 1..n is a sequence of length n.
LEMMA FunIsSeq ==
    ASSUME NEW S, NEW n \in Nat, NEW f \in [1..n -> S]
    PROVE  f \in Seq(S) /\ Len(f) = n
  OBVIOUS

\* The schedule is a sequence of Limit entries, each a copy of its candidate's fields.
LEMMA ScheduleSeq ==
    ASSUME HostInv, Candidates # {}
    PROVE  /\ Schedule \in Seq(Entry) /\ Len(Schedule) = Limit /\ Limit \in 1..Depth
           /\ \A k \in 1..Limit :
                /\ Chosen(k) \in Candidates
                /\ Schedule[k].index = Chosen(k)
                /\ Schedule[k].slot = sequences[Chosen(k)].slot
                /\ Schedule[k].token = sequences[Chosen(k)].token
                /\ Schedule[k].id = sequences[Chosen(k)].id
           /\ \A k, l \in 1..Limit : k # l => Chosen(k) # Chosen(l)
           /\ \A i \in Candidates : i \in Bound /\ i \in Indices /\ sequences[i] \in Sequence
  <1> USE DecodeBatchAssumption DEF HostInv
  <1>1. /\ Limit \in 1..Depth
        /\ \A k \in 1..Limit : Chosen(k) \in Candidates
        /\ \A k, l \in 1..Limit : k # l => Chosen(k) # Chosen(l)
    BY ScheduleIs
  <1>2. \A i \in Candidates : i \in Bound /\ i \in Indices /\ sequences[i] \in Sequence
    BY CandidatesFinite DEF Candidates, TableOK
  <1>3. \A k \in 1..Limit :
          /\ Schedule[k].index = Chosen(k)
          /\ Schedule[k].slot = sequences[Chosen(k)].slot
          /\ Schedule[k].token = sequences[Chosen(k)].token
          /\ Schedule[k].id = sequences[Chosen(k)].id
          /\ Schedule[k] \in Entry
    <2> TAKE k \in 1..Limit
    <2>1. /\ Schedule[k].index = Chosen(k)
          /\ Schedule[k].slot = sequences[Chosen(k)].slot
          /\ Schedule[k].token = sequences[Chosen(k)].token
          /\ Schedule[k].id = sequences[Chosen(k)].id
          /\ Schedule[k] = [index |-> Schedule[k].index, slot |-> Schedule[k].slot,
                            token |-> Schedule[k].token, id |-> Schedule[k].id]
      BY DEF Schedule
    <2>2. /\ Chosen(k) \in Indices /\ sequences[Chosen(k)].slot \in Slots
          /\ sequences[Chosen(k)].token \in Tokens /\ sequences[Chosen(k)].id \in Seqs
      BY <1>1, <1>2 DEF Sequence, FrontierOK
    <2> QED
      BY <2>1, <2>2 DEF Entry
  <1>4. Schedule \in Seq(Entry) /\ Len(Schedule) = Limit
    <2>1. Schedule \in [1..Limit -> Entry]
      BY <1>3 DEF Schedule
    <2>2. Limit \in Nat
      BY <1>1
    <2> QED
      BY <2>1, <2>2, FunIsSeq
  <1> QED
    BY <1>1, <1>2, <1>3, <1>4

\* What StepBegin builds.
LEMMA BeginBuilds ==
    ASSUME HostInv, StepBegin
    PROVE  /\ StepOK' /\ step'.active /\ Len(step'.batch) = Limit
           /\ Limit \in 1..Depth
           /\ \A k \in 1..Limit :
                /\ Chosen(k) \in Candidates
                /\ step'.batch[k].index = Chosen(k)
                /\ step'.batch[k].slot = sequences[Chosen(k)].slot
                /\ step'.batch[k].token = sequences[Chosen(k)].token
                /\ step'.batch[k].id = sequences[Chosen(k)].id
                /\ step'.snaps[k] = sequences[Chosen(k)]
                /\ step'.outcomes[k] = FALSE
           /\ \A k, l \in 1..Limit : k # l => Chosen(k) # Chosen(l)
  <1> USE DecodeBatchAssumption DEF HostInv
  <1>1. /\ step'.active = TRUE
        /\ step'.batch = Schedule
        /\ step'.snaps = [k \in 1..Limit |-> sequences[Schedule[k].index]]
        /\ step'.outcomes = [k \in 1..Limit |-> FALSE]
        /\ step' = [active |-> TRUE, batch |-> step'.batch, snaps |-> step'.snaps,
                    outcomes |-> step'.outcomes]
    BY DEF StepBegin
  <1>2. /\ Schedule \in Seq(Entry) /\ Len(Schedule) = Limit /\ Limit \in 1..Depth
        /\ \A k \in 1..Limit :
             /\ Chosen(k) \in Candidates
             /\ Schedule[k].index = Chosen(k)
             /\ Schedule[k].slot = sequences[Chosen(k)].slot
             /\ Schedule[k].token = sequences[Chosen(k)].token
             /\ Schedule[k].id = sequences[Chosen(k)].id
        /\ \A k, l \in 1..Limit : k # l => Chosen(k) # Chosen(l)
        /\ \A i \in Candidates : sequences[i] \in Sequence
    BY ScheduleSeq DEF StepBegin
  <1>3. \A k \in 1..Limit : step'.snaps[k] = sequences[Chosen(k)]
    BY <1>1, <1>2
  <1>4. step'.snaps \in Seq(Sequence) /\ Len(step'.snaps) = Limit
    <2>1. step'.snaps \in [1..Limit -> Sequence]
      BY <1>1, <1>2, <1>3
    <2> QED
      BY <1>2, <2>1
  <1>5. step'.outcomes \in Seq(BOOLEAN) /\ Len(step'.outcomes) = Limit
        /\ \A k \in 1..Limit : step'.outcomes[k] = FALSE
    <2>1. step'.outcomes \in [1..Limit -> BOOLEAN]
      BY <1>1
    <2>2. \A k \in 1..Limit : step'.outcomes[k] = FALSE
      BY <1>1, Zenon
    <2>3. Limit \in Nat
      BY <1>2
    <2> QED
      BY <2>1, <2>2, <2>3, FunIsSeq
  <1>6. StepOK'
    <2>1. step' \in [active : BOOLEAN, batch : Seq(Entry), snaps : Seq(Sequence),
                     outcomes : Seq(BOOLEAN)]
      <3> DEFINE b == step'.batch
                 n == step'.snaps
                 o == step'.outcomes
      <3>1. step' = [active |-> TRUE, batch |-> b, snaps |-> n, outcomes |-> o]
        BY <1>1
      <3>2. b \in Seq(Entry) /\ n \in Seq(Sequence) /\ o \in Seq(BOOLEAN)
        BY <1>1, <1>2, <1>4, <1>5
      <3> HIDE DEF b, n, o
      <3> QED
        BY <3>1, <3>2
    <2> QED
      BY <1>1, <1>2, <1>4, <1>5, <2>1 DEF StepOK
  <1> QED
    BY <1>1, <1>2, <1>3, <1>5, <1>6

\* A step action that rewrites entries in place keeps the table's invariants when every
\* bound entry keeps its identity, its slot and an own outcome.
LEMMA RewriteInPlace ==
    ASSUME HostInv, UNCHANGED <<count, now>>,
           sequences' \in [Indices -> Sequence],
           \A i \in Bound :
               /\ sequences'[i].id = sequences[i].id
               /\ sequences'[i].slot = sequences[i].slot
               /\ sequences'[i].token = sequences'[i].committed
               /\ sequences'[i].data = [of |-> sequences[i].id, at |-> sequences'[i].token]
    PROVE  /\ TableOK' /\ now' \in 0..MaxNow
           /\ SlotsDisjoint' /\ FrontierOK' /\ OutcomeIsOwn'
           /\ Bound' = Bound /\ Bound \subseteq Indices
  <1>1. Bound' = Bound /\ Bound \subseteq Indices
    BY DecodeBatchAssumption DEF Bound, HostInv, TableOK, Indices
  <1>2. TableOK' /\ now' \in 0..MaxNow
    BY DEF HostInv, TableOK
  <1>3. SlotsDisjoint'
    <2> SUFFICES ASSUME NEW i \in Bound, NEW j \in Bound, i # j
                 PROVE  /\ sequences'[i].id # sequences'[j].id
                        /\ sequences'[i].slot # sequences'[j].slot
      BY <1>1 DEF SlotsDisjoint
    <2>1. SlotsDisjoint
      BY DEF HostInv
    <2>2. sequences[i].id # sequences[j].id /\ sequences[i].slot # sequences[j].slot
      BY <2>1 DEF SlotsDisjoint
    <2> QED
      BY <2>2
  <1>4. FrontierOK'
    BY <1>1 DEF HostInv, FrontierOK
  <1>5. OutcomeIsOwn'
    BY <1>1 DEF OutcomeIsOwn
  <1> QED
    BY <1>1, <1>2, <1>3, <1>4, <1>5

\* Opening a step (fg_decode_batch_step_begin): no step was open, so nothing was in
\* flight, and what is in flight afterwards is what was scheduled.
LEMMA BeginHost ==
    ASSUME HostInv, StepBegin
    PROVE  HostInv'
  <1> USE DecodeBatchAssumption DEF HostInv
  <1>1. /\ StepOK' /\ step'.active /\ Len(step'.batch) = Limit /\ Limit \in 1..Depth
        /\ \A k \in 1..Limit :
             /\ Chosen(k) \in Candidates
             /\ step'.batch[k].index = Chosen(k)
             /\ step'.batch[k].slot = sequences[Chosen(k)].slot
             /\ step'.batch[k].token = sequences[Chosen(k)].token
             /\ step'.batch[k].id = sequences[Chosen(k)].id
             /\ step'.snaps[k] = sequences[Chosen(k)]
        /\ \A k, l \in 1..Limit : k # l => Chosen(k) # Chosen(l)
    BY BeginBuilds
  <1>2. /\ \A i \in Candidates : /\ i \in Bound /\ i \in Indices
                                 /\ sequences[i] \in Sequence
                                 /\ sequences[i].ready /\ ~sequences[i].inFlight
        /\ \A i \in Bound : i \in Indices /\ sequences[i] \in Sequence /\ ~sequences[i].inFlight
        /\ \A i \in Bound : sequences[i].committed < MaxTokens /\ sequences[i].gen < MaxTokens
    <2>1. \A i \in Bound : i \in Indices /\ sequences[i] \in Sequence
      BY DEF TableOK, Bound, Indices
    <2>2. \A i \in Bound : ~sequences[i].inFlight
      BY DEF StepBegin, InFlightIsScheduled
    <2>3. \A i \in Bound : sequences[i].committed < MaxTokens /\ sequences[i].gen < MaxTokens
      BY DEF StepBegin, Room
    <2>4. \A i \in Candidates : i \in Bound /\ sequences[i].ready
      BY DEF Candidates
    <2> QED
      BY <2>1, <2>2, <2>3, <2>4
  <1>3. /\ count' = count /\ now' = now
        /\ \A i \in Indices :
             sequences'[i] = IF InBatch(step'.batch, i)
                             THEN [sequences[i] EXCEPT !.ready = FALSE, !.inFlight = TRUE]
                             ELSE sequences[i]
        /\ DOMAIN sequences' = Indices
        /\ sequences' = [i \in Indices |-> sequences'[i]]
    BY DEF StepBegin
  <1>4. \A i : InBatch(step'.batch, i) <=> \E k \in 1..Limit : Chosen(k) = i
    BY <1>1 DEF InBatch
  <1>5. ASSUME NEW k \in 1..Limit
        PROVE  LET q == sequences[Chosen(k)]
                   r == sequences'[Chosen(k)]
               IN  /\ r \in Sequence
                   /\ r.id = q.id /\ r.slot = q.slot /\ r.token = q.token /\ r.gen = q.gen
                   /\ r.committed = q.committed /\ r.data = q.data /\ r.inFlight = TRUE
                   /\ q = [r EXCEPT !.ready = TRUE, !.inFlight = FALSE]
    <2>1. sequences'[Chosen(k)] =
            [sequences[Chosen(k)] EXCEPT !.ready = FALSE, !.inFlight = TRUE]
      BY <1>1, <1>2, <1>3, <1>4, <1>5
    <2>2. /\ sequences[Chosen(k)] \in Sequence /\ sequences[Chosen(k)].ready = TRUE
          /\ sequences[Chosen(k)].inFlight = FALSE
      BY <1>1, <1>2, <1>5 DEF Sequence
    <2> DEFINE q == sequences[Chosen(k)]
               r == sequences'[Chosen(k)]
    <2>3. /\ q \in Sequence /\ q.ready = TRUE /\ q.inFlight = FALSE
          /\ r = [q EXCEPT !.ready = FALSE, !.inFlight = TRUE]
      BY <2>1, <2>2
    <2> HIDE DEF q, r
    <2>4. /\ r \in Sequence
          /\ r.id = q.id /\ r.slot = q.slot /\ r.token = q.token /\ r.gen = q.gen
          /\ r.committed = q.committed /\ r.data = q.data /\ r.inFlight = TRUE
          /\ q = [r EXCEPT !.ready = TRUE, !.inFlight = FALSE]
      BY <2>3, Marked
    <2> QED
      BY <2>4 DEF q, r
  <1>6. ASSUME NEW i \in Indices, ~\E k \in 1..Limit : Chosen(k) = i
        PROVE  sequences'[i] = sequences[i] /\ sequences[i] \in Sequence
    BY <1>3, <1>4, <1>6 DEF TableOK
  <1>7. sequences' \in [Indices -> Sequence]
    <2>1. \A i \in Indices : sequences'[i] \in Sequence
      BY <1>5, <1>6
    <2> QED
      BY <1>3, <2>1
  <1>8. \A i \in Bound :
          /\ sequences'[i].id = sequences[i].id
          /\ sequences'[i].slot = sequences[i].slot
          /\ sequences'[i].token = sequences[i].token
          /\ sequences'[i].committed = sequences[i].committed
          /\ sequences'[i].data = sequences[i].data
          /\ sequences'[i].inFlight <=> \E k \in 1..Limit : Chosen(k) = i
    <2> TAKE i \in Bound
    <2>1. CASE \E k \in 1..Limit : Chosen(k) = i
      BY <1>5, <2>1
    <2>2. CASE ~\E k \in 1..Limit : Chosen(k) = i
      <3>1. sequences'[i] = sequences[i] /\ ~sequences[i].inFlight
        BY <1>2, <1>6, <2>2
      <3> QED
        BY <2>2, <3>1
    <2> QED
      BY <2>1, <2>2
  <1>9. /\ TableOK' /\ now' \in 0..MaxNow
        /\ SlotsDisjoint' /\ FrontierOK' /\ OutcomeIsOwn'
        /\ Bound' = Bound
    <2>1. \A i \in Bound :
               /\ sequences'[i].token = sequences'[i].committed
               /\ sequences'[i].data = [of |-> sequences[i].id, at |-> sequences'[i].token]
      BY <1>8 DEF FrontierOK, OutcomeIsOwn
    <2> QED
      BY <1>3, <1>7, <1>8, <2>1, RewriteInPlace
  <1>10. StepHolds'
    <2>1. \A k, l \in 1..Limit : k # l => step'.batch[k].index # step'.batch[l].index
      BY <1>1
    <2>2. ASSUME NEW k \in 1..Limit PROVE EntryHolds(k)'
      <3> DEFINE i == Chosen(k)
      <3>1. /\ step'.batch[k].index = i /\ step'.batch[k].slot = sequences[i].slot
            /\ step'.batch[k].token = sequences[i].token
            /\ step'.batch[k].id = sequences[i].id
            /\ step'.snaps[k] = sequences[i]
            /\ i \in Bound'
            /\ sequences[i].committed < MaxTokens /\ sequences[i].gen < MaxTokens
        BY <1>1, <1>2, <1>9
      <3>2. LET q == sequences[i]
                r == sequences'[i]
            IN  /\ r.id = q.id /\ r.slot = q.slot /\ r.token = q.token /\ r.gen = q.gen
                /\ r.committed = q.committed
                /\ q = [r EXCEPT !.ready = TRUE, !.inFlight = FALSE]
        BY <1>5
      <3> HIDE DEF i
      <3> QED
        BY <3>1, <3>2 DEF EntryHolds
    <2> QED
      BY <1>1, <2>1, <2>2 DEF StepHolds
  <1>11. InFlightIsScheduled'
    <2>1. DOMAIN step'.batch = 1..Limit
      BY <1>1 DEF StepOK
    <2>2. \A k \in 1..Limit : /\ step'.batch[k].index \in Bound'
                              /\ sequences'[step'.batch[k].index].id = step'.batch[k].id
      BY <1>1, <1>2, <1>8, <1>9
    <2>3. \A i \in Bound' : sequences'[i].inFlight <=> step'.active /\ InBatch(step'.batch, i)
      BY <1>1, <1>4, <1>8, <1>9
    <2> QED
      BY <2>1, <2>2, <2>3 DEF InFlightIsScheduled, InBatch
  <1> QED
    BY <1>1, <1>9, <1>10, <1>11

\* Every owner slot of the batch pins the frontier its sequence has
\* (the prepare hook); no other slot is touched.
LEMMA BeginOwner ==
    ASSUME HostInv, HostInv', OwnerInv, StepBegin
    PROVE  OwnerInv'
  <1> USE DecodeBatchAssumption
  <1>1. /\ step'.active /\ Len(step'.batch) = Limit /\ Limit \in 1..Depth
        /\ \A k \in 1..Limit :
             /\ Chosen(k) \in Candidates
             /\ step'.batch[k].index = Chosen(k)
             /\ step'.batch[k].slot = sequences[Chosen(k)].slot
             /\ step'.snaps[k] = sequences[Chosen(k)]
             /\ step'.outcomes[k] = FALSE
    BY BeginBuilds
  <1>2. /\ Bound' = Bound
        /\ \A i \in Candidates : i \in Bound
        /\ \A i \in Bound : /\ sequences[i].slot \in Slots
                            /\ sequences[i].committed \in Tokens
                            /\ ~sequences[i].inFlight
        /\ step'.batch = Schedule
    <2>2. Bound' = Bound /\ step'.batch = Schedule
      BY DEF StepBegin, Bound
    <2> QED
      BY <2>2, BoundFacts DEF StepBegin, Candidates
  <1>3. \A s : s \in BatchSlots(Schedule) <=>
                 \E k \in 1..Limit : sequences[Chosen(k)].slot = s
    BY <1>1, <1>2 DEF BatchSlots
  <1>4. \A s \in Slots : owner[s] \in OwnerState
    BY DEF OwnerInv
  <1>5. ASSUME NEW s \in Slots
        PROVE  /\ s \in BatchSlots(Schedule) =>
                    owner'[s].checkpoint = owner[s].tokens /\ owner'[s].tokens = owner[s].tokens
               /\ s \notin BatchSlots(Schedule) => owner'[s] = owner[s]
               /\ owner'[s] \in OwnerState
    <2>1. owner'[s] = IF s \in BatchSlots(Schedule)
                      THEN [owner[s] EXCEPT !.checkpoint = owner[s].tokens]
                      ELSE owner[s]
      BY DEF StepBegin, OnSlots, OwnerPrepare, OwnerInv
    <2> QED
      BY <1>4, <2>1 DEF OwnerState
  <1>6. owner' \in [Slots -> OwnerState]
    BY <1>5 DEF StepBegin, OnSlots
  <1>7. \A i \in Bound : /\ owner[sequences[i].slot].tokens = sequences[i].committed
                         /\ owner[sequences[i].slot] =
                              [tokens |-> sequences[i].committed, checkpoint |-> NoCheckpoint]
    BY <1>2 DEF OwnerInv
  <1>8. ASSUME NEW i \in Bound', ~sequences'[i].inFlight
        PROVE  owner'[sequences'[i].slot] = [tokens |-> sequences'[i].committed,
                                             checkpoint |-> NoCheckpoint]
    <2>1. \A k \in 1..Limit : Chosen(k) # i
      BY <1>1, <1>8 DEF HostInv, InFlightIsScheduled, InBatch
    <2>2. sequences[i].slot \notin BatchSlots(Schedule)
      BY <1>1, <1>2, <1>3, <2>1 DEF HostInv, SlotsDisjoint
    <2>3. sequences'[i] = sequences[i]
      <3>1. i \in Indices /\ ~InBatch(Schedule, i)
        BY <1>1, <1>2, <2>1, BoundFacts DEF InBatch
      <3> QED
        BY <3>1 DEF StepBegin
    <2> QED
      BY <1>2, <1>5, <1>7, <2>2, <2>3
  <1>9. ASSUME NEW k \in 1..Limit
        PROVE  /\ owner'[step'.batch[k].slot].checkpoint = step'.snaps[k].committed
               /\ owner'[step'.batch[k].slot].tokens = step'.snaps[k].committed
    <2> DEFINE i == Chosen(k)
               s == sequences[i].slot
    <2>1. /\ i \in Bound /\ s \in Slots /\ s \in BatchSlots(Schedule)
          /\ step'.batch[k].slot = s /\ step'.snaps[k].committed = sequences[i].committed
          /\ owner[s].tokens = sequences[i].committed
      BY <1>1, <1>2, <1>3, <1>7
    <2> HIDE DEF i, s
    <2> QED
      BY <1>5, <2>1
  <1> QED
    BY <1>1, <1>6, <1>8, <1>9 DEF OwnerInv

\* A refused begin changes nothing (the failed prepare of fg_decode_batch_step_begin).
LEMMA BeginFailsInv ==
    ASSUME HostInv, StepBeginFails
    PROVE  HostInv' /\ (OwnerInv => OwnerInv')
  <1> USE DecodeBatchAssumption DEF HostInv
  <1>1. /\ Len(Schedule) = Limit
        /\ \A k \in 1..Limit : Schedule[k].index \in Candidates
    BY ScheduleSeq DEF StepBeginFails
  <1>2. sequences' = sequences
    <2>1. ASSUME NEW i \in Indices PROVE sequences'[i] = sequences[i]
      <3>1. CASE InBatch(Schedule, i)
        <4>1. i \in Candidates /\ sequences[i] \in Sequence
          BY <1>1, <3>1, ScheduleSeq DEF InBatch, TableOK
        <4> DEFINE q == sequences[i]
        <4>2. q \in Sequence /\ q.ready = TRUE /\ q.inFlight = FALSE
          BY <4>1 DEF Candidates, Sequence
        <4>3. sequences'[i] = [q EXCEPT !.ready = TRUE, !.inFlight = FALSE]
          BY <3>1 DEF StepBeginFails
        <4> HIDE DEF q
        <4>4. [q EXCEPT !.ready = TRUE, !.inFlight = FALSE] = q
          BY <4>2 DEF Sequence
        <4> QED
          BY <4>3, <4>4 DEF q
      <3>2. CASE ~InBatch(Schedule, i)
        BY <3>2 DEF StepBeginFails
      <3> QED
        BY <3>1, <3>2
    <2> QED
      BY <2>1 DEF StepBeginFails, TableOK
  <1>3. /\ count' = count /\ now' = now /\ owner' = owner /\ Bound' = Bound
        /\ ~step.active /\ step' = Idle
    BY DEF StepBeginFails, Bound
  <1>4. StepOK' /\ ~step'.active
    BY <1>3 DEF StepOK, Idle
  <1>5. TableOK' /\ SlotsDisjoint' /\ FrontierOK' /\ OutcomeIsOwn'
    BY <1>2, <1>3 DEF TableOK, SlotsDisjoint, FrontierOK, OutcomeIsOwn
  <1>6. StepHolds' /\ InFlightIsScheduled'
    BY <1>2, <1>3, <1>4 DEF StepHolds, InFlightIsScheduled
  <1>7. OwnerInv => OwnerInv'
    BY <1>2, <1>3, <1>4 DEF OwnerInv
  <1> QED
    BY <1>3, <1>4, <1>5, <1>6, <1>7

\* The ring pass (each slot of a prefix runs one token) touches owners of the batch only.
LEMMA RingPassInv ==
    ASSUME HostInv, NEW reached \in 1..Depth, RingPass(reached)
    PROVE  HostInv' /\ (OwnerInv => OwnerInv')
  <1> USE DecodeBatchAssumption
  <1>1. UNCHANGED <<sequences, count, step, now>> /\ step.active
    BY DEF RingPass
  <1>2. HostInv'
    BY <1>1, ZenonT(60) DEF HostInv, TableOK, StepOK, SlotsDisjoint, FrontierOK, OutcomeIsOwn,
                InFlightIsScheduled, StepHolds, EntryHolds, Bound, InBatch
  <1>3. ASSUME OwnerInv PROVE OwnerInv'
    <2> DEFINE ran(s) == \E k \in 1..reached : step.batch[k].slot = s
    <2>1. ASSUME NEW s \in Slots
          PROVE  /\ ~ran(s) => owner'[s] = owner[s]
                 /\ ran(s) => owner'[s] = [owner[s] EXCEPT !.tokens = owner[s].tokens + 1]
      <3>1. owner'[s] = IF ran(s) THEN [owner[s] EXCEPT !.tokens = @ + 1] ELSE owner[s]
        BY DEF RingPass
      <3> HIDE DEF ran
      <3> QED
        BY <3>1
    <2>2. \A s \in Slots :
            /\ owner[s] \in OwnerState
            /\ owner[s].tokens \in Nat
      BY <1>3 DEF OwnerInv, OwnerState, Tokens
    <2>3. ASSUME NEW s \in Slots, ran(s)
          PROVE  /\ owner'[s].tokens = owner[s].tokens + 1
                 /\ owner'[s].checkpoint = owner[s].checkpoint
                 /\ owner[s].tokens + 1 \in Tokens => owner'[s] \in OwnerState
      <3> HIDE DEF ran
      <3> QED
        BY <2>1, <2>2, <2>3 DEF OwnerState
    <2>4. \A k \in 1..Len(step.batch) :
            /\ step.batch[k].slot \in Slots
            /\ owner[step.batch[k].slot].tokens = owner[step.batch[k].slot].checkpoint
            /\ owner[step.batch[k].slot].checkpoint = step.snaps[k].committed
            /\ step.snaps[k].committed < MaxTokens
            /\ ~step.outcomes[k]
      <3> TAKE k \in 1..Len(step.batch)
      <3>1. step.batch[k] \in Entry
        BY DEF HostInv, StepOK
      <3>2. step.batch[k].slot \in Slots
        BY <3>1 DEF Entry
      <3>3. /\ owner[step.batch[k].slot].tokens = owner[step.batch[k].slot].checkpoint
            /\ owner[step.batch[k].slot].checkpoint = step.snaps[k].committed
        BY <1>1, <1>3 DEF RingPass, OwnerInv
      <3>4. step.snaps[k].committed < MaxTokens
        BY <1>1, SnapFacts
      <3>5. ~step.outcomes[k]
        <4>1. step.outcomes[k] => owner[step.batch[k].slot].tokens =
                                   owner[step.batch[k].slot].checkpoint + 1
          BY <1>1, <1>3 DEF OwnerInv
        <4> QED
          BY <2>2, <3>2, <3>3, <4>1
      <3> QED
        BY <3>2, <3>3, <3>4, <3>5
    <2>5. reached \in 1..Len(step.batch)
      BY DEF RingPass, HostInv, StepOK
    <2>6. owner' \in [Slots -> OwnerState]
      <3>1. ASSUME NEW s \in Slots
            PROVE owner'[s] \in OwnerState
        <4>1. CASE ran(s)
          <5>1. owner[s].tokens + 1 \in Tokens
            <6>1. PICK k \in 1..Len(step.batch) : step.batch[k].slot = s
              BY <2>5, <4>1
            <6>2. owner[s].tokens < MaxTokens
              BY <2>4, <6>1
            <6> QED
              BY <2>2, <6>2 DEF Tokens
          <5> HIDE DEF ran
          <5> QED
            BY <2>3, <4>1, <5>1
        <4>2. CASE ~ran(s)
          <5> HIDE DEF ran
          <5> QED
            BY <2>1, <2>2, <4>2
        <4> QED
          BY <4>1, <4>2
      <3> QED
        BY <3>1 DEF RingPass
    <2>7. ASSUME NEW i \in Bound, ~sequences[i].inFlight
          PROVE  owner'[sequences[i].slot] = owner[sequences[i].slot]
      <3>1. ~ran(sequences[i].slot)
        <4> SUFFICES ASSUME NEW k \in 1..Len(step.batch),
                            step.batch[k].slot = sequences[i].slot
                     PROVE  FALSE
          BY <2>5
        <4>1. step.batch[k].index \in Bound /\ sequences[step.batch[k].index].slot = sequences[i].slot
          BY <1>1, EntryFacts
        <4>2. step.batch[k].index = i
          BY <2>7, <4>1 DEF HostInv, SlotsDisjoint
        <4> QED
          BY <1>1, <2>7, <4>2 DEF HostInv, InFlightIsScheduled, InBatch
      <3>2. sequences[i].slot \in Slots
        BY <2>7, BoundFacts
      <3> HIDE DEF ran
      <3> QED
        BY <2>1, <3>1, <3>2
    <2>8. ASSUME NEW k \in 1..Len(step.batch)
          PROVE  LET o == owner'[step.batch[k].slot]
                 IN  /\ o.checkpoint = step.snaps[k].committed
                     /\ o.tokens \in {o.checkpoint, o.checkpoint + 1}
      <3> DEFINE s == step.batch[k].slot
      <3>1. s \in Slots /\ owner[s].tokens = owner[s].checkpoint
            /\ owner[s].checkpoint = step.snaps[k].committed
        BY <2>4
      <3> HIDE DEF s, ran
      <3>2. owner'[s].checkpoint = step.snaps[k].committed
            /\ owner'[s].tokens \in {owner'[s].checkpoint, owner'[s].checkpoint + 1}
        <4>1. CASE ran(s)
          BY <2>3, <3>1, <4>1
        <4>2. CASE ~ran(s)
          BY <2>1, <3>1, <4>2
        <4> QED
          BY <4>1, <4>2
      <3> QED
        BY <3>2 DEF s
    <2>9. \A i \in Bound : ~sequences[i].inFlight =>
             owner'[sequences[i].slot] = [tokens |-> sequences[i].committed,
                                          checkpoint |-> NoCheckpoint]
      BY <1>3, <2>7 DEF OwnerInv
    <2> QED
      BY <1>1, <2>4, <2>6, <2>8, <2>9 DEF OwnerInv, Bound
  <1> QED
    BY <1>2, <1>3

\* Recording an outcome (fg_decode_batch_step_advance).
LEMMA AdvanceInv ==
    ASSUME HostInv, NEW k \in 1..Depth, StepAdvance(k)
    PROVE  HostInv' /\ (OwnerInv => OwnerInv')
  <1>1. /\ UNCHANGED <<sequences, count, owner, now>>
        /\ step.active /\ k \in 1..Len(step.batch)
        /\ step' = [step EXCEPT !.outcomes[k] = TRUE]
        /\ \A j \in 1..Len(step.batch) :
             owner[step.batch[j].slot].tokens = owner[step.batch[j].slot].checkpoint + 1
    BY DEF StepAdvance, HostInv, StepOK
  <1>2. /\ step'.active = step.active /\ step'.batch = step.batch /\ step'.snaps = step.snaps
        /\ StepOK'
    <2>1. step'.outcomes = [step.outcomes EXCEPT ![k] = TRUE]
          /\ step'.active = step.active /\ step'.batch = step.batch /\ step'.snaps = step.snaps
          /\ step' = [active |-> step.active, batch |-> step.batch, snaps |-> step.snaps,
                      outcomes |-> step'.outcomes]
      BY <1>1 DEF HostInv, StepOK
    <2>2. step'.outcomes \in Seq(BOOLEAN) /\ Len(step'.outcomes) = Len(step.outcomes)
      BY <1>1, <2>1 DEF HostInv, StepOK
    <2> QED
      BY <2>1, <2>2 DEF HostInv, StepOK
  <1>3. HostInv'
    <2>1. TableOK' /\ now' \in 0..MaxNow /\ Bound' = Bound
      BY <1>1 DEF HostInv, TableOK, Bound
    <2>2. SlotsDisjoint' /\ FrontierOK' /\ OutcomeIsOwn'
      BY <1>1, <2>1 DEF HostInv, SlotsDisjoint, FrontierOK, OutcomeIsOwn
    <2>3. InFlightIsScheduled'
      BY <1>1, <1>2, <2>1 DEF HostInv, InFlightIsScheduled, InBatch
    <2>4. ASSUME NEW j \in 1..Len(step.batch) PROVE EntryHolds(j)'
      <3>1. EntryHolds(j)
        BY <1>1 DEF HostInv, StepHolds
      <3> QED
        BY <1>1, <1>2, <2>1, <3>1 DEF EntryHolds
    <2>5. StepHolds'
      BY <1>1, <1>2, <2>4 DEF HostInv, StepHolds
    <2> QED
      BY <1>2, <2>1, <2>2, <2>3, <2>5 DEF HostInv
  <1>4. OwnerInv => OwnerInv'
    BY <1>1, <1>2 DEF OwnerInv, Bound
  <1> QED
    BY <1>3, <1>4
-----------------------------------------------------------------------------
(* Closing a step. *)

\* The index of a scheduled sequence names its place in the batch.
LEMMA SlotIndexIs ==
    ASSUME HostInv, step.active, NEW k \in 1..Len(step.batch)
    PROVE  /\ SlotIndex(step.batch[k].index) = k
           /\ InBatch(step.batch, step.batch[k].index)
           /\ step.batch[k].index \in Indices
           /\ step.batch[k].slot \in Slots
  <1>1. \A l \in 1..Len(step.batch) : step.batch[l].index = step.batch[k].index => l = k
    BY DEF HostInv, StepHolds
  <1>2. step.batch[k] \in Entry
    BY DEF HostInv, StepOK
  <1> QED
    BY <1>1, <1>2 DEF SlotIndex, InBatch, Entry

\* A bound sequence the step does not hold shares no slot with it.
LEMMA OffBatch ==
    ASSUME HostInv, step.active, NEW i \in Bound, ~InBatch(step.batch, i)
    PROVE  sequences[i].slot \notin BatchSlots(step.batch) /\ ~sequences[i].inFlight
  <1>1. ASSUME NEW k \in 1..Len(step.batch) PROVE step.batch[k].slot # sequences[i].slot
    <2>1. /\ step.batch[k].index \in Bound /\ step.batch[k].index # i
          /\ step.batch[k].slot = sequences[step.batch[k].index].slot
      BY EntryFacts DEF InBatch
    <2> QED
      BY <2>1 DEF HostInv, SlotsDisjoint
  <1>2. ~sequences[i].inFlight
    BY DEF HostInv, InFlightIsScheduled
  <1> QED
    BY <1>1, <1>2 DEF BatchSlots

\* Two places of a batch are two slots.
LEMMA BatchSlotsDistinct ==
    ASSUME HostInv, step.active, NEW k \in 1..Len(step.batch)
    PROVE  step.batch[k].slot \in BatchSlots(step.batch) /\ step.batch[k].slot \in Slots
  BY SlotIndexIs DEF BatchSlots

\* What a close must do to the table and to the owners for the invariant to hold after it.
LEMMA CloseHost ==
    ASSUME HostInv, step.active, UNCHANGED <<count, now>>, step' = Idle,
           sequences' \in [Indices -> Sequence],
           \A i \in Bound : ~InBatch(step.batch, i) => sequences'[i] = sequences[i],
           \A k \in 1..Len(step.batch) :
               LET q == sequences[step.batch[k].index]
                   r == sequences'[step.batch[k].index]
               IN  /\ r.id = q.id /\ r.slot = q.slot /\ ~r.inFlight
                   /\ r.token = r.committed
                   /\ r.data = [of |-> q.id, at |-> r.token]
    PROVE  HostInv' /\ Bound' = Bound /\ ~step'.active /\ \A i \in Bound : ~sequences'[i].inFlight
  <1>1. ASSUME NEW i \in Bound
        PROVE  /\ sequences'[i].id = sequences[i].id
               /\ sequences'[i].slot = sequences[i].slot
               /\ sequences'[i].token = sequences'[i].committed
               /\ sequences'[i].data = [of |-> sequences[i].id, at |-> sequences'[i].token]
               /\ ~sequences'[i].inFlight
    <2>1. CASE InBatch(step.batch, i)
      <3>1. PICK k \in 1..Len(step.batch) : step.batch[k].index = i
        BY <2>1 DEF InBatch
      <3> QED
        BY <3>1
    <2>2. CASE ~InBatch(step.batch, i)
      BY <2>2, OffBatch DEF HostInv, FrontierOK, OutcomeIsOwn
    <2> QED
      BY <2>1, <2>2
  <1>2. /\ TableOK' /\ now' \in 0..MaxNow
        /\ SlotsDisjoint' /\ FrontierOK' /\ OutcomeIsOwn'
        /\ Bound' = Bound
    BY <1>1, RewriteInPlace
  <1>3. StepOK' /\ ~step'.active
    BY DecodeBatchAssumption DEF StepOK, Idle
  <1>4. StepHolds' /\ InFlightIsScheduled'
    BY <1>1, <1>2, <1>3 DEF StepHolds, InFlightIsScheduled
  <1> QED
    BY <1>1, <1>2, <1>3, <1>4 DEF HostInv

\* The same for the owners: the slots of the batch end at the host's frontier with no
\* checkpoint, the others are left alone.
LEMMA CloseOwner ==
    ASSUME HostInv, OwnerInv, step.active, Bound' = Bound, ~step'.active,
           owner' \in [Slots -> OwnerState],
           \A s \in Slots : s \notin BatchSlots(step.batch) => owner'[s] = owner[s],
           \A i \in Bound : ~InBatch(step.batch, i) => sequences'[i] = sequences[i],
           \A k \in 1..Len(step.batch) :
               /\ sequences'[step.batch[k].index].slot = step.batch[k].slot
               /\ owner'[step.batch[k].slot] =
                    [tokens |-> sequences'[step.batch[k].index].committed,
                     checkpoint |-> NoCheckpoint]
    PROVE  OwnerInv'
  <1>1. ASSUME NEW i \in Bound
        PROVE  owner'[sequences'[i].slot] = [tokens |-> sequences'[i].committed,
                                             checkpoint |-> NoCheckpoint]
    <2>1. CASE InBatch(step.batch, i)
      <3>1. PICK k \in 1..Len(step.batch) : step.batch[k].index = i
        BY <2>1 DEF InBatch
      <3> QED
        BY <3>1
    <2>2. CASE ~InBatch(step.batch, i)
      <3>1. /\ sequences[i].slot \in Slots /\ ~sequences[i].inFlight
            /\ sequences[i].slot \notin BatchSlots(step.batch)
        BY <2>2, OffBatch, BoundFacts
      <3> QED
        BY <2>2, <3>1 DEF OwnerInv
    <2> QED
      BY <2>1, <2>2
  <1> QED
    BY <1>1 DEF OwnerInv

\* A commit advances every scheduled sequence by the token sampled for it
\* (fg_decode_batch_step_commit).
LEMMA CommitHost ==
    ASSUME HostInv, StepCommit
    PROVE  /\ HostInv' /\ Bound' = Bound /\ ~step'.active
           /\ \A i \in Bound : ~InBatch(step.batch, i) => sequences'[i] = sequences[i]
           /\ \A k \in 1..Len(step.batch) :
                /\ sequences'[step.batch[k].index].slot = step.batch[k].slot
                /\ sequences'[step.batch[k].index].committed = step.snaps[k].committed + 1
                /\ step.snaps[k].committed + 1 \in Tokens
                /\ step.outcomes[k]
  <1> USE DecodeBatchAssumption
  <1>1. /\ step.active /\ UNCHANGED <<count, now>> /\ step' = Idle
        /\ \A k \in 1..Len(step.batch) : step.outcomes[k]
        /\ sequences' = [i \in Indices |->
             IF InBatch(step.batch, i) THEN Committed(i) ELSE sequences[i]]
    BY DEF StepCommit, MayCommit
  <1>2. ASSUME NEW k \in 1..Len(step.batch)
        PROVE  LET q == sequences[step.batch[k].index]
                   r == sequences'[step.batch[k].index]
               IN  /\ r \in Sequence
                   /\ r.id = q.id /\ r.slot = q.slot /\ ~r.inFlight
                   /\ r.token = r.committed
                   /\ r.data = [of |-> q.id, at |-> r.token]
                   /\ r.committed = step.snaps[k].committed + 1
                   /\ r.committed \in Tokens
                   /\ r.slot = step.batch[k].slot
    <2> DEFINE i == step.batch[k].index
               q == sequences[i]
               d == [of |-> step.batch[k].id, at |-> step.batch[k].token + 1]
    <2>1. sequences'[i] = Committed(i) /\ SlotIndex(i) = k
      BY <1>1, SlotIndexIs
    <2>2. Committed(i) = [q EXCEPT !.committed = q.committed + 1, !.token = q.token + 1,
                              !.gen = q.gen + 1, !.data = d, !.ready = FALSE,
                              !.inFlight = FALSE]
      BY <2>1 DEF Committed
    <2>3. /\ q \in Sequence /\ step.snaps[k].committed = q.committed
          /\ q.committed < MaxTokens /\ q.gen < MaxTokens
      BY <1>1, SnapFacts
    <2>4. /\ step.batch[k].id = q.id /\ step.batch[k].token = q.token
          /\ step.batch[k].slot = q.slot /\ i \in Bound /\ q.id \in Seqs
          /\ q.token = q.committed
      BY <1>1, EntryFacts DEF HostInv, FrontierOK
    <2>5. /\ q.committed + 1 \in Tokens /\ q.token + 1 \in Tokens /\ q.gen + 1 \in Tokens
          /\ d \in Data
      <3>1. q.committed \in Tokens /\ q.gen \in Tokens
        BY <2>3 DEF Sequence
      <3>2. q.committed + 1 \in Tokens /\ q.token + 1 \in Tokens /\ q.gen + 1 \in Tokens
        BY <2>3, <2>4, <3>1, SMTT(30) DEF Tokens
      <3> QED
        BY <2>4, <3>2 DEF Data
    <2>6. d = [of |-> q.id, at |-> q.token + 1]
      BY <2>4
    <2> HIDE DEF q, d, i
    <2> DEFINE r == sequences'[i]
    <2>7. /\ r \in Sequence
          /\ r.id = q.id /\ r.slot = q.slot /\ r.inFlight = FALSE
          /\ r.token = q.token + 1 /\ r.committed = q.committed + 1 /\ r.data = d
      <3> DEFINE c == q.committed + 1
                 t == q.token + 1
                 g == q.gen + 1
      <3>1. r = [q EXCEPT !.committed = c, !.token = t, !.gen = g, !.data = d,
                          !.ready = FALSE, !.inFlight = FALSE]
        BY <2>1, <2>2
      <3>2. c \in Tokens /\ t \in Tokens /\ g \in Tokens
        BY <2>5
      <3> HIDE DEF c, t, g, r
      <3>3. /\ r \in Sequence
            /\ r.id = q.id /\ r.slot = q.slot /\ r.inFlight = FALSE
            /\ r.token = t /\ r.committed = c /\ r.data = d
        BY <2>3, <2>5, <3>1, <3>2 DEF Sequence
      <3> QED
        BY <3>3 DEF c, t
    <2> HIDE DEF r
    <2>8. /\ r \in Sequence
          /\ r.id = q.id /\ r.slot = q.slot /\ ~r.inFlight
          /\ r.token = r.committed
          /\ r.data = [of |-> q.id, at |-> r.token]
          /\ r.committed = step.snaps[k].committed + 1
          /\ r.committed \in Tokens
          /\ r.slot = step.batch[k].slot
      BY <2>3, <2>4, <2>5, <2>6, <2>7
    <2> QED
      BY <2>8 DEF q, r, i
  <1>3. \A i \in Indices : ~InBatch(step.batch, i) => sequences'[i] = sequences[i]
    BY <1>1
  <1>4. sequences' \in [Indices -> Sequence]
    <2>1. ASSUME NEW i \in Indices PROVE sequences'[i] \in Sequence
      <3>1. CASE InBatch(step.batch, i)
        <4>1. PICK k \in 1..Len(step.batch) : step.batch[k].index = i
          BY <3>1 DEF InBatch
        <4> QED
          BY <1>2, <4>1
      <3>2. CASE ~InBatch(step.batch, i)
        BY <1>3, <3>2 DEF HostInv, TableOK
      <3> QED
        BY <3>1, <3>2
    <2> QED
      BY <1>1, <2>1
  <1>5. \A i \in Bound : ~InBatch(step.batch, i) => sequences'[i] = sequences[i]
    BY <1>3, BoundFacts
  <1>6. HostInv' /\ Bound' = Bound /\ ~step'.active
    BY <1>1, <1>2, <1>4, <1>5, CloseHost
  <1> QED
    BY <1>1, <1>2, <1>5, <1>6

\* On the owners too: each slot of the batch ran once and releases its checkpoint.
LEMMA CommitOwner ==
    ASSUME HostInv, OwnerInv, StepCommit
    PROVE  OwnerInv' /\ StepMoved(1) /\ \A k \in DOMAIN step.batch : step.outcomes[k]
  <1>1. /\ Bound' = Bound /\ ~step'.active /\ step.active
        /\ \A i \in Bound : ~InBatch(step.batch, i) => sequences'[i] = sequences[i]
        /\ \A k \in 1..Len(step.batch) :
             /\ sequences'[step.batch[k].index].slot = step.batch[k].slot
             /\ sequences'[step.batch[k].index].committed = step.snaps[k].committed + 1
             /\ step.snaps[k].committed + 1 \in Tokens
             /\ step.outcomes[k]
    BY CommitHost DEF StepCommit, MayCommit
  <1>2. DOMAIN step.batch = 1..Len(step.batch)
    BY DEF HostInv, StepOK
  <1>3. ASSUME NEW s \in Slots
        PROVE  owner'[s] = IF s \in BatchSlots(step.batch)
                           THEN [owner[s] EXCEPT !.checkpoint = NoCheckpoint] ELSE owner[s]
    BY DEF StepCommit, OnSlots, OwnerCommit, OwnerInv
  <1>4. ASSUME NEW k \in 1..Len(step.batch)
        PROVE  /\ owner'[step.batch[k].slot] =
                    [tokens |-> step.snaps[k].committed + 1, checkpoint |-> NoCheckpoint]
               /\ owner'[step.batch[k].slot].tokens = step.snaps[k].committed + 1
    <2> DEFINE s == step.batch[k].slot
    <2>1. s \in Slots /\ s \in BatchSlots(step.batch)
      BY <1>1, BatchSlotsDistinct
    <2>2. owner[s].tokens = step.snaps[k].committed + 1 /\ owner[s] \in OwnerState
      <3>1. /\ owner[s].checkpoint = step.snaps[k].committed
            /\ owner[s].tokens = owner[s].checkpoint + 1
        BY <1>1 DEF OwnerInv
      <3> QED
        BY <2>1, <3>1 DEF OwnerInv
    <2>3. owner'[s] = [owner[s] EXCEPT !.checkpoint = NoCheckpoint]
      BY <1>3, <2>1
    <2> HIDE DEF s
    <2>4. owner'[s] = [tokens |-> owner[s].tokens, checkpoint |-> NoCheckpoint]
      BY <2>2, <2>3 DEF OwnerState
    <2> QED
      BY <2>2, <2>4 DEF s
  <1>5. owner' \in [Slots -> OwnerState]
    <2>1. ASSUME NEW s \in Slots PROVE owner'[s] \in OwnerState
      <3>1. owner[s] \in OwnerState
        BY DEF OwnerInv
      <3> QED
        BY <1>3, <3>1 DEF OwnerState
    <2> QED
      BY <2>1 DEF StepCommit, OnSlots
  <1>6. OwnerInv'
    <2>1. \A s \in Slots : s \notin BatchSlots(step.batch) => owner'[s] = owner[s]
      BY <1>3
    <2>2. \A k \in 1..Len(step.batch) :
            /\ sequences'[step.batch[k].index].slot = step.batch[k].slot
            /\ owner'[step.batch[k].slot] =
                 [tokens |-> sequences'[step.batch[k].index].committed,
                  checkpoint |-> NoCheckpoint]
      BY <1>1, <1>4
    <2> QED
      BY <1>1, <1>5, <2>1, <2>2, CloseOwner
  <1>7. StepMoved(1)
    BY <1>1, <1>2, <1>4 DEF StepMoved
  <1> QED
    BY <1>1, <1>2, <1>6, <1>7

\* A restore gives every scheduled sequence its snapshot back, ready for a retry
\* (fg_decode_batch_step_restore, and the failure path of the commit).
LEMMA RestoreHost ==
    ASSUME HostInv, step.active, HostRestore, UNCHANGED <<count, now>>
    PROVE  /\ HostInv' /\ Bound' = Bound /\ ~step'.active
           /\ \A i \in Bound : ~InBatch(step.batch, i) => sequences'[i] = sequences[i]
           /\ \A k \in 1..Len(step.batch) :
                /\ sequences'[step.batch[k].index].slot = step.batch[k].slot
                /\ sequences'[step.batch[k].index].committed = step.snaps[k].committed
                /\ step.snaps[k].committed \in Tokens
  <1> USE DecodeBatchAssumption
  <1>1. /\ step' = Idle
        /\ sequences' = [i \in Indices |->
             IF InBatch(step.batch, i) THEN Restored(i) ELSE sequences[i]]
    BY DEF HostRestore
  <1>2. ASSUME NEW k \in 1..Len(step.batch)
        PROVE  LET q == sequences[step.batch[k].index]
                   r == sequences'[step.batch[k].index]
               IN  /\ r \in Sequence
                   /\ r.id = q.id /\ r.slot = q.slot /\ ~r.inFlight
                   /\ r.token = r.committed
                   /\ r.data = [of |-> q.id, at |-> r.token]
                   /\ r.committed = step.snaps[k].committed
                   /\ r.committed \in Tokens
                   /\ r.slot = step.batch[k].slot
    <2> DEFINE i == step.batch[k].index
               q == sequences[i]
               n == step.snaps[k]
               r == sequences'[i]
    <2>1. r = Restored(i) /\ SlotIndex(i) = k
      BY <1>1, SlotIndexIs
    <2>2. Restored(i) = [n EXCEPT !.id = q.id, !.slot = q.slot, !.since = q.since,
                                  !.ready = TRUE, !.inFlight = FALSE]
      BY <2>1 DEF Restored
    <2>3. /\ q \in Sequence /\ n \in Sequence /\ n.id = q.id /\ n.slot = q.slot
          /\ n.token = q.token /\ n.committed = q.committed /\ n.data = q.data
      BY SnapFacts
    <2>4. /\ step.batch[k].slot = q.slot
          /\ q.token = q.committed /\ q.data = [of |-> q.id, at |-> q.token]
      BY EntryFacts DEF HostInv, FrontierOK, OutcomeIsOwn
    <2> HIDE DEF q, n, i, r
    <2>5. /\ r \in Sequence
          /\ r.id = q.id /\ r.slot = q.slot /\ r.inFlight = FALSE
          /\ r.token = n.token /\ r.committed = n.committed /\ r.data = n.data
          /\ r.committed \in Tokens
      BY <2>1, <2>2, <2>3 DEF Sequence
    <2>6. /\ r \in Sequence
          /\ r.id = q.id /\ r.slot = q.slot /\ ~r.inFlight
          /\ r.token = r.committed
          /\ r.data = [of |-> q.id, at |-> r.token]
          /\ r.committed = n.committed
          /\ r.committed \in Tokens
          /\ r.slot = step.batch[k].slot
      BY <2>3, <2>4, <2>5
    <2> QED
      BY <2>6 DEF q, n, r, i
  <1>3. \A i \in Indices : ~InBatch(step.batch, i) => sequences'[i] = sequences[i]
    BY <1>1
  <1>4. sequences' \in [Indices -> Sequence]
    <2>1. ASSUME NEW i \in Indices PROVE sequences'[i] \in Sequence
      <3>1. CASE InBatch(step.batch, i)
        <4>1. PICK k \in 1..Len(step.batch) : step.batch[k].index = i
          BY <3>1 DEF InBatch
        <4> QED
          BY <1>2, <4>1
      <3>2. CASE ~InBatch(step.batch, i)
        BY <1>3, <3>2 DEF HostInv, TableOK
      <3> QED
        BY <3>1, <3>2
    <2> QED
      BY <1>1, <2>1
  <1>5. \A i \in Bound : ~InBatch(step.batch, i) => sequences'[i] = sequences[i]
    BY <1>3, BoundFacts
  <1>6. HostInv' /\ Bound' = Bound /\ ~step'.active
    BY <1>1, <1>2, <1>4, <1>5, CloseHost
  <1> QED
    BY <1>2, <1>5, <1>6

\* With every checkpoint still held, the owners roll back as the host does.
LEMMA RestoreOwner ==
    ASSUME HostInv, OwnerInv, step.active, HostRestore, UNCHANGED <<count, now>>,
           DOMAIN owner' = Slots, owner' = [s \in Slots |-> owner'[s]],
           \A s \in Slots :
               owner'[s] = IF s \in BatchSlots(step.batch)
                           THEN OwnerRestore(owner, s)[s] ELSE owner[s]
    PROVE  OwnerInv' /\ StepMoved(0)
  <1>1. /\ Bound' = Bound /\ ~step'.active
        /\ \A i \in Bound : ~InBatch(step.batch, i) => sequences'[i] = sequences[i]
        /\ \A k \in 1..Len(step.batch) :
             /\ sequences'[step.batch[k].index].slot = step.batch[k].slot
             /\ sequences'[step.batch[k].index].committed = step.snaps[k].committed
             /\ step.snaps[k].committed \in Tokens
    BY RestoreHost
  <1>2. DOMAIN step.batch = 1..Len(step.batch)
    BY DEF HostInv, StepOK
  <1>3. ASSUME NEW s \in Slots
        PROVE  /\ owner[s] \in OwnerState
               /\ owner[s].checkpoint # NoCheckpoint =>
                    OwnerRestore(owner, s)[s] =
                      [tokens |-> owner[s].checkpoint, checkpoint |-> NoCheckpoint]
               /\ owner[s].checkpoint = NoCheckpoint => OwnerRestore(owner, s)[s] = owner[s]
    BY DEF OwnerInv, OwnerRestore
  <1>4. ASSUME NEW k \in 1..Len(step.batch)
        PROVE  /\ owner'[step.batch[k].slot] =
                    [tokens |-> step.snaps[k].committed, checkpoint |-> NoCheckpoint]
               /\ owner'[step.batch[k].slot].tokens = step.snaps[k].committed + 0
    <2> DEFINE s == step.batch[k].slot
    <2>1. s \in Slots /\ s \in BatchSlots(step.batch)
      BY BatchSlotsDistinct
    <2>2. owner[s].checkpoint = step.snaps[k].committed /\ step.snaps[k].committed \in Nat
      BY <1>1 DEF OwnerInv, Tokens
    <2>3. owner[s].checkpoint # NoCheckpoint
      BY <2>2 DEF NoCheckpoint
    <2> HIDE DEF s
    <2>4. owner'[s] = [tokens |-> step.snaps[k].committed, checkpoint |-> NoCheckpoint]
      BY <1>3, <2>1, <2>2, <2>3
    <2> QED
      BY <2>2, <2>4 DEF s
  <1>5. owner' \in [Slots -> OwnerState]
    <2>1. ASSUME NEW s \in Slots PROVE owner'[s] \in OwnerState
      <3>1. owner[s] \in OwnerState /\ owner[s].checkpoint \in Tokens \cup {NoCheckpoint}
        BY <1>3 DEF OwnerState
      <3>2. owner[s].checkpoint # NoCheckpoint =>
              [tokens |-> owner[s].checkpoint, checkpoint |-> NoCheckpoint] \in OwnerState
        BY <3>1 DEF OwnerState
      <3> QED
        BY <1>3, <3>1, <3>2
    <2> QED
      BY <2>1
  <1>6. OwnerInv'
    <2>1. \A s \in Slots : s \notin BatchSlots(step.batch) => owner'[s] = owner[s]
      OBVIOUS
    <2> QED
      BY <1>1, <1>4, <1>5, <2>1, CloseOwner
  <1>7. StepMoved(0)
    <2>1. \A k \in 1..Len(step.batch) : step.snaps[k].committed + 0 = step.snaps[k].committed
      BY <1>1 DEF Tokens
    <2> QED
      BY <1>1, <1>2, <1>4, <2>1 DEF StepMoved
  <1> QED
    BY <1>6, <1>7

\* The restore of an open step (fg_decode_batch_step_restore).
LEMMA StepRestoreInv ==
    ASSUME HostInv, StepRestore
    PROVE  HostInv' /\ (OwnerInv => OwnerInv' /\ StepMoved(0))
  <1>1. step.active /\ HostRestore /\ UNCHANGED <<count, now>>
    BY DEF StepRestore
  <1>2. /\ owner' = [s \in Slots |-> owner'[s]] /\ DOMAIN owner' = Slots
        /\ \A s \in Slots : owner'[s] = IF s \in BatchSlots(step.batch)
                                        THEN OwnerRestore(owner, s)[s] ELSE owner[s]
    BY DEF StepRestore, OnSlots
  <1> QED
    BY <1>1, <1>2, RestoreHost, RestoreOwner

\* A commit that fails before any owner released its checkpoint rolls everything back;
\* with CommitFaults it may have released some, and only the host is restored.
LEMMA CommitFailsInv ==
    ASSUME HostInv, NEW gone \in 0..Depth, StepCommitFails(gone)
    PROVE  HostInv' /\ (OwnerInv /\ ~CommitFaults => OwnerInv' /\ StepMoved(0))
  <1>1. step.active /\ HostRestore /\ UNCHANGED <<count, now>>
    BY DEF StepCommitFails, MayCommit
  <1>2. HostInv'
    BY <1>1, RestoreHost
  <1>3. ASSUME OwnerInv, ~CommitFaults PROVE OwnerInv' /\ StepMoved(0)
    <2>1. gone = 0
      BY <1>3, DecodeBatchAssumption DEF StepCommitFails
    <2>2. {step.batch[j].slot : j \in 1..gone} = {}
      BY <2>1
    <2>3. /\ owner' = [s \in Slots |-> owner'[s]] /\ DOMAIN owner' = Slots
          /\ \A s \in Slots : owner'[s] = IF s \in BatchSlots(step.batch)
                                          THEN OwnerRestore(owner, s)[s] ELSE owner[s]
      BY <2>2 DEF StepCommitFails
    <2> QED
      BY <1>1, <1>3, <2>3, RestoreOwner
  <1> QED
    BY <1>2, <1>3
-----------------------------------------------------------------------------
(* The theorems. *)

\* Every step of the table keeps the host's half of the invariant, whatever becomes of
\* the owners' commit.
LEMMA NextHost ==
    ASSUME ~LeaveMidStep, HostInv, [Next]_vars
    PROVE  HostInv'
  <1>1. CASE Next
    <2>1. ASSUME NEW id \in Seqs, NEW s \in Slots, SequenceEnter(id, s) PROVE HostInv'
      BY <2>1, EnterHost
    <2>2. ASSUME NEW id \in Seqs, SequenceLeave(id) PROVE HostInv'
      BY <2>2, LeaveInv
    <2>3. ASSUME NEW id \in Seqs, SequenceReady(id) PROVE HostInv'
      BY <2>3, ReadyInv
    <2>4. ASSUME NEW id \in Seqs, NEW n \in 1..MaxTokens, SequenceFrontier(id, n) PROVE HostInv'
      BY <2>4, FrontierInv
    <2>5. CASE StepBegin
      BY <2>5, BeginHost
    <2>6. CASE StepBeginFails
      BY <2>6, BeginFailsInv
    <2>7. ASSUME NEW reached \in 1..Depth, RingPass(reached) PROVE HostInv'
      BY <2>7, RingPassInv
    <2>8. ASSUME NEW k \in 1..Depth, StepAdvance(k) PROVE HostInv'
      BY <2>8, AdvanceInv
    <2>9. CASE StepCommit
      BY <2>9, CommitHost
    <2>10. CASE StepRestore
      BY <2>10, StepRestoreInv
    <2>11. ASSUME NEW gone \in 0..Depth, StepCommitFails(gone) PROVE HostInv'
      BY <2>11, CommitFailsInv
    <2> QED
      BY <1>1, <2>1, <2>2, <2>3, <2>4, <2>5, <2>6, <2>7, <2>8, <2>9, <2>10, <2>11 DEF Next
  <1>2. CASE UNCHANGED vars
    <2>1. UNCHANGED <<sequences, count, step, now>> /\ Bound' = Bound
      BY <1>2 DEF vars, Bound
    <2>2. TableOK' /\ now' \in 0..MaxNow /\ StepOK'
      BY <2>1 DEF HostInv, TableOK, StepOK
    <2>3. SlotsDisjoint' /\ FrontierOK' /\ OutcomeIsOwn' /\ InFlightIsScheduled'
      BY <2>1 DEF HostInv, SlotsDisjoint, FrontierOK, OutcomeIsOwn, InFlightIsScheduled, InBatch
    <2>4. StepHolds'
      BY <2>1 DEF HostInv, StepHolds, EntryHolds
    <2> QED
      BY <2>2, <2>3, <2>4 DEF HostInv
  <1> QED
    BY <1>1, <1>2

\* And, while no commit transaction loses checkpoints, the owners' half; the steps that
\* close move all their slots alike.
LEMMA NextOwner ==
    ASSUME ~LeaveMidStep, ~CommitFaults, HostInv, OwnerInv, [Next]_vars
    PROVE  /\ OwnerInv'
           /\ step.active /\ ~step'.active =>
                \/ StepMoved(1) /\ \A k \in DOMAIN step.batch : step.outcomes[k]
                \/ StepMoved(0)
  <1> DEFINE Closes == step.active /\ ~step'.active =>
                \/ StepMoved(1) /\ \A k \in DOMAIN step.batch : step.outcomes[k]
                \/ StepMoved(0)
  <1> SUFFICES OwnerInv' /\ Closes
    OBVIOUS
  <1>1. CASE Next
    <2>0. step' = step \/ ~step.active \/ step'.active => Closes
      OBVIOUS
    <2> HIDE DEF Closes
    <2>1. ASSUME NEW id \in Seqs, NEW s \in Slots, SequenceEnter(id, s)
          PROVE OwnerInv' /\ Closes
      BY <2>0, <2>1, EnterOwner DEF SequenceEnter
    <2>2. ASSUME NEW id \in Seqs, SequenceLeave(id) PROVE OwnerInv' /\ Closes
      BY <2>0, <2>2, LeaveInv DEF SequenceLeave
    <2>3. ASSUME NEW id \in Seqs, SequenceReady(id) PROVE OwnerInv' /\ Closes
      BY <2>0, <2>3, ReadyInv DEF SequenceReady
    <2>4. ASSUME NEW id \in Seqs, NEW n \in 1..MaxTokens, SequenceFrontier(id, n)
          PROVE OwnerInv' /\ Closes
      BY <2>0, <2>4, FrontierInv DEF SequenceFrontier
    <2>5. CASE StepBegin
      BY <2>0, <2>5, BeginOwner, BeginHost DEF StepBegin
    <2>6. CASE StepBeginFails
      BY <2>0, <2>6, BeginFailsInv DEF StepBeginFails
    <2>7. ASSUME NEW reached \in 1..Depth, RingPass(reached) PROVE OwnerInv' /\ Closes
      BY <2>0, <2>7, RingPassInv DEF RingPass
    <2>8. ASSUME NEW k \in 1..Depth, StepAdvance(k) PROVE OwnerInv' /\ Closes
      <3>1. step'.active
        BY <2>8 DEF StepAdvance, HostInv, StepOK
      <3> QED
        BY <2>0, <2>8, <3>1, AdvanceInv
    <2>9. CASE StepCommit
      BY <2>9, CommitOwner DEF Closes
    <2>10. CASE StepRestore
      BY <2>10, StepRestoreInv DEF Closes
    <2>11. ASSUME NEW gone \in 0..Depth, StepCommitFails(gone) PROVE OwnerInv' /\ Closes
      BY <2>11, CommitFailsInv DEF Closes
    <2> QED
      BY <1>1, <2>1, <2>2, <2>3, <2>4, <2>5, <2>6, <2>7, <2>8, <2>9, <2>10, <2>11 DEF Next
  <1>2. CASE UNCHANGED vars
    <2>1. UNCHANGED <<sequences, count, step, owner>> /\ Bound' = Bound
      BY <1>2 DEF vars, Bound
    <2> QED
      BY <2>1 DEF OwnerInv
  <1> QED
    BY <1>1, <1>2

\* The invariant gives what the runs check.
LEMMA BatchInvHolds ==
    ASSUME HostInv, OwnerInv
    PROVE  BatchInv
  <1>1. TypeOK
    <2>1. /\ step.active \in BOOLEAN
          /\ step.batch \in Seq(Entry) /\ step.snaps \in Seq(Sequence)
          /\ step.outcomes \in Seq(BOOLEAN)
          /\ Len(step.batch) <= Depth /\ Len(step.snaps) = Len(step.batch)
          /\ Len(step.outcomes) = Len(step.batch)
      BY DEF HostInv, StepOK
    <2>2. /\ DOMAIN step.snaps = DOMAIN step.batch /\ DOMAIN step.outcomes = DOMAIN step.batch
          /\ \A k \in DOMAIN step.batch : step.batch[k] \in Entry
      BY <2>1
    <2> QED
      BY <2>1, <2>2 DEF HostInv, TableOK, OwnerInv, OwnerState, TypeOK, Entry
  <1>2. HostOwnerAgree
    BY BoundFacts DEF OwnerInv, HostOwnerAgree
  <1> QED
    BY <1>1, <1>2 DEF HostInv, BatchInv

\* Whatever fails on the owners, two bound conversations never share an id or a state
\* slot, a sequence is in flight exactly while the open step holds it, and what a
\* sequence holds was computed for it at its own token: the table of decode_batch.c,
\* whose caller (the runtime) removes no sequence while a step is open.
THEOREM TableSafe ==
    ASSUME ~LeaveMidStep
    PROVE  Spec => [](SlotsDisjoint /\ InFlightIsScheduled /\ OutcomeIsOwn)
  <1>1. Init => HostInv
    BY InitHost
  <1>2. HostInv /\ [Next]_vars => HostInv'
    BY NextHost
  <1>3. HostInv => SlotsDisjoint /\ InFlightIsScheduled /\ OutcomeIsOwn
    BY DEF HostInv
  <1> QED
    BY <1>1, <1>2, <1>3, PTL DEF Spec

\* With owner commits that do not lose checkpoints, the whole table invariant: host and
\* owners agree on every frontier between steps.
THEOREM BatchCorrect ==
    ASSUME ~LeaveMidStep, ~CommitFaults
    PROVE  Spec => []BatchInv
  <1>1. Init => HostInv /\ OwnerInv
    BY InitHost
  <1>2. HostInv /\ OwnerInv /\ [Next]_vars => HostInv' /\ OwnerInv'
    BY NextHost, NextOwner
  <1>3. HostInv /\ OwnerInv => BatchInv
    BY BatchInvHolds
  <1> QED
    BY <1>1, <1>2, <1>3, PTL DEF Spec

\* A step that closes moved every one of its slots by its sampled token, or none, on the
\* host and on the owners (runtime.c:5066).
THEOREM BatchAtomic ==
    ASSUME ~LeaveMidStep, ~CommitFaults
    PROVE  Spec => StepIsAtomic
  <1>1. Init => HostInv /\ OwnerInv
    BY InitHost
  <1>2. HostInv /\ OwnerInv /\ [Next]_vars => HostInv' /\ OwnerInv'
    BY NextHost, NextOwner
  <1>3. HostInv /\ OwnerInv /\ [Next]_vars =>
          [step.active /\ ~step'.active =>
             \/ StepMoved(1) /\ \A k \in DOMAIN step.batch : step.outcomes[k]
             \/ StepMoved(0)]_vars
    BY NextOwner
  <1> QED
    BY <1>1, <1>2, <1>3, PTL DEF Spec, StepIsAtomic
=============================================================================

----------------------------- MODULE QsaProofs -----------------------------
(***************************************************************************)
(* Proofs about the QSA pages: the replica's queue (QsaReplica), for every *)
(* ring size, group size and bound on the serial numbers, and the page     *)
(* service between rank 0 and the owners (QsaPages), for every number of   *)
(* owners, depth of the queues and context limit, with and without a ring. *)
(***************************************************************************)
EXTENDS QsaReplica, QsaPages, SequenceTheorems, FiniteSetTheorems, WellFoundedInduction, TLAPS


\* A sum of two ring offsets wraps at most once: the slot arithmetic of
\* replica_main and fg_qsa_replica_reserve is linear.
LEMMA WrapOnce ==
    ASSUME NEW h \in Slots, NEW i \in 0..SlotCount
    PROVE  (h + i) % SlotCount =
             IF h + i < SlotCount THEN h + i ELSE h + i - SlotCount
  <1>1. h + i < SlotCount => (h + i) % SlotCount = h + i
    BY ReplicaAssumption DEF Slots
  <1>2. ~(h + i < SlotCount) => (h + i) % SlotCount = h + i - SlotCount
    BY ReplicaAssumption DEF Slots
  <1> QED
    BY <1>1, <1>2

\* The slot i places behind the head, without the remainder.
LEMMA SlotIs ==
    ASSUME head \in Slots, NEW i \in 0..SlotCount
    PROVE  /\ Slot(i) = IF head + i < SlotCount THEN head + i ELSE head + i - SlotCount
           /\ Slot(i) \in Slots
  <1>1. Slot(i) = IF head + i < SlotCount THEN head + i ELSE head + i - SlotCount
    BY WrapOnce DEF Slot
  <1> QED
    BY <1>1, ReplicaAssumption DEF Slots

\* Two places of the ring never share a slot.
LEMMA SlotInjective ==
    ASSUME head \in Slots, NEW i \in 0..(SlotCount - 1), NEW j \in 0..(SlotCount - 1),
           Slot(i) = Slot(j)
    PROVE  i = j
  BY SlotIs, ReplicaAssumption DEF Slots

\* The head itself is the first place.
LEMMA SlotZero ==
    ASSUME head \in Slots
    PROVE  Slot(0) = head
  BY SlotIs, ReplicaAssumption DEF Slots

\* Releasing the head moves every other slot one place nearer, and nothing else.
LEMMA SlotShift ==
    ASSUME NEW h \in Slots, NEW i \in 0..(SlotCount - 1)
    PROVE  /\ (h + 1) % SlotCount \in Slots
           /\ (((h + 1) % SlotCount) + i) % SlotCount = (h + (i + 1)) % SlotCount
  <1>1. (h + 1) % SlotCount = IF h + 1 < SlotCount THEN h + 1 ELSE h + 1 - SlotCount
    BY WrapOnce, ReplicaAssumption
  <1>2. (h + 1) % SlotCount \in Slots
    BY <1>1, ReplicaAssumption DEF Slots
  <1>3. (h + (i + 1)) % SlotCount =
          IF h + (i + 1) < SlotCount THEN h + (i + 1) ELSE h + (i + 1) - SlotCount
    BY WrapOnce, ReplicaAssumption
  <1>4. (((h + 1) % SlotCount) + i) % SlotCount =
          IF ((h + 1) % SlotCount) + i < SlotCount
          THEN ((h + 1) % SlotCount) + i ELSE ((h + 1) % SlotCount) + i - SlotCount
    BY <1>2, WrapOnce, ReplicaAssumption
  <1> QED
    BY <1>1, <1>2, <1>3, <1>4, ReplicaAssumption DEF Slots
-----------------------------------------------------------------------------
\* The empty ring satisfies the invariant (fg_qsa_replica_create).
LEMMA InitInv == Init => RingInv
  <1> SUFFICES ASSUME Init PROVE RingInv
    OBVIOUS
  <1>1. TypeOK
    BY ReplicaAssumption DEF Init, TypeOK, Slots, Serials
  <1>2. RingFits /\ FlyingIsHead
    BY ReplicaAssumption DEF Init, RingFits, FlyingIsHead
  <1>3. BuffersFollowTail
    BY DEF Init, BuffersFollowTail
  <1>4. QueueHoldsSuffix /\ SentInOrder
    BY DEF Init, QueueHoldsSuffix, SentInOrder
  <1> QED
    BY <1>1, <1>2, <1>3, <1>4 DEF RingInv

\* Reserving keeps the invariant: the new buffers lie right behind the tail.
LEMMA ReserveInv ==
    ASSUME RingInv, NEW n \in 1..GroupMax, Reserve(n)
    PROVE  RingInv'
  <1> USE DEF RingInv, TypeOK
  <1>1. \A i \in 1..n : Slot(count + i - 1) \in Slots
    BY SlotIs, ReplicaAssumption DEF Reserve, Room
  <1>2. buffers' \in Seq(Slots) /\ Len(buffers') = n
    BY <1>1, ReplicaAssumption DEF Reserve
  <1>3. TypeOK'
    BY <1>2, ReplicaAssumption DEF Reserve, Room, Serials
  <1>4. RingFits' /\ QueueHoldsSuffix' /\ FlyingIsHead' /\ SentInOrder'
    BY DEF Reserve, Room, RingFits, QueueHoldsSuffix, FlyingIsHead, SentInOrder, Slot
  <1>5. BuffersFollowTail'
    BY <1>2, ReplicaAssumption DEF Reserve, BuffersFollowTail, Slot
  <1> QED
    BY <1>3, <1>4, <1>5

\* Encoding writes a buffer outside the queued slots, so it disturbs none of them.
LEMMA EncodeInv ==
    ASSUME RingInv, Encode
    PROVE  RingInv'
  <1> USE DEF RingInv, TypeOK
  <1> DEFINE b == buffers[Len(group) + 1]
  <1>1. /\ client = "fill" /\ Len(buffers) = reserved /\ Len(group) < reserved
        /\ serial + 1 <= MaxSerial
    BY ReplicaAssumption DEF Encode, BuffersFollowTail
  <1>2. b \in Slots /\ Len(group) + 1 \in 1..Len(buffers)
    BY <1>1
  <1>3. /\ payload' \in [Slots -> Nat]
        /\ group' \in Seq(Serials)
        /\ Len(group') = Len(group) + 1
        /\ \A i \in 1..Len(group) : group'[i] = group[i]
        /\ group'[Len(group) + 1] = serial + 1
    <2>1. serial + 1 \in Serials
      BY <1>1, ReplicaAssumption DEF Serials
    <2> QED
      BY <1>2, <2>1, ReplicaAssumption DEF Encode, Serials
  <1>4. TypeOK'
    BY <1>1, <1>3, ReplicaAssumption DEF Encode, Serials
  <1>5. RingFits' /\ FlyingIsHead' /\ SentInOrder'
    BY DEF Encode, RingFits, FlyingIsHead, SentInOrder
  <1>6. ASSUME status = "ok"
        PROVE  /\ \A i \in 0..(count - 1) : b # Slot(i)
               /\ \A i \in 1..Len(group) : b # buffers[i]
    <2>1. b = Slot(count + Len(group))
      BY <1>1, <1>2, <1>6 DEF BuffersFollowTail
    <2>2. count + Len(group) \in 0..(SlotCount - 1)
      BY <1>1, ReplicaAssumption DEF RingFits
    <2>3. \A i \in 0..(count - 1) : b # Slot(i)
      BY <2>1, <2>2, SlotInjective, ReplicaAssumption
    <2>4. \A i \in 1..Len(group) : b # buffers[i]
      <3> SUFFICES ASSUME NEW i \in 1..Len(group)
                   PROVE  b # buffers[i]
        OBVIOUS
      <3>1. buffers[i] = Slot(count + i - 1) /\ count + i - 1 \in 0..(SlotCount - 1)
        BY <1>1, <1>6, <2>2, ReplicaAssumption DEF BuffersFollowTail
      <3> QED
        BY <2>1, <2>2, <3>1, SlotInjective, ReplicaAssumption
    <2> QED
      BY <2>3, <2>4
  <1>7. QueueHoldsSuffix'
    <2>1. CASE status = "ok"
      <3>1. \A i \in 0..(count - 1) : Slot(i) \in Slots
        BY SlotIs, ReplicaAssumption DEF RingFits
      <3> QED
        BY <1>2, <1>6, <2>1, <3>1 DEF Encode, QueueHoldsSuffix, Slot
    <2>2. CASE status # "ok"
      BY <2>2 DEF Encode, QueueHoldsSuffix
    <2> QED
      BY <2>1, <2>2
  <1>8. BuffersFollowTail'
    <2>0. /\ Len(buffers') = reserved' /\ Len(group') <= reserved'
          /\ reserved' \in 1..GroupMax
          /\ serial' + (Len(buffers') - Len(group')) <= MaxSerial
      BY <1>1, <1>3, ReplicaAssumption DEF Encode, BuffersFollowTail
    <2>1. CASE status = "ok"
      <3>1. \A i \in 1..Len(group') : payload'[buffers[i]] = group'[i]
        <4> SUFFICES ASSUME NEW i \in 1..Len(group')
                     PROVE  payload'[buffers[i]] = group'[i]
          OBVIOUS
        <4>1. CASE i = Len(group) + 1
          BY <1>2, <1>3, <4>1 DEF Encode
        <4>2. CASE i \in 1..Len(group)
          <5>1. buffers[i] \in Slots /\ buffers[i] # b
            BY <1>1, <1>6, <2>1, <4>2
          <5> QED
            BY <1>1, <1>2, <1>3, <2>1, <4>2, <5>1 DEF Encode, BuffersFollowTail
        <4> QED
          BY <1>3, <4>1, <4>2
      <3>2. \A i \in 1..Len(buffers) : buffers'[i] = Slot(count + i - 1)'
        BY <1>1, <2>1 DEF Encode, BuffersFollowTail, Slot
      <3> QED
        BY <1>1, <2>0, <3>1, <3>2 DEF Encode, BuffersFollowTail
    <2>2. CASE status # "ok"
      BY <1>1, <2>0, <2>2 DEF Encode, BuffersFollowTail
    <2> QED
      BY <2>1, <2>2
  <1> QED
    BY <1>4, <1>5, <1>7, <1>8

\* Giving a reservation back, refused commits, drains, destroy and join leave the
\* queue and the history alone.
LEMMA QuietInv ==
    ASSUME RingInv,
           \/ Cancel \/ CommitRefused \/ DrainCall \/ DrainWait \/ DrainReturn
           \/ Destroy \/ Join
    PROVE  RingInv'
  <1> USE DEF RingInv, TypeOK
  <1>1. CASE Cancel \/ CommitRefused
    <2>0. <<>> \in Seq(Slots) /\ <<>> \in Seq(Serials) /\ 0 \in 0..SlotCount
      BY ReplicaAssumption
    <2>1. TypeOK'
      BY <1>1, <2>0 DEF Cancel, CommitRefused
    <2>a. reserved' = 0 /\ UNCHANGED <<head, count, status, item, sender, flying, log, sent>>
      BY <1>1 DEF Cancel, CommitRefused
    <2>b. RingFits'
      BY <2>a, ReplicaAssumption DEF RingFits
    <2>c. FlyingIsHead'
      BY <2>a DEF FlyingIsHead
    <2>d. SentInOrder'
      BY <2>a DEF SentInOrder
    <2>2. RingFits' /\ FlyingIsHead' /\ SentInOrder'
      BY <2>b, <2>c, <2>d
    <2>3. BuffersFollowTail' /\ QueueHoldsSuffix'
      BY <1>1 DEF Cancel, CommitRefused, BuffersFollowTail, QueueHoldsSuffix, Slot
    <2> QED
      BY <2>1, <2>2, <2>3
  <1>2. CASE DrainCall \/ DrainWait \/ DrainReturn \/ Join
    <2>1. TypeOK'
      BY <1>2 DEF DrainCall, DrainWait, DrainReturn, Join, ring
    <2>2. RingFits' /\ FlyingIsHead' /\ SentInOrder' /\ QueueHoldsSuffix'
      BY <1>2 DEF DrainCall, DrainWait, DrainReturn, Join, ring, RingFits, FlyingIsHead,
                  SentInOrder, QueueHoldsSuffix, Slot
    <2>3. BuffersFollowTail'
      BY <1>2 DEF DrainCall, DrainWait, DrainReturn, Join, ring, BuffersFollowTail
    <2> QED
      BY <2>1, <2>2, <2>3
  <1>3. CASE Destroy
    <2>1. TypeOK'
      BY <1>3 DEF Destroy, WakeSender
    <2>2. RingFits' /\ FlyingIsHead' /\ SentInOrder' /\ QueueHoldsSuffix'
      BY <1>3 DEF Destroy, WakeSender, RingFits, FlyingIsHead, SentInOrder,
                  QueueHoldsSuffix, Slot
    <2>3. BuffersFollowTail'
      BY <1>3 DEF Destroy, BuffersFollowTail
    <2> QED
      BY <2>1, <2>2, <2>3
  <1> QED
    BY <1>1, <1>2, <1>3

\* What a successful commit stores: every descriptor of the group lands in the buffer
\* its bytes were encoded into, and no queued slot is touched.
LEMMA CommitStores ==
    ASSUME RingInv, Commit
    PROVE  /\ item' \in [Slots -> Nat]
           /\ \A i \in 0..(count - 1) : item'[Slot(i)] = item[Slot(i)]
           /\ \A i \in 1..Len(group) : item'[Slot(count + i - 1)] = group[i]
           /\ count + Len(group) <= SlotCount
           /\ Len(group) \in 1..GroupMax
  <1> USE DEF RingInv, TypeOK
  <1>1. /\ Len(group) = reserved /\ Len(group) \in 1..GroupMax
        /\ count + Len(group) <= SlotCount
    BY ReplicaAssumption DEF Commit, BuffersFollowTail, RingFits
  <1>2. \A i \in 1..Len(group) : group[i] \in Nat
    BY ReplicaAssumption DEF Serials
  <1>3. \A s \in Slots : \A i \in 1..Len(group) :
          CommittedAt(s, i) => \A j \in 1..Len(group) : CommittedAt(s, j) => j = i
    <2> SUFFICES ASSUME NEW s \in Slots, NEW i \in 1..Len(group), CommittedAt(s, i),
                        NEW j \in 1..Len(group), CommittedAt(s, j)
                 PROVE  j = i
      OBVIOUS
    <2>1. count + i - 1 \in 0..(SlotCount - 1) /\ count + j - 1 \in 0..(SlotCount - 1)
      BY <1>1, ReplicaAssumption
    <2>2. count + i - 1 = count + j - 1
      BY <2>1, SlotInjective DEF CommittedAt
    <2> QED
      BY <2>2
  <1>4. \A i \in 1..Len(group) : Slot(count + i - 1) \in Slots
    BY <1>1, SlotIs, ReplicaAssumption
  <1>5. \A i \in 0..(count - 1) : Slot(i) \in Slots
    BY SlotIs, ReplicaAssumption
  <1>6. item' \in [Slots -> Nat]
    <2> SUFFICES ASSUME NEW s \in Slots
                 PROVE  item'[s] \in Nat
      BY DEF Commit
    <2>1. CASE \E i \in 1..Len(group) : CommittedAt(s, i)
      BY <1>2, <2>1 DEF Commit
    <2>2. CASE ~\E i \in 1..Len(group) : CommittedAt(s, i)
      BY <2>2 DEF Commit
    <2> QED
      BY <2>1, <2>2
  <1>7. \A i \in 0..(count - 1) : item'[Slot(i)] = item[Slot(i)]
    <2> SUFFICES ASSUME NEW i \in 0..(count - 1)
                 PROVE  item'[Slot(i)] = item[Slot(i)]
      OBVIOUS
    <2>1. ASSUME NEW j \in 1..Len(group), CommittedAt(Slot(i), j)
          PROVE  FALSE
      <3>1. count + j - 1 \in 0..(SlotCount - 1) /\ i \in 0..(SlotCount - 1)
        BY <1>1, ReplicaAssumption
      <3>2. count + j - 1 = i
        BY <2>1, <3>1, SlotInjective DEF CommittedAt
      <3> QED
        BY <3>2
    <2> QED
      BY <1>5, <2>1 DEF Commit
  <1>8. \A i \in 1..Len(group) : item'[Slot(count + i - 1)] = group[i]
    <2> SUFFICES ASSUME NEW i \in 1..Len(group)
                 PROVE  item'[Slot(count + i - 1)] = group[i]
      OBVIOUS
    <2> DEFINE s == Slot(count + i - 1)
    <2>1. CommittedAt(s, i)
      BY DEF CommittedAt
    <2>2. (CHOOSE j \in 1..Len(group) : CommittedAt(s, j)) = i
      BY <1>3, <1>4, <2>1
    <2> QED
      BY <1>4, <2>1, <2>2 DEF Commit
  <1> QED
    BY <1>1, <1>6, <1>7, <1>8

\* Committing keeps the invariant: the group extends the log and the queue alike.
LEMMA CommitInv ==
    ASSUME RingInv, Commit
    PROVE  RingInv'
  <1> USE DEF RingInv, TypeOK
  <1>1. /\ item' \in [Slots -> Nat]
        /\ \A i \in 0..(count - 1) : item'[Slot(i)] = item[Slot(i)]
        /\ \A i \in 1..Len(group) : item'[Slot(count + i - 1)] = group[i]
        /\ count + Len(group) <= SlotCount
        /\ Len(group) \in 1..GroupMax
    BY CommitStores
  <1>2. /\ log' \in Seq(Serials)
        /\ Len(log') = Len(log) + Len(group)
        /\ \A k \in 1..Len(log) : log'[k] = log[k]
        /\ \A i \in 1..Len(group) : log'[Len(log) + i] = group[i]
    <2>1. log' = log \o group
      BY DEF Commit
    <2>2. /\ log \o group \in Seq(Serials)
          /\ Len(log \o group) = Len(log) + Len(group)
          /\ \A k \in 1..(Len(log) + Len(group)) :
               (log \o group)[k] = IF k <= Len(log) THEN log[k] ELSE group[k - Len(log)]
      BY ConcatProperties
    <2>3. \A i \in 1..Len(group) : log'[Len(log) + i] = group[i]
      <3> TAKE i \in 1..Len(group)
      <3>1. /\ Len(log) + i \in 1..(Len(log) + Len(group))
            /\ ~(Len(log) + i <= Len(log)) /\ (Len(log) + i) - Len(log) = i
        BY SMTT(30)
      <3> QED
        BY <2>1, <2>2, <3>1
    <2>4. \A k \in 1..Len(log) : log'[k] = log[k]
      BY <2>1, <2>2
    <2> QED
      BY <2>1, <2>2, <2>3, <2>4
  <1>3. status = "ok" /\ Len(log) = Len(sent) + count
    BY DEF Commit, QueueHoldsSuffix
  <1>4. TypeOK'
    <2>1. <<>> \in Seq(Slots) /\ <<>> \in Seq(Serials)
      OBVIOUS
    <2>2. count' \in 0..SlotCount /\ reserved' \in 0..SlotCount
      BY <1>1, ReplicaAssumption DEF Commit
    <2> QED
      BY <1>1, <1>2, <2>1, <2>2 DEF Commit, WakeSender
  <1>5. RingFits'
    BY <1>1 DEF Commit, RingFits
  <1>6. BuffersFollowTail'
    BY DEF Commit, BuffersFollowTail
  <1>7. FlyingIsHead'
    <2> SUFFICES ASSUME sender' = "send"
                 PROVE  count' > 0 /\ status' = "ok" /\ flying' = item'[head']
      BY DEF FlyingIsHead
    <2>1. sender = "send"
      BY DEF Commit, WakeSender
    <2>2. count > 0 /\ flying = item[head]
      BY <2>1 DEF FlyingIsHead
    <2>3. item'[head] = item[head]
      BY <1>1, <2>2, SlotZero
    <2> QED
      BY <1>1, <1>3, <2>2, <2>3, SMTT(30) DEF Commit
  <1>8. SentInOrder'
    BY <1>2 DEF Commit, SentInOrder
  <1>9. QueueHoldsSuffix'
    <2>1. Len(log') = Len(sent') + count'
      BY <1>2, <1>3 DEF Commit
    <2>2. ASSUME NEW i \in 0..(count' - 1)
          PROVE  /\ item'[Slot(i)'] = log'[Len(sent') + 1 + i]
                 /\ payload'[Slot(i)'] = log'[Len(sent') + 1 + i]
      <3>1. Slot(i)' = Slot(i) /\ sent' = sent /\ payload' = payload
            /\ count' = count + Len(group)
        BY DEF Commit, Slot
      <3>2. CASE i < count
        <4>1. i \in 0..(count - 1) /\ Len(sent) + 1 + i \in 1..Len(log)
          BY <1>3, <3>2
        <4>2. log'[Len(sent) + 1 + i] = log[Len(sent) + 1 + i]
          BY <1>2, <4>1
        <4>3. /\ item[Slot(i)] = log[Len(sent) + 1 + i]
              /\ payload[Slot(i)] = log[Len(sent) + 1 + i]
          BY <1>3, <4>1 DEF QueueHoldsSuffix
        <4> QED
          BY <1>1, <3>1, <4>1, <4>2, <4>3
      <3>3. CASE ~(i < count)
        <4> DEFINE k == i - count + 1
        <4>1. k \in 1..Len(group) /\ i = count + k - 1
              /\ Len(sent) + 1 + i = Len(log) + k
          BY <1>3, <3>1, <3>3
        <4>2. item'[Slot(i)] = group[k] /\ log'[Len(sent) + 1 + i] = group[k]
          BY <1>1, <1>2, <4>1
        <4>3. payload[Slot(i)] = group[k]
          <5>1. Len(group) = Len(buffers) /\ client = "fill"
            BY DEF Commit
          <5>2. buffers[k] = Slot(i) /\ payload[buffers[k]] = group[k]
            BY <1>3, <4>1, <5>1 DEF BuffersFollowTail
          <5> QED
            BY <5>2
        <4> QED
          BY <3>1, <4>2, <4>3
      <3> QED
        BY <3>2, <3>3
    <2> QED
      BY <1>3, <2>1, <2>2 DEF Commit, QueueHoldsSuffix
  <1> QED
    BY <1>4, <1>5, <1>6, <1>7, <1>8, <1>9

\* The sender's loop test copies the head descriptor of a non-empty queue.
LEMMA SenderLoopInv ==
    ASSUME RingInv, SenderLoop
    PROVE  RingInv'
  <1> USE DEF RingInv, TypeOK
  <1>1. TypeOK'
    BY DEF SenderLoop, ring
  <1>2. RingFits' /\ SentInOrder' /\ QueueHoldsSuffix' /\ BuffersFollowTail'
    BY DEF SenderLoop, ring, RingFits, SentInOrder, QueueHoldsSuffix, BuffersFollowTail,
           Slot
  <1>3. FlyingIsHead'
    BY DEF SenderLoop, ring, FlyingIsHead, QueueHoldsSuffix
  <1> QED
    BY <1>1, <1>2, <1>3

\* Releasing the head after a send keeps the invariant: the tail, and with it every
\* reserved buffer, stays where it was.
LEMMA SendOkInv ==
    ASSUME RingInv, SendOk
    PROVE  RingInv'
  <1> USE DEF RingInv, TypeOK
  <1>1. count > 0 /\ status = "ok" /\ flying = item[head]
    BY DEF SendOk, FlyingIsHead
  <1>2. Len(log) = Len(sent) + count
    BY <1>1 DEF QueueHoldsSuffix
  <1>3. \A i \in 0..(SlotCount - 1) : Slot(i)' = Slot(i + 1)
    BY SlotShift DEF SendOk, Slot
  <1>4. head' \in Slots
    BY SlotShift, ReplicaAssumption DEF SendOk
  <1>5. payload[head] = log[Len(sent) + 1] /\ item[head] = log[Len(sent) + 1]
    BY <1>1, SlotZero DEF QueueHoldsSuffix
  <1>6. /\ sent' \in Seq([item : Nat, body : Nat])
        /\ Len(sent') = Len(sent) + 1
        /\ \A k \in 1..Len(sent) : sent'[k] = sent[k]
        /\ sent'[Len(sent) + 1] = [item |-> flying, body |-> payload[head]]
    BY DEF SendOk
  <1>7. TypeOK'
    BY <1>1, <1>4, <1>6, ReplicaAssumption DEF SendOk, WakeDrain
  <1>8. RingFits' /\ FlyingIsHead'
    BY <1>1, ReplicaAssumption DEF SendOk, RingFits, FlyingIsHead
  <1>9. SentInOrder'
    <2>1. Len(sent') <= Len(log')
      BY <1>1, <1>2, <1>6 DEF SendOk
    <2>2. ASSUME NEW k \in 1..Len(sent')
          PROVE  sent'[k] = [item |-> log'[k], body |-> log'[k]]
      <3>1. CASE k \in 1..Len(sent)
        BY <1>6, <3>1 DEF SendOk, SentInOrder
      <3>2. CASE k = Len(sent) + 1
        BY <1>1, <1>5, <1>6, <3>2 DEF SendOk
      <3> QED
        BY <1>6, <3>1, <3>2, SMTT(30)
    <2> QED
      BY <2>1, <2>2 DEF SentInOrder
  <1>10. QueueHoldsSuffix'
    <2>1. Len(log') = Len(sent') + count'
      BY <1>2, <1>6 DEF SendOk
    <2>2. ASSUME NEW i \in 0..(count' - 1)
          PROVE  /\ item'[Slot(i)'] = log'[Len(sent') + 1 + i]
                 /\ payload'[Slot(i)'] = log'[Len(sent') + 1 + i]
      <3>1. /\ i + 1 \in 0..(count - 1) /\ i \in 0..(SlotCount - 1)
            /\ Len(sent') + 1 + i = Len(sent) + 1 + (i + 1)
        BY <1>6, ReplicaAssumption DEF SendOk
      <3>2. Slot(i)' = Slot(i + 1) /\ item' = item /\ payload' = payload /\ log' = log
        BY <1>3, <3>1 DEF SendOk
      <3>3. /\ item[Slot(i + 1)] = log[Len(sent) + 1 + (i + 1)]
            /\ payload[Slot(i + 1)] = log[Len(sent) + 1 + (i + 1)]
        BY <1>1, <3>1 DEF QueueHoldsSuffix
      <3> QED
        BY <3>1, <3>2, <3>3
    <2> QED
      BY <1>1, <2>1, <2>2 DEF SendOk, QueueHoldsSuffix
  <1>11. BuffersFollowTail'
    <2>1. CASE client = "fill"
      <3>1. \A i \in 1..Len(buffers) : buffers'[i] = Slot(count + i - 1)'
        <4> SUFFICES ASSUME NEW i \in 1..Len(buffers)
                     PROVE  buffers'[i] = Slot(count + i - 1)'
          OBVIOUS
        <4>1. buffers'[i] = Slot(count + i - 1)
          BY <1>1, <2>1 DEF SendOk, BuffersFollowTail
        <4>2. count + i - 2 \in 0..(SlotCount - 1)
          BY <1>1, <2>1, ReplicaAssumption DEF BuffersFollowTail, RingFits
        <4>3. Slot(count + i - 2 + 1) = (head' + (count + i - 2)) % SlotCount
          BY <4>2, SlotShift DEF SendOk, Slot
        <4>4. Slot(count + i - 1)' = (head' + (count' + i - 1)) % SlotCount
          BY DEF Slot
        <4>5. count + i - 2 + 1 = count + i - 1 /\ count' + i - 1 = count + i - 2
          BY DEF SendOk
        <4> QED
          BY <4>1, <4>3, <4>4, <4>5
      <3>2. client' = "fill"
        BY <2>1 DEF SendOk, WakeDrain
      <3>3. \A i \in 1..Len(group) : payload[buffers[i]] = group[i]
        BY <1>1, <2>1 DEF BuffersFollowTail
      <3> QED
        BY <2>1, <3>1, <3>2, <3>3 DEF SendOk, BuffersFollowTail
    <2>2. CASE client # "fill"
      BY <2>2 DEF SendOk, WakeDrain, BuffersFollowTail
    <2> QED
      BY <2>1, <2>2
  <1> QED
    BY <1>7, <1>8, <1>9, <1>10, <1>11

\* A failed send empties the queue for good.
LEMMA SendFailsInv ==
    ASSUME RingInv, SendFails
    PROVE  RingInv'
  <1> USE DEF RingInv, TypeOK
  <1>1. TypeOK'
    BY ReplicaAssumption DEF SendFails, AfterFailure, WakeDrain
  <1>2. RingFits' /\ SentInOrder' /\ QueueHoldsSuffix' /\ FlyingIsHead'
    BY ReplicaAssumption
    DEF SendFails, AfterFailure, RingFits, SentInOrder, QueueHoldsSuffix, FlyingIsHead
  <1>3. BuffersFollowTail'
    BY DEF SendFails, AfterFailure, WakeDrain, BuffersFollowTail
  <1> QED
    BY <1>1, <1>2, <1>3
-----------------------------------------------------------------------------
\* Every step of either thread keeps the invariant.
LEMMA NextInv == RingInv /\ [Next]_vars => RingInv'
  <1> SUFFICES ASSUME RingInv, [Next]_vars
               PROVE  RingInv'
    OBVIOUS
  <1>1. ASSUME NEW n \in 1..GroupMax, Reserve(n) PROVE RingInv'
    BY <1>1, ReserveInv
  <1>2. CASE Encode
    BY <1>2, EncodeInv
  <1>3. CASE Commit
    BY <1>3, CommitInv
  <1>4. CASE Cancel \/ CommitRefused \/ DrainCall \/ DrainWait \/ DrainReturn
             \/ Destroy \/ Join
    BY <1>4, QuietInv
  <1>5. CASE SenderLoop
    BY <1>5, SenderLoopInv
  <1>6. CASE SendOk
    BY <1>6, SendOkInv
  <1>7. CASE SendFails
    BY <1>7, SendFailsInv
  <1>8. CASE UNCHANGED vars
    BY <1>8 DEF vars, ring, threads, RingInv, TypeOK, RingFits, BuffersFollowTail,
                QueueHoldsSuffix, FlyingIsHead, SentInOrder, Slot
  <1> QED
    BY <1>1, <1>2, <1>3, <1>4, <1>5, <1>6, <1>7, <1>8 DEF Next, Client, Sender

\* The ring, the threads' local copies and the history are consistent in every
\* reachable state, for every depth of the ring.
THEOREM RingInvariant == Spec => []RingInv
  <1>1. Init => RingInv
    BY InitInv
  <1>2. RingInv /\ [Next]_vars => RingInv'
    BY NextInv
  <1> QED
    BY <1>1, <1>2, PTL DEF Spec

\* Frames leave in commit order, once, with the bytes their descriptor names
\* (replica_main reads the payload after it released the mutex).
THEOREM SentInOrderAlways == Spec => []SentInOrder
  <1>1. RingInv => SentInOrder
    BY DEF RingInv
  <1> QED
    BY <1>1, RingInvariant, PTL

\* The coordinator never encodes into a slot that is queued or on the wire.
THEOREM NoOverlapAlways == Spec => []NoOverlap
  <1>1. RingInv => NoOverlap
    <2> SUFFICES ASSUME RingInv, client = "fill", status = "ok",
                        NEW i \in 1..Len(buffers), NEW j \in 0..(count - 1)
                 PROVE  buffers[i] # Slot(j)
      BY DEF NoOverlap
    <2>1. /\ buffers[i] = Slot(count + i - 1)
          /\ count + i - 1 \in 0..(SlotCount - 1) /\ j \in 0..(SlotCount - 1)
          /\ count + i - 1 # j
      BY ReplicaAssumption DEF RingInv, TypeOK, RingFits, BuffersFollowTail
    <2> QED
      BY <2>1, SlotInjective DEF RingInv, TypeOK
  <1> QED
    BY <1>1, RingInvariant, PTL

\* A drain that reports success has left no committed batch behind.
THEOREM DrainIsCompleteAlways == Spec => DrainIsComplete
  <1>1. RingInv /\ [Next]_vars =>
          (client = "drain" /\ client' = "idle" /\ status = "ok" => Len(sent) = Len(log))
    <2> SUFFICES ASSUME RingInv, [Next]_vars, client = "drain", client' = "idle",
                        status = "ok"
                 PROVE  Len(sent) = Len(log)
      OBVIOUS
    <2>1. DrainReturn
      BY DEF Next, Client, Sender, vars, threads, Reserve, Encode, Cancel, Commit,
             CommitRefused, DrainCall, DrainWait, Destroy, Join, SenderLoop, SendOk,
             SendFails, WakeDrain
    <2>2. count = 0
      BY <2>1 DEF DrainReturn, MustWait, RingInv, TypeOK
    <2> QED
      BY <2>2 DEF RingInv, TypeOK, QueueHoldsSuffix
  <1> QED
    BY <1>1, RingInvariant, PTL DEF Spec, DrainIsComplete

\* The two threads over the slot ring implement the abstract queue.
THEOREM RingImplementsQueue == Spec => ImplementsQueue
  <1>1. Init => Queue!Init
    BY DEF Init, Queue!Init
  <1>2. RingInv /\ [Next]_vars => [Queue!Next]_Queue!queueVars
    <2> SUFFICES ASSUME RingInv, [Next]_vars
                 PROVE  [Queue!Next]_Queue!queueVars
      OBVIOUS
    <2> USE DEF Queue!queueVars, RingInv, TypeOK
    <2>1. ASSUME NEW n \in 1..GroupMax, Reserve(n) PROVE UNCHANGED <<log, sent, status>>
      BY <2>1 DEF Reserve
    <2>2. CASE Commit
      <3>1. Len(group) \in 1..GroupMax /\ count + Len(group) <= SlotCount
        BY <2>2, CommitStores
      <3>2. group \in [1..Len(group) -> Serials]
        OBVIOUS
      <3>3. group \in Queue!Groups
        BY <3>1, <3>2 DEF Queue!Groups
      <3>4. status = "ok" /\ log' = log \o group /\ UNCHANGED <<sent, status>>
        BY <2>2 DEF Commit
      <3>5. Len(log) - Len(sent) + Len(group) <= SlotCount
        BY <3>1, <3>4, ReplicaAssumption DEF QueueHoldsSuffix
      <3>6. ~(status = "failed") /\ UNCHANGED (status = "failed")
        BY <3>4
      <3>7. Queue!Publish(group)
        BY <3>4, <3>5, <3>6 DEF Queue!Publish
      <3> QED
        BY <3>3, <3>7 DEF Queue!Next
    <2>3. CASE SendOk
      <3>1. count > 0 /\ status = "ok" /\ flying = item[head]
        BY <2>3 DEF SendOk, FlyingIsHead
      <3>2. /\ Len(sent) < Len(log)
            /\ payload[head] = log[Len(sent) + 1] /\ item[head] = log[Len(sent) + 1]
        BY <3>1, SlotZero DEF QueueHoldsSuffix
      <3>3. Queue!Deliver
        BY <2>3, <3>1, <3>2 DEF SendOk, Queue!Deliver
      <3> QED
        BY <3>3 DEF Queue!Next
    <2>4. CASE SendFails
      <3>1. count > 0 /\ status = "ok" /\ Len(sent) < Len(log)
        BY <2>4 DEF SendFails, FlyingIsHead, QueueHoldsSuffix
      <3>2. Queue!Fail
        BY <2>4, <3>1 DEF SendFails, AfterFailure, Queue!Fail
      <3> QED
        BY <3>2 DEF Queue!Next
    <2>5. CASE Encode \/ Cancel \/ CommitRefused \/ DrainCall \/ DrainWait \/ DrainReturn
               \/ Destroy \/ Join \/ SenderLoop \/ UNCHANGED vars
      BY <2>5 DEF Encode, Cancel, CommitRefused, DrainCall, DrainWait, DrainReturn, Destroy,
                  Join, SenderLoop, vars, ring
    <2> QED
      BY <2>1, <2>2, <2>3, <2>4, <2>5 DEF Next, Client, Sender
  <1> QED
    BY <1>1, <1>2, RingInvariant, PTL DEF Spec, Queue!Spec, ImplementsQueue

-----------------------------------------------------------------------------
(* The page service.  The inductive invariant says where every batch of     *)
(* pages is between rank 0's queue and an owner's file, and what rank 0 may *)
(* rely on of an owner in each of its calls.                                *)

\* A frame's pages: some of the blocks, each with the session that computed it.
PageMaps == UNION {[S -> Nat] : S \in SUBSET Blocks}
PageFrames == [kind : {"none", "append", "fetch", "barrier", "begin", "result", "ack", "ready"},
               session : Nat, seq : Nat, pages : PageMaps]
PageOps == {"idle", "failed", "fetch", "fetchwait", "ring", "warmdrain", "barrier",
            "barrierwait", "begin", "beginwait"}
Guards == [nonce : Nat, next : 0..PageLimit, append : Nat, fetch : Nat]
Deaths == {"runs", "full", "disk", "crash"}

HostTypes ==
    /\ session \in 1..MaxSession /\ front \in 0..PageLimit
    /\ appendSeq \in [Owners -> 0..PageLimit] /\ fetchSeq \in [Owners -> 0..MaxFetch]
    /\ mask \in {{}, Owners} /\ warm \in Nat
    /\ transport \in {"ready", "pending", "poisoned"}
    /\ at \in [op : PageOps, owner : Nat, left : SUBSET Nat]
    /\ queue \in Seq([owner : Owners, frame : PageFrames])
WireTypes ==
    /\ bulk \in [Owners -> Seq(PageFrames)] /\ back \in [Owners -> Seq(PageFrames)]
    /\ ctl \in [Owners -> Seq(PageFrames)] /\ ready \in [Owners -> Seq(PageFrames)]
OwnerTypes ==
    /\ guard \in [Owners -> Guards] /\ file \in [Owners -> [Blocks -> Nat]]
    /\ wq \in [Owners -> Seq(PageMaps)] /\ writing \in [Owners -> BOOLEAN]
    /\ wstat \in [Owners -> {"ok", "failed"}] /\ opc \in [Owners -> {"poll", "drain", "read"}]
    /\ cur \in [Owners -> PageFrames] /\ died \in [Owners -> Deaths]

\* The appends of an owner that its worker has not taken, on the wire B or in the
\* replica's queue Q, and where their pages lie.
AppendsIn(B) == {B[i] : i \in {j \in 1..Len(B) : B[j].kind = "append"}}
QueuedFor(Q, o) == {Q[i].frame : i \in {j \in 1..Len(Q) : Q[j].owner = o}}
NoneQueued(Q, o) == \A i \in 1..Len(Q) : Q[i].owner # o
FirstPage(f) == Min(DOMAIN f.pages)
PagesEnd(f) == FirstPage(f) + Cardinality(DOMAIN f.pages)

\* A batch of consecutive pages of session s.
Batch(f, s) ==
    /\ f \in PageFrames /\ f.kind = "append" /\ f.session = s
    /\ FirstPage(f) \in Nat /\ PagesEnd(f) \in Nat /\ FirstPage(f) < PagesEnd(f)
    /\ DOMAIN f.pages = FirstPage(f)..(PagesEnd(f) - 1)
    /\ \A b \in DOMAIN f.pages : f.pages[b] = s
\* The batches in S continue an owner at append a and page n to append A and page F.
Continues(S, s, a, n, A, F) ==
    /\ a <= A /\ n <= F
    /\ \A f \in S : /\ Batch(f, s)
                    /\ a <= f.seq /\ f.seq < A /\ n <= FirstPage(f) /\ PagesEnd(f) <= F
    /\ \A f, g \in S : f.seq < g.seq => PagesEnd(f) <= FirstPage(g)
    /\ \A f, g \in S : f.seq = g.seq => f = g
    /\ \A q \in a..(A - 1) : \E f \in S : f.seq = q
    /\ \A b \in n..(F - 1) : \E f \in S : b \in DOMAIN f.pages
\* They are taken in the order of their numbers: the wire's first, then the queue's.
InOrder(B, Q, o) ==
    /\ \A i, j \in 1..Len(B) : (i < j /\ B[i].kind = "append" /\ B[j].kind = "append") =>
          B[i].seq < B[j].seq
    /\ \A i \in 1..Len(B), j \in 1..Len(Q) : (B[i].kind = "append" /\ Q[j].owner = o) =>
          B[i].seq < Q[j].frame.seq
    /\ \A i, j \in 1..Len(Q) : (i < j /\ Q[i].owner = o /\ Q[j].owner = o) =>
          Q[i].frame.seq < Q[j].frame.seq

\* The frames on a BULK stream: a fetch or a barrier is alone behind the appends,
\* and there are only fetches where the owners compute their pages.
AllAppend(B) == \A i \in 1..Len(B) : B[i].kind = "append"
EndsWith(B, k) ==
    B # <<>> /\ B[Len(B)].kind = k /\ \A i \in 1..(Len(B) - 1) : B[i].kind = "append"
Shape(B, Q, o, s, g, A, F) ==
    /\ \A i \in 1..Len(B) : B[i].session = s
    /\ Ring => \A i \in 1..Len(B) :
         B[i].kind = "fetch" /\ B[i].seq = g + i - 1 /\ \A b \in DOMAIN B[i].pages : b < F
    /\ ~Ring =>
         \/ AllAppend(B)
         \/ /\ EndsWith(B, "fetch") /\ NoneQueued(Q, o) /\ B[Len(B)].seq = g
            /\ \A b \in DOMAIN B[Len(B)].pages : b < F
         \/ EndsWith(B, "barrier") /\ NoneQueued(Q, o) /\ B[Len(B)].seq = A
\* The stream to owner o of session s, whose guard is at append a, page n and fetch g.
Stream(B, Q, o, s, a, n, g, A, F) ==
    /\ Continues(AppendsIn(B) \cup QueuedFor(Q, o), s, a, n, A, F)
    /\ InOrder(B, Q, o) /\ Shape(B, Q, o, s, g, A, F)

\* Nothing of a session is left between rank 0 and the owner.
Emptied(o) == bulk[o] = <<>> /\ wq[o] = <<>> /\ NoneQueued(queue, o)
\* Where a running worker is: in this session, asked to begin the next one, in
\* that handler, or in the next session.
Streaming(o) ==
    /\ guard[o].nonce = session /\ ctl[o] = <<>>
    /\ opc[o] # "poll" => cur[o].kind \in {"fetch", "barrier"}
BeginFrame == Frame("begin", session + 1, 0, None)
Asked(o) ==
    /\ guard[o].nonce = session /\ ctl[o] = <<BeginFrame>> /\ opc[o] = "poll" /\ Emptied(o)
Beginning(o) ==
    /\ guard[o].nonce = session /\ ctl[o] = <<>> /\ opc[o] = "drain" /\ cur[o] = BeginFrame
    /\ Emptied(o)
Fresh(o) ==
    /\ guard[o] = NewGuard(session + 1) /\ ctl[o] = <<>> /\ opc[o] = "poll" /\ Emptied(o)

\* The owner's file and writer: what the guard admitted is written or queued.
Stored(o) ==
    /\ wstat[o] = "ok" => \A b \in 0..(guard[o].next - 1) :
          file[o][b] = guard[o].nonce \/ \E i \in 1..Len(wq[o]) : b \in DOMAIN wq[o][i]
    /\ \A i \in 1..Len(wq[o]) : \A b \in DOMAIN wq[o][i] : wq[o][i][b] = guard[o].nonce
    /\ wq[o] # <<>> => guard[o].append > 0
Handling(o) ==
    opc[o] # "poll" /\ cur[o].kind = "fetch" =>
        cur[o].session = guard[o].nonce /\ \A b \in DOMAIN cur[o].pages : b < guard[o].next

\* What holds of an owner, running or not, and of one that runs.
WriterOK(o) ==
    /\ Len(wq[o]) <= WriteDepth /\ (writing[o] => wq[o] # <<>>)
    /\ opc[o] = "read" => wq[o] = <<>> /\ wstat[o] = "ok" /\ cur[o].kind = "fetch"
    /\ Ring => wq[o] = <<>>
ResultsOK(o) ==
    \A i \in 1..Len(back[o]) : back[o][i].kind = "result" =>
        \A b \in DOMAIN back[o][i].pages : back[o][i].pages[b] = back[o][i].session
RunsOK(o) ==
    /\ Stored(o) /\ Handling(o)
    /\ Streaming(o) \/ Asked(o) \/ Beginning(o) \/ Fresh(o)
    /\ guard[o].nonce = session =>
         Stream(bulk[o], queue, o, session, guard[o].append, guard[o].next, guard[o].fetch,
                appendSeq[o], front)
OwnerOK(o) == WriterOK(o) /\ ResultsOK(o) /\ (died[o] = "runs" => RunsOK(o))

\* What rank 0 relies on: an owner it waits for nothing from, ...
Served(o) ==
    /\ back[o] = <<>> /\ ready[o] = <<>>
    /\ died[o] = "runs" =>
         Streaming(o) /\ opc[o] = "poll" /\ fetchSeq[o] = guard[o].fetch /\ AllAppend(bulk[o])
\* ... the one it fetches from, ...
Fetching(o) ==
    /\ ready[o] = <<>> /\ (died[o] = "runs" => Streaming(o))
    /\ \/ /\ back[o] = <<>>
          /\ died[o] = "runs" =>
               \/ opc[o] = "poll" /\ guard[o].fetch = fetchSeq[o] /\ EndsWith(bulk[o], "fetch")
               \/ /\ opc[o] # "poll" /\ guard[o].fetch = fetchSeq[o] + 1
                  /\ bulk[o] = <<>> /\ cur[o].kind = "fetch"
       \/ /\ Len(back[o]) = 1
          /\ died[o] = "runs" =>
               opc[o] = "poll" /\ guard[o].fetch = fetchSeq[o] + 1 /\ bulk[o] = <<>>
\* ... one whose acknowledgement it awaits, one that has given it, ...
Barring(o) ==
    /\ ready[o] = <<>> /\ (died[o] = "runs" => Streaming(o))
    /\ \/ /\ back[o] = <<>>
          /\ died[o] = "runs" =>
               \/ opc[o] = "poll" /\ EndsWith(bulk[o], "barrier")
               \/ opc[o] = "drain" /\ bulk[o] = <<>> /\ cur[o].kind = "barrier"
       \/ /\ Len(back[o]) = 1 /\ back[o][1].kind = "ack"
          /\ died[o] = "runs" => opc[o] = "poll" /\ Emptied(o)
Rested(o) ==
    /\ back[o] = <<>> /\ ready[o] = <<>>
    /\ died[o] = "runs" => Streaming(o) /\ opc[o] = "poll" /\ Emptied(o)
\* ... one that is to begin the next session, one that has, ...
Joining(o) ==
    /\ back[o] = <<>>
    /\ \/ ready[o] = <<>> /\ (died[o] = "runs" => Asked(o) \/ Beginning(o))
       \/ Len(ready[o]) = 1 /\ (died[o] = "runs" => Fresh(o))
Joined(o) == back[o] = <<>> /\ ready[o] = <<>> /\ (died[o] = "runs" => Fresh(o))
\* ... and one that is asked for its pages while a ring prefill runs.
Warming(o) ==
    /\ ready[o] = <<>>
    /\ \A i \in 1..Len(back[o]) : back[o][i].kind = "result" /\ back[o][i].session = session
    /\ died[o] = "runs" =>
         /\ Streaming(o) /\ fetchSeq[o] = guard[o].fetch + Len(bulk[o])
         /\ opc[o] # "poll" => cur[o].kind = "fetch" /\ cur[o].session = session

\* The warm fetches that rank 0 has not seen answered.
Due(o) == Len(bulk[o]) + (IF opc[o] = "poll" THEN 0 ELSE 1) + Len(back[o])
Counted(d) == UNION {{<<o, i>> : i \in 1..d[o]} : o \in Owners}
Outstanding == Counted([o \in Owners |-> Due(o)])

Between == at.op \in {"idle", "failed", "fetch", "barrier"}
HostOK ==
    /\ Between =>
         /\ \A o \in Owners : Served(o)
         /\ at.op = "fetch" =>
              at.owner \in Owners /\ fetchSeq[at.owner] < MaxFetch /\ at.left \subseteq 0..(front - 1)
    /\ at.op = "fetchwait" =>
         /\ queue = <<>> /\ at.owner \in Owners /\ fetchSeq[at.owner] < MaxFetch
         /\ \A o \in Owners : IF o = at.owner THEN Fetching(o) ELSE Served(o)
    /\ IF at.op \in {"ring", "warmdrain"}
       THEN /\ Ring /\ IsFiniteSet(Outstanding) /\ warm = Cardinality(Outstanding)
            /\ \A o \in Owners : Warming(o)
       ELSE warm = 0
    /\ at.op = "barrierwait" =>
         /\ queue = <<>> /\ ~Ring /\ at.left \subseteq Owners /\ at.owner \in at.left
         /\ \A o \in Owners : IF o \in at.left THEN Barring(o) ELSE Rested(o)
    /\ at.op = "begin" => queue = <<>> /\ \A o \in Owners : Rested(o)
    /\ at.op = "beginwait" =>
         queue = <<>> /\ \A o \in Owners : IF o \in at.left THEN Joining(o) ELSE Joined(o)

Globals ==
    /\ \A o \in Owners : appendSeq[o] <= front
    /\ mask = {} => \A o \in Owners : appendSeq[o] = 0
    /\ Ring => queue = <<>> /\ mask = {}
    /\ transport = "poisoned" => Between
    /\ at.op \in {"barrier", "barrierwait", "begin", "beginwait"} => session < MaxSession
    /\ \A p \in got : p[3] = session

PagesIInv ==
    /\ HostTypes /\ WireTypes /\ OwnerTypes /\ Globals
    /\ \A o \in Owners : OwnerOK(o)
    /\ transport # "poisoned" => HostOK

\* What a batch's fields are.
LEMMA BatchIs ==
    ASSUME NEW f, NEW s, Batch(f, s)
    PROVE  /\ f.seq \in Nat /\ FirstPage(f) \in Nat /\ PagesEnd(f) \in Nat /\ FirstPage(f) < PagesEnd(f)
           /\ \A b : b \in DOMAIN f.pages <=> b \in FirstPage(f)..(PagesEnd(f) - 1)
  <1>1. f \in PageFrames /\ DOMAIN f.pages = FirstPage(f)..(PagesEnd(f) - 1)
    BY DEF Batch
  <1>2. f.seq \in Nat
    BY <1>1 DEF PageFrames
  <1> QED
    BY <1>1, <1>2 DEF Batch

\* Of batches that continue an owner the first one is the one its guard expects.
LEMMA ContinuesTake ==
    ASSUME NEW S, NEW s, NEW a \in Nat, NEW n \in Nat, NEW A \in Nat, NEW F \in Nat,
           Continues(S, s, a, n, A, F), NEW f \in S, \A g \in S : g = f \/ f.seq < g.seq
    PROVE  /\ Batch(f, s) /\ f.seq = a /\ FirstPage(f) = n /\ PagesEnd(f) <= F
           /\ Continues(S \ {f}, s, a + 1, PagesEnd(f), A, F)
  <1>1. \A g \in S : /\ Batch(g, s) /\ g.seq \in Nat
                     /\ FirstPage(g) \in Nat /\ PagesEnd(g) \in Nat /\ FirstPage(g) < PagesEnd(g)
                     /\ \A b : b \in DOMAIN g.pages <=> b \in FirstPage(g)..(PagesEnd(g) - 1)
    BY BatchIs DEF Continues
  <1>2. \A g \in S : a <= g.seq /\ g.seq < A /\ n <= FirstPage(g) /\ PagesEnd(g) <= F
    BY DEF Continues
  <1>3. f.seq = a
    <2>1. a \in a..(A - 1)
      BY <1>1, <1>2
    <2>2. PICK g \in S : g.seq = a
      BY <2>1 DEF Continues
    <2> QED
      BY <2>2, <1>1, <1>2
  <1>4. FirstPage(f) = n
    <2>1. n \in n..(F - 1)
      BY <1>1, <1>2
    <2>2. PICK g \in S : n \in DOMAIN g.pages
      BY <2>1 DEF Continues
    <2>3. n >= FirstPage(g)
      BY <2>2, <1>1
    <2>4. CASE g = f
      BY <2>3, <2>4, <1>1, <1>2
    <2>5. CASE f.seq < g.seq
      <3>1. PagesEnd(f) <= FirstPage(g)
        BY <2>5 DEF Continues
      <3> QED
        BY <3>1, <2>3, <1>1, <1>2
    <2> QED
      BY <2>4, <2>5
  <1>5. Continues(S \ {f}, s, a + 1, PagesEnd(f), A, F)
    <2>1. a + 1 <= A /\ PagesEnd(f) <= F
      BY <1>1, <1>2, <1>3
    <2>2. ASSUME NEW g \in S \ {f}
          PROVE  /\ Batch(g, s) /\ a + 1 <= g.seq /\ g.seq < A
                 /\ PagesEnd(f) <= FirstPage(g) /\ PagesEnd(g) <= F
      <3>1. f.seq < g.seq
        OBVIOUS
      <3>2. PagesEnd(f) <= FirstPage(g)
        BY <3>1 DEF Continues
      <3> QED
        BY <3>1, <3>2, <1>1, <1>2, <1>3
    <2>3. /\ \A g, h \in S \ {f} : g.seq < h.seq => PagesEnd(g) <= FirstPage(h)
          /\ \A g, h \in S \ {f} : g.seq = h.seq => g = h
      BY DEF Continues
    <2>4. ASSUME NEW q \in (a + 1)..(A - 1) PROVE \E g \in S \ {f} : g.seq = q
      <3>1. q \in a..(A - 1) /\ q # a
        OBVIOUS
      <3>2. PICK g \in S : g.seq = q
        BY <3>1 DEF Continues
      <3> QED
        BY <3>1, <3>2, <1>3
    <2>5. ASSUME NEW b \in PagesEnd(f)..(F - 1) PROVE \E g \in S \ {f} : b \in DOMAIN g.pages
      <3>1. b \in n..(F - 1) /\ ~(b \in FirstPage(f)..(PagesEnd(f) - 1))
        BY <1>1, <1>4
      <3>2. PICK g \in S : b \in DOMAIN g.pages
        BY <3>1 DEF Continues
      <3> QED
        BY <3>1, <3>2, <1>1
    <2> QED
      BY <2>1, <2>2, <2>3, <2>4, <2>5 DEF Continues
  <1> QED
    BY <1>1, <1>2, <1>3, <1>4, <1>5

\* A batch that is published continues the ones before it.
LEMMA ContinuesAdd ==
    ASSUME NEW S, NEW s, NEW a \in Nat, NEW n \in Nat, NEW A \in Nat, NEW F \in Nat,
           Continues(S, s, a, n, A, F), NEW f, Batch(f, s), f.seq = A, FirstPage(f) = F
    PROVE  Continues(S \cup {f}, s, a, n, A + 1, PagesEnd(f))
  <1>1. \A g \in S \cup {f} :
           /\ Batch(g, s) /\ g.seq \in Nat
           /\ FirstPage(g) \in Nat /\ PagesEnd(g) \in Nat /\ FirstPage(g) < PagesEnd(g)
           /\ \A b : b \in DOMAIN g.pages <=> b \in FirstPage(g)..(PagesEnd(g) - 1)
    BY BatchIs DEF Continues
  <1>2. \A g \in S : a <= g.seq /\ g.seq < A /\ n <= FirstPage(g) /\ PagesEnd(g) <= F
    BY DEF Continues
  <1>3. a <= A /\ n <= F
    BY DEF Continues
  <1>4. a <= A + 1 /\ n <= PagesEnd(f)
    BY <1>1, <1>3
  <1>5. \A g \in S \cup {f} : /\ Batch(g, s) /\ a <= g.seq /\ g.seq < A + 1
                              /\ n <= FirstPage(g) /\ PagesEnd(g) <= PagesEnd(f)
    BY <1>1, <1>2, <1>3
  <1>6. \A g, h \in S \cup {f} : g.seq < h.seq => PagesEnd(g) <= FirstPage(h)
    <2> SUFFICES ASSUME NEW g \in S \cup {f}, NEW h \in S \cup {f}, g.seq < h.seq
                 PROVE  PagesEnd(g) <= FirstPage(h)
      OBVIOUS
    <2>1. CASE h = f
      <3>1. g \in S
        BY <2>1, <1>1
      <3> QED
        BY <3>1, <2>1, <1>2
    <2>2. CASE h \in S
      <3>1. g \in S
        BY <2>2, <1>1, <1>2
      <3> QED
        BY <3>1, <2>2 DEF Continues
    <2> QED
      BY <2>1, <2>2
  <1>7. \A g, h \in S \cup {f} : g.seq = h.seq => g = h
    <2>1. \A g \in S : g.seq # f.seq
      BY <1>1, <1>2
    <2>2. \A g, h \in S : g.seq = h.seq => g = h
      BY DEF Continues
    <2> QED
      BY <2>1, <2>2
  <1>8. ASSUME NEW q \in a..(A + 1 - 1) PROVE \E g \in S \cup {f} : g.seq = q
    <2>1. CASE q = A
      BY <2>1
    <2>2. CASE q # A
      <3>1. q \in a..(A - 1)
        BY <2>2
      <3>2. \E g \in S : g.seq = q
        BY <3>1 DEF Continues
      <3> QED
        BY <3>2
    <2> QED
      BY <2>1, <2>2
  <1>9. ASSUME NEW b \in n..(PagesEnd(f) - 1) PROVE \E g \in S \cup {f} : b \in DOMAIN g.pages
    <2>1. CASE b < F
      <3>1. b \in n..(F - 1)
        BY <2>1, <1>1
      <3>2. \E g \in S : b \in DOMAIN g.pages
        BY <3>1 DEF Continues
      <3> QED
        BY <3>2
    <2>2. CASE ~(b < F)
      <3>1. b \in FirstPage(f)..(PagesEnd(f) - 1)
        BY <2>2, <1>1
      <3> QED
        BY <3>1, <1>1
    <2> QED
      BY <2>1, <2>2
  <1> QED
    BY <1>4, <1>5, <1>6, <1>7, <1>8, <1>9 DEF Continues

\* With no batch left the owner is where rank 0 is.
LEMMA ContinuesNone ==
    ASSUME NEW s, NEW a \in Nat, NEW n \in Nat, NEW A \in Nat, NEW F \in Nat,
           Continues({}, s, a, n, A, F)
    PROVE  a = A /\ n = F
  <1>1. a <= A /\ n <= F
    BY DEF Continues
  <1>2. a < A => a \in a..(A - 1)
    OBVIOUS
  <1>3. n < F => n \in n..(F - 1)
    OBVIOUS
  <1>4. ~(a < A)
    BY <1>2 DEF Continues
  <1>5. ~(n < F)
    BY <1>3 DEF Continues
  <1> QED
    BY <1>1, <1>4, <1>5

\* The empty stream.
LEMMA ContinuesEmpty ==
    ASSUME NEW s, NEW a \in Nat, NEW n \in Nat
    PROVE  Continues({}, s, a, n, a, n)
  BY DEF Continues

QueueItems == [owner : Owners, frame : PageFrames]

\* The rest of a stream, by position.
LEMMA RestIs ==
    ASSUME NEW T, NEW B \in Seq(T), B # <<>>
    PROVE  /\ Len(B) \in Nat \ {0} /\ Tail(B) \in Seq(T) /\ Len(Tail(B)) = Len(B) - 1
           /\ Head(B) = B[1] /\ 1 \in 1..Len(B) /\ Head(B) \in T
           /\ \A i \in 1..Len(Tail(B)) : i + 1 \in 1..Len(B) /\ Tail(B)[i] = B[i + 1]
           /\ \A i \in 1..Len(B) : i # 1 => i - 1 \in 1..Len(Tail(B)) /\ Tail(B)[i - 1] = B[i]
           /\ Len(B) = 1 => Tail(B) = <<>>
           /\ Len(B) # 1 => Tail(B) # <<>>
  <1>1. Len(B) \in Nat \ {0}
    BY EmptySeq
  <1>2. Tail(B) \in Seq(T) /\ Len(Tail(B)) = Len(B) - 1 /\ Head(B) \in T
    BY HeadTailProperties
  <1>3. \A i \in 1..Len(Tail(B)) : Tail(B)[i] = B[i + 1]
    BY HeadTailProperties
  <1>4. Len(B) = 1 => Tail(B) = <<>>
    <2> SUFFICES ASSUME Len(B) = 1, Tail(B) # <<>> PROVE FALSE
      OBVIOUS
    <2>1. Len(Tail(B)) \in Nat \ {0}
      BY <1>2, EmptySeq, Zenon
    <2> QED
      BY <2>1, <1>2
  <1>5. Len(B) # 1 => Tail(B) # <<>>
    <2> SUFFICES ASSUME Tail(B) = <<>> PROVE Len(B) = 1
      OBVIOUS
    <2>1. Len(Tail(B)) = 0
      BY EmptySeq, Zenon
    <2> QED
      BY <2>1, <1>1, <1>2
  <1>6. Head(B) = B[1]
    BY <1>1
  <1>7. \A i \in 1..Len(Tail(B)) : i + 1 \in 1..Len(B)
    BY <1>1, <1>2
  <1>8. \A i \in 1..Len(B) : i # 1 => i - 1 \in 1..Len(Tail(B)) /\ (i - 1) + 1 = i
    BY <1>1, <1>2
  <1>9. \A i \in 1..Len(B) : i # 1 => i - 1 \in 1..Len(Tail(B)) /\ Tail(B)[i - 1] = B[i]
    BY <1>3, <1>8
  <1> QED
    BY <1>1, <1>2, <1>3, <1>4, <1>5, <1>6, <1>7, <1>9

\* A frame more on a stream, by position.
LEMMA MoreIs ==
    ASSUME NEW T, NEW B \in Seq(T), NEW f \in T
    PROVE  /\ Len(B) \in Nat /\ Append(B, f) \in Seq(T) /\ Len(Append(B, f)) = Len(B) + 1
           /\ Append(B, f) # <<>> /\ Append(B, f)[Len(B) + 1] = f
           /\ \A i \in 1..Len(B) : Append(B, f)[i] = B[i]
           /\ \A i \in 1..Len(Append(B, f)) : i \in 1..Len(B) \/ i = Len(B) + 1
  <1>1. Len(B) \in Nat /\ Append(B, f) \in Seq(T) /\ Len(Append(B, f)) = Len(B) + 1
    BY LenProperties, AppendProperties
  <1>2. Append(B, f) # <<>>
    BY AppendProperties
  <1>3. /\ Append(B, f)[Len(B) + 1] = f
        /\ \A i \in 1..Len(B) : Append(B, f)[i] = B[i]
    BY AppendProperties
  <1> QED
    BY <1>1, <1>2, <1>3

\* The frame behind the appends is taken last.
LEMMA EndsTail ==
    ASSUME NEW B \in Seq(PageFrames), NEW k, k # "append", EndsWith(B, k)
    PROVE  \/ Head(B).kind = "append" /\ EndsWith(Tail(B), k) /\ Tail(B)[Len(Tail(B))] = B[Len(B)]
           \/ Head(B).kind = k /\ Tail(B) = <<>> /\ Head(B) = B[Len(B)]
  <1>0. B # <<>> /\ B[Len(B)].kind = k /\ \A i \in 1..(Len(B) - 1) : B[i].kind = "append"
    BY DEF EndsWith
  <1>1. PICK C : C = Tail(B)
    OBVIOUS
  <1>2. /\ Len(B) \in Nat \ {0} /\ Len(C) = Len(B) - 1 /\ Head(B) = B[1]
        /\ \A i \in 1..Len(C) : C[i] = B[i + 1]
        /\ (Len(B) = 1 => C = <<>>) /\ (Len(B) # 1 => C # <<>>)
    BY <1>0, <1>1, RestIs
  <1>3. CASE Len(B) = 1
    BY <1>0, <1>1, <1>2, <1>3
  <1>4. CASE Len(B) # 1
    <2>1. Head(B).kind = "append" /\ C # <<>>
      <3>1. 1 \in 1..(Len(B) - 1)
        BY <1>2, <1>4
      <3> QED
        BY <3>1, <1>0, <1>2, <1>4
    <2>2. C[Len(C)] = B[Len(B)]
      <3>1. Len(C) \in 1..Len(C) /\ Len(C) + 1 = Len(B)
        BY <1>2, <1>4
      <3>2. C[Len(C)] = B[Len(C) + 1]
        BY <3>1, <1>2
      <3> QED
        BY <3>1, <3>2
    <2>3. ASSUME NEW i \in 1..(Len(C) - 1) PROVE C[i].kind = "append"
      <3>1. i \in 1..Len(C) /\ i + 1 \in 1..(Len(B) - 1)
        BY <1>2
      <3> QED
        BY <3>1, <1>0, <1>2
    <2> QED
      BY <2>1, <2>2, <2>3, <1>0, <1>1 DEF EndsWith
  <1> QED
    BY <1>3, <1>4

\* The same of a stream of appends alone.
LEMMA AllTail ==
    ASSUME NEW B \in Seq(PageFrames), B # <<>>, AllAppend(B)
    PROVE  Head(B).kind = "append" /\ AllAppend(Tail(B))
  <1>1. /\ Head(B) = B[1] /\ 1 \in 1..Len(B)
        /\ \A i \in 1..Len(Tail(B)) : i + 1 \in 1..Len(B) /\ Tail(B)[i] = B[i + 1]
    BY RestIs
  <1> QED
    BY <1>1 DEF AllAppend

\* A frame behind a stream of appends ends it.
LEMMA EndsAppend ==
    ASSUME NEW B \in Seq(PageFrames), NEW f \in PageFrames, AllAppend(B)
    PROVE  /\ EndsWith(Append(B, f), f.kind) /\ Append(B, f)[Len(Append(B, f))] = f
           /\ f.kind = "append" => AllAppend(Append(B, f))
  <1>1. PICK C : C = Append(B, f)
    OBVIOUS
  <1>2. /\ Len(B) \in Nat /\ Len(C) = Len(B) + 1 /\ C # <<>> /\ C[Len(B) + 1] = f
        /\ \A i \in 1..Len(B) : C[i] = B[i]
        /\ \A i \in 1..Len(C) : i \in 1..Len(B) \/ i = Len(B) + 1
    BY <1>1, MoreIs
  <1>3. C[Len(C)] = f
    BY <1>2
  <1>4. \A i \in 1..(Len(C) - 1) : C[i].kind = "append"
    BY <1>2 DEF AllAppend
  <1>5. f.kind = "append" => AllAppend(C)
    BY <1>2 DEF AllAppend
  <1> QED
    BY <1>1, <1>2, <1>3, <1>4, <1>5 DEF EndsWith

\* No append is among frames of which none is one.
LEMMA NoAppends ==
    ASSUME NEW B, NEW Q, NEW o
    PROVE  /\ (\A i \in 1..Len(B) : B[i].kind # "append") => AppendsIn(B) = {}
           /\ NoneQueued(Q, o) => QueuedFor(Q, o) = {}
  BY DEF AppendsIn, QueuedFor, NoneQueued

\* Its head leaves the appends of a stream.
LEMMA AppendsTail ==
    ASSUME NEW B \in Seq(PageFrames), B # <<>>
    PROVE  /\ Head(B).kind # "append" => AppendsIn(Tail(B)) = AppendsIn(B)
           /\ Head(B).kind = "append" => AppendsIn(B) = AppendsIn(Tail(B)) \cup {Head(B)}
  <1>1. PICK C, h : C = Tail(B) /\ h = Head(B)
    OBVIOUS
  <1>2. /\ h = B[1] /\ 1 \in 1..Len(B)
        /\ \A i \in 1..Len(C) : i + 1 \in 1..Len(B) /\ C[i] = B[i + 1]
        /\ \A i \in 1..Len(B) : i # 1 => i - 1 \in 1..Len(C) /\ C[i - 1] = B[i]
    BY <1>1, RestIs
  <1>3. AppendsIn(C) \subseteq AppendsIn(B)
    BY <1>2 DEF AppendsIn
  <1>4. ASSUME NEW f \in AppendsIn(B) PROVE f \in AppendsIn(C) \/ (f = h /\ h.kind = "append")
    <2>1. PICK i \in 1..Len(B) : B[i].kind = "append" /\ f = B[i]
      BY DEF AppendsIn
    <2>2. CASE i = 1
      BY <2>1, <2>2, <1>2
    <2>3. CASE i # 1
      BY <2>1, <2>3, <1>2 DEF AppendsIn
    <2> QED
      BY <2>2, <2>3
  <1>5. h.kind = "append" => h \in AppendsIn(B)
    BY <1>2 DEF AppendsIn
  <1> QED
    BY <1>1, <1>3, <1>4, <1>5

\* A frame more on a stream adds an append exactly when it is one.
LEMMA AppendsMore ==
    ASSUME NEW B \in Seq(PageFrames), NEW f \in PageFrames
    PROVE  AppendsIn(Append(B, f)) = IF f.kind = "append" THEN AppendsIn(B) \cup {f} ELSE AppendsIn(B)
  <1>1. PICK C : C = Append(B, f)
    OBVIOUS
  <1>2. /\ Len(B) \in Nat /\ Len(C) = Len(B) + 1 /\ C[Len(B) + 1] = f
        /\ \A i \in 1..Len(B) : C[i] = B[i] /\ i \in 1..Len(C)
        /\ \A i \in 1..Len(C) : i \in 1..Len(B) \/ i = Len(B) + 1
    BY <1>1, MoreIs
  <1>3. AppendsIn(B) \subseteq AppendsIn(C)
    BY <1>2 DEF AppendsIn
  <1>4. f.kind = "append" => f \in AppendsIn(C)
    BY <1>2 DEF AppendsIn
  <1>5. ASSUME NEW g \in AppendsIn(C) PROVE g \in AppendsIn(B) \/ (g = f /\ f.kind = "append")
    <2>1. PICK i \in 1..Len(C) : C[i].kind = "append" /\ g = C[i]
      BY DEF AppendsIn
    <2>2. CASE i \in 1..Len(B)
      BY <2>1, <2>2, <1>2 DEF AppendsIn
    <2>3. CASE i = Len(B) + 1
      BY <2>1, <2>3, <1>2
    <2> QED
      BY <2>1, <2>2, <2>3, <1>2
  <1> QED
    BY <1>1, <1>3, <1>4, <1>5

\* An owner's batches in the replica's queue, when the head is taken.
LEMMA QueuedTail ==
    ASSUME NEW Q \in Seq(QueueItems), Q # <<>>, NEW o
    PROVE  /\ Head(Q).owner # o => QueuedFor(Tail(Q), o) = QueuedFor(Q, o)
           /\ Head(Q).owner = o => QueuedFor(Q, o) = QueuedFor(Tail(Q), o) \cup {Head(Q).frame}
           /\ NoneQueued(Q, o) => NoneQueued(Tail(Q), o) /\ Head(Q).owner # o
  <1>1. PICK C, h : C = Tail(Q) /\ h = Head(Q)
    OBVIOUS
  <1>2. /\ h = Q[1] /\ 1 \in 1..Len(Q)
        /\ \A i \in 1..Len(C) : i + 1 \in 1..Len(Q) /\ C[i] = Q[i + 1]
        /\ \A i \in 1..Len(Q) : i # 1 => i - 1 \in 1..Len(C) /\ C[i - 1] = Q[i]
    BY <1>1, RestIs
  <1>3. ASSUME NEW f \in QueuedFor(C, o) PROVE f \in QueuedFor(Q, o)
    <2>1. PICK i \in 1..Len(C) : C[i].owner = o /\ f = C[i].frame
      BY DEF QueuedFor
    <2>2. PICK j \in 1..Len(Q) : Q[j] = C[i]
      BY <2>1, <1>2
    <2> QED
      BY <2>1, <2>2 DEF QueuedFor
  <1>4. ASSUME NEW f \in QueuedFor(Q, o) PROVE f \in QueuedFor(C, o) \/ (f = h.frame /\ h.owner = o)
    <2>1. PICK i \in 1..Len(Q) : Q[i].owner = o /\ f = Q[i].frame
      BY DEF QueuedFor
    <2>2. CASE i = 1
      BY <2>1, <2>2, <1>2
    <2>3. CASE i # 1
      BY <2>1, <2>3, <1>2 DEF QueuedFor
    <2> QED
      BY <2>2, <2>3
  <1>5. h.owner = o => h.frame \in QueuedFor(Q, o)
    BY <1>2 DEF QueuedFor
  <1>6. NoneQueued(Q, o) => NoneQueued(C, o) /\ h.owner # o
    BY <1>2 DEF NoneQueued
  <1> QED
    BY <1>1, <1>3, <1>4, <1>5, <1>6

\* Every batch of a stream has a number, and the head's is the least.
LEMMA HeadIsFirst ==
    ASSUME NEW B \in Seq(PageFrames), NEW Q, NEW o, InOrder(B, Q, o),
           B # <<>>, Head(B).kind = "append"
    PROVE  /\ \A f \in AppendsIn(Tail(B)) \cup QueuedFor(Q, o) : Head(B).seq < f.seq
           /\ InOrder(Tail(B), Q, o)
  <1>1. PICK C, h : C = Tail(B) /\ h = Head(B)
    OBVIOUS
  <1>2. /\ h = B[1] /\ 1 \in 1..Len(B) /\ Len(B) \in Nat
        /\ \A i \in 1..Len(C) : i + 1 \in 1..Len(B) /\ C[i] = B[i + 1]
    BY <1>1, RestIs
  <1>3. ASSUME NEW f \in AppendsIn(C) PROVE h.seq < f.seq
    <2>1. PICK i \in 1..Len(C) : C[i].kind = "append" /\ f = C[i]
      BY DEF AppendsIn
    <2>2. i + 1 \in 1..Len(B) /\ 1 < i + 1 /\ B[i + 1] = f
      BY <2>1, <1>2
    <2>3. \A k \in 1..Len(B) : (1 < k /\ B[1].kind = "append" /\ B[k].kind = "append") => B[1].seq < B[k].seq
      BY <1>2 DEF InOrder
    <2> QED
      BY <2>1, <2>2, <2>3, <1>1, <1>2
  <1>4. ASSUME NEW f \in QueuedFor(Q, o) PROVE h.seq < f.seq
    BY <1>1, <1>2 DEF QueuedFor, InOrder
  <1>5. InOrder(C, Q, o)
    <2>1. ASSUME NEW i \in 1..Len(C), NEW j \in 1..Len(C), i < j,
                 C[i].kind = "append", C[j].kind = "append"
          PROVE  C[i].seq < C[j].seq
      <3>1. i + 1 \in 1..Len(B) /\ j + 1 \in 1..Len(B) /\ i + 1 < j + 1
        BY <2>1, <1>2
      <3> QED
        BY <3>1, <2>1, <1>2 DEF InOrder
    <2>2. ASSUME NEW i \in 1..Len(C), NEW j \in 1..Len(Q), C[i].kind = "append", Q[j].owner = o
          PROVE  C[i].seq < Q[j].frame.seq
      BY <2>2, <1>2 DEF InOrder
    <2> QED
      BY <2>1, <2>2 DEF InOrder
  <1> QED
    BY <1>1, <1>3, <1>4, <1>5

\* What stands before the first frame of a stream, or between its appends, stays so.
LEMMA ShapeTail ==
    ASSUME NEW B \in Seq(PageFrames), B # <<>>, NEW Q, NEW o, NEW s, NEW g \in Nat, NEW A, NEW F,
           Shape(B, Q, o, s, g, A, F)
    PROVE  /\ Head(B).session = s
           /\ Head(B).kind = "append" => ~Ring /\ Shape(Tail(B), Q, o, s, g, A, F)
           /\ Head(B).kind = "fetch" =>
                /\ Head(B).seq = g /\ (\A b \in DOMAIN Head(B).pages : b < F)
                /\ Shape(Tail(B), Q, o, s, g + 1, A, F)
                /\ ~Ring => Tail(B) = <<>> /\ NoneQueued(Q, o)
           /\ Head(B).kind = "barrier" =>
                ~Ring /\ Head(B).seq = A /\ Tail(B) = <<>> /\ NoneQueued(Q, o)
  <1>1. PICK C, h : C = Tail(B) /\ h = Head(B)
    OBVIOUS
  <1>2. /\ h = B[1] /\ 1 \in 1..Len(B) /\ Len(B) \in Nat \ {0} /\ Len(C) = Len(B) - 1
        /\ \A i \in 1..Len(C) : i + 1 \in 1..Len(B) /\ C[i] = B[i + 1]
    BY <1>1, RestIs
  <1>3. h.session = s /\ \A i \in 1..Len(C) : C[i].session = s
    BY <1>2 DEF Shape
  <1>4. CASE Ring
    <2>1. h.kind = "fetch" /\ h.seq = g + 1 - 1 /\ \A b \in DOMAIN h.pages : b < F
      BY <1>2, <1>4 DEF Shape
    <2>2. ASSUME NEW i \in 1..Len(C)
          PROVE  C[i].kind = "fetch" /\ C[i].seq = (g + 1) + i - 1 /\ \A b \in DOMAIN C[i].pages : b < F
      <3>1. B[i + 1].kind = "fetch" /\ B[i + 1].seq = g + (i + 1) - 1 /\ \A b \in DOMAIN B[i + 1].pages : b < F
        BY <1>2, <1>4 DEF Shape
      <3> QED
        BY <3>1, <1>2
    <2>3. Shape(C, Q, o, s, g + 1, A, F)
      BY <2>2, <1>3, <1>4 DEF Shape
    <2> QED
      BY <2>1, <2>3, <1>1, <1>3, <1>4
  <1>5. CASE ~Ring
    <2>0. \/ AllAppend(B)
          \/ /\ EndsWith(B, "fetch") /\ NoneQueued(Q, o) /\ B[Len(B)].seq = g
             /\ \A b \in DOMAIN B[Len(B)].pages : b < F
          \/ EndsWith(B, "barrier") /\ NoneQueued(Q, o) /\ B[Len(B)].seq = A
      BY <1>5 DEF Shape
    <2>1. CASE AllAppend(B)
      <3>1. h.kind = "append" /\ AllAppend(C)
        BY <2>1, <1>1, AllTail
      <3>2. Shape(C, Q, o, s, g, A, F)
        BY <3>1, <1>3, <1>5 DEF Shape
      <3> QED
        BY <3>1, <3>2, <1>1, <1>3, <1>5
    <2>2. CASE /\ EndsWith(B, "fetch") /\ NoneQueued(Q, o) /\ B[Len(B)].seq = g
               /\ \A b \in DOMAIN B[Len(B)].pages : b < F
      <3>1. \/ h.kind = "append" /\ EndsWith(C, "fetch") /\ C[Len(C)] = B[Len(B)]
            \/ h.kind = "fetch" /\ C = <<>> /\ h = B[Len(B)]
        BY <2>2, <1>1, EndsTail
      <3>2. CASE h.kind = "append" /\ EndsWith(C, "fetch") /\ C[Len(C)] = B[Len(B)]
        <4>1. Shape(C, Q, o, s, g, A, F)
          BY <3>2, <2>2, <1>3, <1>5 DEF Shape
        <4> QED
          BY <4>1, <3>2, <1>1, <1>3, <1>5
      <3>3. CASE h.kind = "fetch" /\ C = <<>> /\ h = B[Len(B)]
        <4>1. AllAppend(C)
          BY <3>3 DEF AllAppend
        <4>2. Shape(C, Q, o, s, g + 1, A, F)
          BY <4>1, <1>3, <1>5 DEF Shape
        <4> QED
          BY <4>2, <3>3, <2>2, <1>1, <1>3, <1>5
      <3> QED
        BY <3>1, <3>2, <3>3
    <2>3. CASE EndsWith(B, "barrier") /\ NoneQueued(Q, o) /\ B[Len(B)].seq = A
      <3>1. \/ h.kind = "append" /\ EndsWith(C, "barrier") /\ C[Len(C)] = B[Len(B)]
            \/ h.kind = "barrier" /\ C = <<>> /\ h = B[Len(B)]
        BY <2>3, <1>1, EndsTail
      <3>2. CASE h.kind = "append" /\ EndsWith(C, "barrier") /\ C[Len(C)] = B[Len(B)]
        <4>1. Shape(C, Q, o, s, g, A, F)
          BY <3>2, <2>3, <1>3, <1>5 DEF Shape
        <4> QED
          BY <4>1, <3>2, <1>1, <1>3, <1>5
      <3>3. CASE h.kind = "barrier" /\ C = <<>> /\ h = B[Len(B)]
        BY <3>3, <2>3, <1>1, <1>3, <1>5
      <3> QED
        BY <3>1, <3>2, <3>3
    <2> QED
      BY <2>0, <2>1, <2>2, <2>3
  <1> QED
    BY <1>4, <1>5

\* The session and the number of a frame.
Numbered(f, s, q) == f.session = s /\ f.seq = q

\* A stream without frames, nothing queued: the owner is where rank 0 is.
LEMMA StreamRest ==
    ASSUME NEW Q, NEW o, NEW s, NEW a \in Nat, NEW n \in Nat, NEW g, NEW A \in Nat, NEW F \in Nat,
           NoneQueued(Q, o), NEW B, Continues(AppendsIn(B) \cup QueuedFor(Q, o), s, a, n, A, F),
           \A i \in 1..Len(B) : B[i].kind # "append"
    PROVE  a = A /\ n = F
  <1>1. Continues({}, s, a, n, A, F)
    <2>1. AppendsIn(B) = {} /\ QueuedFor(Q, o) = {}
      BY NoAppends
    <2>2. AppendsIn(B) \cup QueuedFor(Q, o) = {}
      BY <2>1
    <2> QED
      BY <2>2
  <1> QED
    BY <1>1, ContinuesNone

\* An owner that has all rank 0 sent: its stream is empty.
LEMMA StreamEmpty ==
    ASSUME NEW Q, NEW o, NEW s, NEW a \in Nat, NEW n \in Nat, NEW g, NoneQueued(Q, o)
    PROVE  Stream(<<>>, Q, o, s, a, n, g, a, n)
  <1>0. PICK B : B = <<>>
    OBVIOUS
  <1>1. Len(B) = 0
    BY <1>0
  <1>2. \A i \in 1..Len(B) : FALSE
    BY <1>1
  <1>3. AppendsIn(B) \cup QueuedFor(Q, o) = {}
    BY <1>2, NoAppends
  <1>4. Continues(AppendsIn(B) \cup QueuedFor(Q, o), s, a, n, a, n)
    BY <1>3, ContinuesEmpty
  <1>5. InOrder(B, Q, o)
    BY <1>2 DEF InOrder, NoneQueued
  <1>6. AllAppend(B)
    BY <1>2 DEF AllAppend
  <1>7. Shape(B, Q, o, s, g, a, n)
    BY <1>2, <1>6 DEF Shape
  <1>8. Stream(B, Q, o, s, a, n, g, a, n)
    BY <1>4, <1>5, <1>7 DEF Stream
  <1> QED
    BY <1>8, <1>0

\* The worker takes an append: it is the one the guard expects.
LEMMA StreamTakeAppend ==
    ASSUME NEW B \in Seq(PageFrames), B # <<>>, NEW Q, NEW o, NEW s, NEW a \in Nat, NEW n \in Nat,
           NEW g \in Nat, NEW A \in Nat, NEW F \in Nat, Stream(B, Q, o, s, a, n, g, A, F),
           Head(B).kind = "append"
    PROVE  /\ ~Ring /\ Batch(Head(B), s) /\ Head(B).session = s /\ Head(B).seq = a
           /\ FirstPage(Head(B)) = n /\ PagesEnd(Head(B)) <= F
           /\ Stream(Tail(B), Q, o, s, a + 1, PagesEnd(Head(B)), g, A, F)
  <1>1. PICK C, h : C = Tail(B) /\ h = Head(B)
    OBVIOUS
  <1>0. /\ Continues(AppendsIn(B) \cup QueuedFor(Q, o), s, a, n, A, F)
        /\ InOrder(B, Q, o) /\ Shape(B, Q, o, s, g, A, F)
    BY DEF Stream
  <1>2. /\ \A f \in AppendsIn(C) \cup QueuedFor(Q, o) : h.seq < f.seq
        /\ InOrder(C, Q, o)
    BY <1>0, <1>1, HeadIsFirst
  <1>3. ~Ring /\ h.session = s /\ Shape(C, Q, o, s, g, A, F)
    BY <1>0, <1>1, ShapeTail
  <1>4. AppendsIn(B) = AppendsIn(C) \cup {h}
    BY <1>1, AppendsTail
  <1>5. PICK S : S = AppendsIn(B) \cup QueuedFor(Q, o)
    OBVIOUS
  <1>6. /\ h \in S /\ \A f \in S : f = h \/ h.seq < f.seq
    BY <1>2, <1>4, <1>5
  <1>7. Continues(S, s, a, n, A, F)
    BY <1>0, <1>5
  <1>8. /\ Batch(h, s) /\ h.seq = a /\ FirstPage(h) = n /\ PagesEnd(h) <= F
        /\ Continues(S \ {h}, s, a + 1, PagesEnd(h), A, F)
    BY <1>6, <1>7, ContinuesTake
  <1>9. S \ {h} = AppendsIn(C) \cup QueuedFor(Q, o)
    <2>1. h.seq \in Nat
      BY <1>8, BatchIs
    <2>2. ~(h \in AppendsIn(C) \cup QueuedFor(Q, o))
      BY <2>1, <1>2
    <2> QED
      BY <2>2, <1>4, <1>5
  <1>10. Stream(C, Q, o, s, a + 1, PagesEnd(h), g, A, F)
    BY <1>8, <1>9, <1>2, <1>3 DEF Stream
  <1> QED
    BY <1>10, <1>1, <1>3, <1>8

\* The worker takes a fetch: every batch before it was taken.
LEMMA StreamTakeFetch ==
    ASSUME NEW B \in Seq(PageFrames), B # <<>>, NEW Q, NEW o, NEW s, NEW a \in Nat, NEW n \in Nat,
           NEW g \in Nat, NEW A \in Nat, NEW F \in Nat, Stream(B, Q, o, s, a, n, g, A, F),
           Head(B).kind = "fetch", Ring => NoneQueued(Q, o)
    PROVE  /\ Numbered(Head(B), s, g)
           /\ n = F /\ a = A /\ \A b \in DOMAIN Head(B).pages : b < n
           /\ ~Ring => Tail(B) = <<>>
           /\ Stream(Tail(B), Q, o, s, a, n, g + 1, A, F)
  <1>1. PICK C, h : C = Tail(B) /\ h = Head(B)
    OBVIOUS
  <1>0. /\ Continues(AppendsIn(B) \cup QueuedFor(Q, o), s, a, n, A, F)
        /\ InOrder(B, Q, o) /\ Shape(B, Q, o, s, g, A, F)
    BY DEF Stream
  <1>2. /\ h.session = s /\ h.seq = g /\ (\A b \in DOMAIN h.pages : b < F)
        /\ Shape(C, Q, o, s, g + 1, A, F) /\ (~Ring => C = <<>> /\ NoneQueued(Q, o))
    BY <1>0, <1>1, ShapeTail
  <1>3. NoneQueued(Q, o)
    BY <1>2
  <1>4. AppendsIn(C) = AppendsIn(B)
    BY <1>1, AppendsTail
  <1>5. \A i \in 1..Len(C) : C[i].kind # "append"
    <2>1. CASE Ring
      BY <2>1, <1>2 DEF Shape
    <2>2. CASE ~Ring
      <3>1. Len(C) = 0
        BY <2>2, <1>2
      <3> QED
        BY <3>1
    <2> QED
      BY <2>1, <2>2
  <1>6. Continues(AppendsIn(C) \cup QueuedFor(Q, o), s, a, n, A, F)
    BY <1>0, <1>4
  <1>7. a = A /\ n = F
    BY <1>3, <1>5, <1>6, StreamRest
  <1>8. InOrder(C, Q, o)
    BY <1>3, <1>5 DEF InOrder, NoneQueued
  <1>9. Stream(C, Q, o, s, a, n, g + 1, A, F)
    BY <1>2, <1>6, <1>8 DEF Stream
  <1> QED
    BY <1>1, <1>2, <1>7, <1>9 DEF Numbered

\* The worker takes a barrier: every batch rank 0 published was taken.
LEMMA StreamTakeBarrier ==
    ASSUME NEW B \in Seq(PageFrames), B # <<>>, NEW Q, NEW o, NEW s, NEW a \in Nat, NEW n \in Nat,
           NEW g \in Nat, NEW A \in Nat, NEW F \in Nat, Stream(B, Q, o, s, a, n, g, A, F),
           Head(B).kind = "barrier"
    PROVE  /\ Numbered(Head(B), s, a)
           /\ n = F /\ a = A /\ ~Ring /\ Tail(B) = <<>> /\ NoneQueued(Q, o)
           /\ Stream(Tail(B), Q, o, s, a, n, g, A, F)
  <1>1. PICK C, h : C = Tail(B) /\ h = Head(B)
    OBVIOUS
  <1>0. /\ Continues(AppendsIn(B) \cup QueuedFor(Q, o), s, a, n, A, F)
        /\ InOrder(B, Q, o) /\ Shape(B, Q, o, s, g, A, F)
    BY DEF Stream
  <1>2. /\ h.session = s /\ ~Ring /\ h.seq = A /\ C = <<>> /\ NoneQueued(Q, o)
    BY <1>0, <1>1, ShapeTail
  <1>4. AppendsIn(C) = AppendsIn(B)
    BY <1>1, AppendsTail
  <1>5. \A i \in 1..Len(C) : C[i].kind # "append"
    <2>1. Len(C) = 0
      BY <1>2
    <2> QED
      BY <2>1
  <1>6. Continues(AppendsIn(C) \cup QueuedFor(Q, o), s, a, n, A, F)
    BY <1>0, <1>4
  <1>7. a = A /\ n = F
    BY <1>2, <1>5, <1>6, StreamRest
  <1>8. Stream(<<>>, Q, o, s, a, n, g, a, n)
    BY <1>2, StreamEmpty
  <1> QED
    BY <1>1, <1>2, <1>7, <1>8 DEF Numbered

\* The sender puts the head of the queue on the wire.
LEMMA StreamSend ==
    ASSUME NEW B \in Seq(PageFrames), NEW Q \in Seq(QueueItems), Q # <<>>, NEW o, NEW s,
           NEW a, NEW n, NEW g, NEW A, NEW F, Stream(B, Q, o, s, a, n, g, A, F),
           Head(Q).owner = o, ~Ring
    PROVE  Stream(Append(B, Head(Q).frame), Tail(Q), o, s, a, n, g, A, F)
  <1>1. PICK C, h, D : C = Tail(Q) /\ h = Head(Q) /\ D = Append(B, h.frame)
    OBVIOUS
  <1>0. /\ Continues(AppendsIn(B) \cup QueuedFor(Q, o), s, a, n, A, F)
        /\ InOrder(B, Q, o) /\ Shape(B, Q, o, s, g, A, F)
    BY DEF Stream
  <1>2. /\ h = Q[1] /\ 1 \in 1..Len(Q) /\ Len(Q) \in Nat /\ h \in QueueItems
        /\ \A i \in 1..Len(C) : i + 1 \in 1..Len(Q) /\ C[i] = Q[i + 1]
    BY <1>1, RestIs
  <1>3. h.frame \in PageFrames
    BY <1>2 DEF QueueItems
  <1>4. /\ Len(B) \in Nat /\ Len(D) = Len(B) + 1 /\ D[Len(B) + 1] = h.frame
        /\ \A i \in 1..Len(B) : D[i] = B[i]
        /\ \A i \in 1..Len(D) : i \in 1..Len(B) \/ i = Len(B) + 1
    BY <1>1, <1>3, MoreIs
  <1>5. QueuedFor(Q, o) = QueuedFor(C, o) \cup {h.frame}
    BY <1>1, QueuedTail
  <1>6. h.frame.kind = "append" /\ h.frame.session = s
    BY <1>0, <1>5 DEF Continues, Batch
  <1>7. AppendsIn(D) = AppendsIn(B) \cup {h.frame}
    BY <1>1, <1>3, <1>6, AppendsMore
  <1>8. Continues(AppendsIn(D) \cup QueuedFor(C, o), s, a, n, A, F)
    <2>1. AppendsIn(D) \cup QueuedFor(C, o) = AppendsIn(B) \cup QueuedFor(Q, o)
      BY <1>5, <1>7
    <2> QED
      BY <2>1, <1>0
  <1>9. InOrder(D, C, o)
    <2>1. ASSUME NEW i \in 1..Len(D), NEW j \in 1..Len(D), i < j,
                 D[i].kind = "append", D[j].kind = "append"
          PROVE  D[i].seq < D[j].seq
      <3>1. i \in 1..Len(B)
        BY <2>1, <1>4
      <3>2. CASE j \in 1..Len(B)
        BY <3>1, <3>2, <2>1, <1>0, <1>4 DEF InOrder
      <3>3. CASE j = Len(B) + 1
        BY <3>1, <3>3, <2>1, <1>0, <1>1, <1>2, <1>4 DEF InOrder
      <3> QED
        BY <3>2, <3>3, <1>4
    <2>2. ASSUME NEW i \in 1..Len(D), NEW j \in 1..Len(C), D[i].kind = "append", C[j].owner = o
          PROVE  D[i].seq < C[j].frame.seq
      <3>1. CASE i \in 1..Len(B)
        BY <3>1, <2>2, <1>0, <1>2, <1>4 DEF InOrder
      <3>2. CASE i = Len(B) + 1
        <4>1. j + 1 \in 1..Len(Q) /\ 1 < j + 1 /\ C[j] = Q[j + 1]
          BY <1>2
        <4>2. Q[1].frame.seq < Q[j + 1].frame.seq
          BY <4>1, <2>2, <1>0, <1>1, <1>2 DEF InOrder
        <4> QED
          BY <4>1, <4>2, <3>2, <1>2, <1>4
      <3> QED
        BY <3>1, <3>2, <1>4
    <2>3. ASSUME NEW i \in 1..Len(C), NEW j \in 1..Len(C), i < j, C[i].owner = o, C[j].owner = o
          PROVE  C[i].frame.seq < C[j].frame.seq
      <3>1. i + 1 \in 1..Len(Q) /\ j + 1 \in 1..Len(Q) /\ i + 1 < j + 1 /\ C[i] = Q[i + 1] /\ C[j] = Q[j + 1]
        BY <2>3, <1>2
      <3> QED
        BY <3>1, <2>3, <1>0 DEF InOrder
    <2> QED
      BY <2>1, <2>2, <2>3 DEF InOrder
  <1>10. Shape(D, C, o, s, g, A, F)
    <2>1. ~NoneQueued(Q, o)
      BY <1>1, <1>2 DEF NoneQueued
    <2>2. AllAppend(B)
      BY <2>1, <1>0 DEF Shape
    <2>3. AllAppend(D)
      BY <2>2, <1>1, <1>3, <1>6, EndsAppend
    <2>4. \A i \in 1..Len(D) : D[i].session = s
      BY <1>0, <1>4, <1>6 DEF Shape
    <2> QED
      BY <2>3, <2>4 DEF Shape
  <1>11. Stream(D, C, o, s, a, n, g, A, F)
    BY <1>8, <1>9, <1>10 DEF Stream
  <1> QED
    BY <1>11, <1>1

\* ... and leaves the streams to the other owners alone.
LEMMA StreamSendOther ==
    ASSUME NEW B, NEW Q \in Seq(QueueItems), Q # <<>>, NEW o, NEW s,
           NEW a, NEW n, NEW g, NEW A, NEW F, Stream(B, Q, o, s, a, n, g, A, F),
           Head(Q).owner # o
    PROVE  Stream(B, Tail(Q), o, s, a, n, g, A, F)
  <1>1. PICK C, h : C = Tail(Q) /\ h = Head(Q)
    OBVIOUS
  <1>0. /\ Continues(AppendsIn(B) \cup QueuedFor(Q, o), s, a, n, A, F)
        /\ InOrder(B, Q, o) /\ Shape(B, Q, o, s, g, A, F)
    BY DEF Stream
  <1>2. /\ Len(Q) \in Nat
        /\ \A i \in 1..Len(C) : i + 1 \in 1..Len(Q) /\ C[i] = Q[i + 1]
    BY <1>1, RestIs
  <1>3. QueuedFor(C, o) = QueuedFor(Q, o) /\ (NoneQueued(Q, o) => NoneQueued(C, o))
    BY <1>1, QueuedTail
  <1>4. InOrder(B, C, o)
    <2>1. \A i, j \in 1..Len(B) : (i < j /\ B[i].kind = "append" /\ B[j].kind = "append") =>
            B[i].seq < B[j].seq
      BY <1>0 DEF InOrder
    <2>2. \A i \in 1..Len(B), j \in 1..Len(C) : (B[i].kind = "append" /\ C[j].owner = o) =>
            B[i].seq < C[j].frame.seq
      BY <1>0, <1>2 DEF InOrder
    <2>3. ASSUME NEW i \in 1..Len(C), NEW j \in 1..Len(C), i < j, C[i].owner = o, C[j].owner = o
          PROVE  C[i].frame.seq < C[j].frame.seq
      <3>1. i + 1 \in 1..Len(Q) /\ j + 1 \in 1..Len(Q) /\ i + 1 < j + 1 /\ C[i] = Q[i + 1] /\ C[j] = Q[j + 1]
        BY <2>3, <1>2
      <3> QED
        BY <3>1, <2>3, <1>0 DEF InOrder
    <2> QED
      BY <2>1, <2>2, <2>3 DEF InOrder
  <1>5. Shape(B, C, o, s, g, A, F)
    BY <1>0, <1>3 DEF Shape
  <1>6. Stream(B, C, o, s, a, n, g, A, F)
    BY <1>0, <1>3, <1>4, <1>5 DEF Stream
  <1> QED
    BY <1>6, <1>1

\* A frame that is no append leaves the batches and their order as they were.
LEMMA StreamKeeps ==
    ASSUME NEW B \in Seq(PageFrames), NEW f \in PageFrames, f.kind # "append", NEW Q, NEW o
    PROVE  /\ AppendsIn(Append(B, f)) = AppendsIn(B)
           /\ InOrder(B, Q, o) => InOrder(Append(B, f), Q, o)
  <1>1. PICK D : D = Append(B, f)
    OBVIOUS
  <1>2. /\ Len(B) \in Nat /\ Len(D) = Len(B) + 1 /\ D[Len(B) + 1] = f
        /\ \A i \in 1..Len(B) : D[i] = B[i]
        /\ \A i \in 1..Len(D) : i \in 1..Len(B) \/ i = Len(B) + 1
    BY <1>1, MoreIs
  <1>3. AppendsIn(D) = AppendsIn(B)
    BY <1>1, AppendsMore
  <1>4. ASSUME InOrder(B, Q, o) PROVE InOrder(D, Q, o)
    <2>1. \A i \in 1..Len(D) : D[i].kind = "append" => i \in 1..Len(B) /\ D[i] = B[i]
      BY <1>2
    <2> QED
      BY <2>1, <1>4 DEF InOrder
  <1> QED
    BY <1>1, <1>3, <1>4

\* Rank 0 sends a fetch to an owner it waits for nothing from.
LEMMA StreamFetch ==
    ASSUME NEW B \in Seq(PageFrames), NEW f \in PageFrames, NEW Q, NEW o, NEW s,
           NEW a, NEW n, NEW g \in Nat, NEW A, NEW F, Stream(B, Q, o, s, a, n, g, A, F),
           AllAppend(B), NoneQueued(Q, o),
           f.kind = "fetch", f.session = s, f.seq = g, \A b \in DOMAIN f.pages : b < F
    PROVE  Stream(Append(B, f), Q, o, s, a, n, g, A, F)
  <1>1. PICK D : D = Append(B, f)
    OBVIOUS
  <1>0. /\ Continues(AppendsIn(B) \cup QueuedFor(Q, o), s, a, n, A, F)
        /\ InOrder(B, Q, o) /\ Shape(B, Q, o, s, g, A, F)
    BY DEF Stream
  <1>2. /\ Len(B) \in Nat /\ Len(D) = Len(B) + 1 /\ D[Len(B) + 1] = f
        /\ \A i \in 1..Len(B) : D[i] = B[i]
        /\ \A i \in 1..Len(D) : i \in 1..Len(B) \/ i = Len(B) + 1
    BY <1>1, MoreIs
  <1>3. AppendsIn(D) = AppendsIn(B) /\ InOrder(D, Q, o)
    BY <1>0, <1>1, StreamKeeps
  <1>4. EndsWith(D, "fetch") /\ D[Len(D)] = f
    BY <1>1, EndsAppend
  <1>5. Shape(D, Q, o, s, g, A, F)
    <2>1. \A i \in 1..Len(D) : D[i].session = s
      BY <1>0, <1>2 DEF Shape
    <2>2. CASE Ring
      <3>1. ~(1 \in 1..Len(B))
        BY <1>0, <2>2 DEF Shape, AllAppend
      <3>2. Len(B) = 0 /\ Len(D) = 1 /\ D[1] = f
        BY <3>1, <1>2
      <3>3. \A i \in 1..Len(D) : i = 1 /\ D[i] = f
        BY <3>2
      <3>4. g + 1 - 1 = g
        OBVIOUS
      <3>5. \A i \in 1..Len(D) : D[i].kind = "fetch" /\ D[i].seq = g + i - 1 /\ \A b \in DOMAIN D[i].pages : b < F
        BY <3>3, <3>4
      <3> QED
        BY <3>5, <2>1, <2>2 DEF Shape
    <2>3. CASE ~Ring
      BY <2>1, <2>3, <1>4 DEF Shape
    <2> QED
      BY <2>2, <2>3
  <1>6. Stream(D, Q, o, s, a, n, g, A, F)
    BY <1>0, <1>3, <1>5 DEF Stream
  <1> QED
    BY <1>6, <1>1

\* Rank 0 sends a barrier.
LEMMA StreamBarrier ==
    ASSUME NEW B \in Seq(PageFrames), NEW f \in PageFrames, NEW Q, NEW o, NEW s,
           NEW a, NEW n, NEW g, NEW A, NEW F, Stream(B, Q, o, s, a, n, g, A, F),
           AllAppend(B), NoneQueued(Q, o), ~Ring,
           f.kind = "barrier", f.session = s, f.seq = A
    PROVE  Stream(Append(B, f), Q, o, s, a, n, g, A, F)
  <1>1. PICK D : D = Append(B, f)
    OBVIOUS
  <1>0. /\ Continues(AppendsIn(B) \cup QueuedFor(Q, o), s, a, n, A, F)
        /\ InOrder(B, Q, o) /\ Shape(B, Q, o, s, g, A, F)
    BY DEF Stream
  <1>2. /\ Len(B) \in Nat /\ Len(D) = Len(B) + 1 /\ D[Len(B) + 1] = f
        /\ \A i \in 1..Len(B) : D[i] = B[i]
        /\ \A i \in 1..Len(D) : i \in 1..Len(B) \/ i = Len(B) + 1
    BY <1>1, MoreIs
  <1>3. AppendsIn(D) = AppendsIn(B) /\ InOrder(D, Q, o)
    BY <1>0, <1>1, StreamKeeps
  <1>4. EndsWith(D, "barrier") /\ D[Len(D)] = f
    BY <1>1, EndsAppend
  <1>5. Shape(D, Q, o, s, g, A, F)
    <2>1. \A i \in 1..Len(D) : D[i].session = s
      BY <1>0, <1>2 DEF Shape
    <2> QED
      BY <2>1, <1>4 DEF Shape
  <1>6. Stream(D, Q, o, s, a, n, g, A, F)
    BY <1>0, <1>3, <1>5 DEF Stream
  <1> QED
    BY <1>6, <1>1

\* A ring chunk: the owner has one page more and rank 0 asks for it.
LEMMA StreamRing ==
    ASSUME NEW B \in Seq(PageFrames), NEW f \in PageFrames, NEW Q, NEW o, NEW s, NEW a \in Nat,
           NEW n \in Nat, NEW g \in Nat, NEW A \in Nat, NEW F \in Nat,
           Stream(B, Q, o, s, a, n, g, A, F), Ring, NoneQueued(Q, o),
           f.kind = "fetch", f.session = s, f.seq = g + Len(B), \A b \in DOMAIN f.pages : b < F + 1
    PROVE  n = F /\ Stream(Append(B, f), Q, o, s, a, F + 1, g, A, F + 1)
  <1>1. PICK D : D = Append(B, f)
    OBVIOUS
  <1>0. /\ Continues(AppendsIn(B) \cup QueuedFor(Q, o), s, a, n, A, F)
        /\ InOrder(B, Q, o) /\ Shape(B, Q, o, s, g, A, F)
    BY DEF Stream
  <1>2. /\ Len(B) \in Nat /\ Len(D) = Len(B) + 1 /\ D[Len(B) + 1] = f
        /\ \A i \in 1..Len(B) : D[i] = B[i]
        /\ \A i \in 1..Len(D) : i \in 1..Len(B) \/ i = Len(B) + 1
    BY <1>1, MoreIs
  <1>3. AppendsIn(D) = AppendsIn(B) /\ InOrder(D, Q, o)
    BY <1>0, <1>1, StreamKeeps
  <1>4. \A i \in 1..Len(B) : B[i].kind # "append"
    BY <1>0 DEF Shape
  <1>5. a = A /\ n = F
    BY <1>0, <1>4, StreamRest
  <1>6. Continues(AppendsIn(D) \cup QueuedFor(Q, o), s, a, F + 1, A, F + 1)
    <2>1. AppendsIn(D) \cup QueuedFor(Q, o) = {}
      BY <1>3, <1>4, NoAppends
    <2>2. Continues({}, s, a, F + 1, a, F + 1)
      BY ContinuesEmpty
    <2> QED
      BY <2>1, <2>2, <1>5
  <1>7. Shape(D, Q, o, s, g, A, F + 1)
    <2>1. \A i \in 1..Len(D) : D[i].session = s
      BY <1>0, <1>2 DEF Shape
    <2>2. ASSUME NEW i \in 1..Len(D)
          PROVE  D[i].kind = "fetch" /\ D[i].seq = g + i - 1 /\ \A b \in DOMAIN D[i].pages : b < F + 1
      <3>1. CASE i \in 1..Len(B)
        <4>1. /\ D[i] \in PageFrames /\ D[i].kind = "fetch" /\ D[i].seq = g + i - 1
              /\ \A b \in DOMAIN D[i].pages : b < F
          BY <3>1, <1>0, <1>2 DEF Shape
        <4>2. DOMAIN D[i].pages \subseteq Int
          BY <4>1 DEF PageFrames, PageMaps, Blocks
        <4> QED
          BY <4>1, <4>2
      <3>2. CASE i = Len(B) + 1
        BY <3>2, <1>2
      <3> QED
        BY <3>1, <3>2, <1>2
    <2> QED
      BY <2>1, <2>2 DEF Shape
  <1>8. Stream(D, Q, o, s, a, F + 1, g, A, F + 1)
    BY <1>3, <1>6, <1>7 DEF Stream
  <1> QED
    BY <1>8, <1>1, <1>5

\* A group of items of which exactly one is for o.
OneFor(G, o, f) ==
    \E k \in 1..Len(G) : G[k].owner = o /\ G[k].frame = f /\ \A i \in 1..Len(G) : G[i].owner = o => i = k

\* A publication queues one batch for the owner.
LEMMA StreamPublish ==
    ASSUME NEW B \in Seq(PageFrames), NEW Q \in Seq(QueueItems), NEW G \in Seq(QueueItems), NEW o, NEW s,
           NEW a \in Nat, NEW n \in Nat, NEW g, NEW A \in Nat, NEW F \in Nat,
           Stream(B, Q, o, s, a, n, g, A, F), AllAppend(B), ~Ring,
           NEW f, Batch(f, s), f.seq = A, FirstPage(f) = F, OneFor(G, o, f)
    PROVE  Stream(B, Q \o G, o, s, a, n, g, A + 1, PagesEnd(f))
  <1>1. PICK D : D = Q \o G
    OBVIOUS
  <1>0. /\ Continues(AppendsIn(B) \cup QueuedFor(Q, o), s, a, n, A, F)
        /\ InOrder(B, Q, o) /\ Shape(B, Q, o, s, g, A, F)
    BY DEF Stream
  <1>2. PICK k \in 1..Len(G) : G[k].owner = o /\ G[k].frame = f /\ \A i \in 1..Len(G) : G[i].owner = o => i = k
    BY DEF OneFor
  <1>3. Len(Q) \in Nat /\ Len(G) \in Nat
    BY LenProperties
  <1>4. /\ Len(D) = Len(Q) + Len(G)
        /\ \A i \in 1..Len(D) : D[i] = IF i <= Len(Q) THEN Q[i] ELSE G[i - Len(Q)]
    BY <1>1, ConcatProperties
  <1>5. ASSUME NEW i \in 1..Len(D), D[i].owner = o
        PROVE  (i \in 1..Len(Q) /\ D[i] = Q[i]) \/ (i = Len(Q) + k /\ D[i].frame = f)
    <2>1. CASE i <= Len(Q)
      BY <2>1, <1>3, <1>4
    <2>2. CASE ~(i <= Len(Q))
      <3>1. i - Len(Q) \in 1..Len(G) /\ D[i] = G[i - Len(Q)]
        BY <2>2, <1>3, <1>4
      <3>2. i - Len(Q) = k
        BY <3>1, <1>2, <1>5
      <3> QED
        BY <3>1, <3>2, <1>2, <1>3
    <2> QED
      BY <2>1, <2>2
  <1>6. /\ \A i \in 1..Len(Q) : i \in 1..Len(D) /\ D[i] = Q[i]
        /\ Len(Q) + k \in 1..Len(D) /\ D[Len(Q) + k].owner = o /\ D[Len(Q) + k].frame = f
    <2>1. \A i \in 1..Len(Q) : i \in 1..Len(D) /\ i <= Len(Q)
      BY <1>3, <1>4
    <2>2. Len(Q) + k \in 1..Len(D) /\ ~(Len(Q) + k <= Len(Q)) /\ (Len(Q) + k) - Len(Q) = k
      BY <1>3, <1>4
    <2>3. D[Len(Q) + k] = G[k]
      BY <2>2, <1>4
    <2> QED
      BY <2>1, <2>2, <2>3, <1>2, <1>4
  <1>7. QueuedFor(D, o) = QueuedFor(Q, o) \cup {f}
    <2>1. ASSUME NEW h \in QueuedFor(D, o) PROVE h \in QueuedFor(Q, o) \cup {f}
      <3>1. PICK i \in 1..Len(D) : D[i].owner = o /\ h = D[i].frame
        BY DEF QueuedFor
      <3>2. (i \in 1..Len(Q) /\ D[i] = Q[i]) \/ D[i].frame = f
        BY <3>1, <1>5
      <3> QED
        BY <3>1, <3>2 DEF QueuedFor
    <2>2. QueuedFor(Q, o) \subseteq QueuedFor(D, o)
      BY <1>6 DEF QueuedFor
    <2>3. f \in QueuedFor(D, o)
      BY <1>6 DEF QueuedFor
    <2> QED
      BY <2>1, <2>2, <2>3
  <1>8. Continues(AppendsIn(B) \cup QueuedFor(D, o), s, a, n, A + 1, PagesEnd(f))
    <2>1. AppendsIn(B) \cup QueuedFor(D, o) = (AppendsIn(B) \cup QueuedFor(Q, o)) \cup {f}
      BY <1>7
    <2>2. Continues((AppendsIn(B) \cup QueuedFor(Q, o)) \cup {f}, s, a, n, A + 1, PagesEnd(f))
      BY <1>0, ContinuesAdd
    <2> QED
      BY <2>1, <2>2
  <1>9. \A h \in AppendsIn(B) \cup QueuedFor(Q, o) : h.seq < A
    BY <1>0 DEF Continues
  <1>10. InOrder(B, D, o)
    <2>1. \A i, j \in 1..Len(B) : (i < j /\ B[i].kind = "append" /\ B[j].kind = "append") =>
            B[i].seq < B[j].seq
      BY <1>0 DEF InOrder
    <2>2. ASSUME NEW i \in 1..Len(B), NEW j \in 1..Len(D), B[i].kind = "append", D[j].owner = o
          PROVE  B[i].seq < D[j].frame.seq
      <3>1. CASE j \in 1..Len(Q) /\ D[j] = Q[j]
        BY <3>1, <2>2, <1>0 DEF InOrder
      <3>2. CASE D[j].frame = f
        <4>1. B[i] \in AppendsIn(B)
          BY <2>2 DEF AppendsIn
        <4> QED
          BY <4>1, <3>2, <1>9
      <3> QED
        BY <3>1, <3>2, <2>2, <1>5
    <2>3. ASSUME NEW i \in 1..Len(D), NEW j \in 1..Len(D), i < j, D[i].owner = o, D[j].owner = o
          PROVE  D[i].frame.seq < D[j].frame.seq
      <3>0. i \in 1..Len(Q) /\ D[i] = Q[i]
        <4>1. (i \in 1..Len(Q) /\ D[i] = Q[i]) \/ i = Len(Q) + k
          BY <2>3, <1>5
        <4>2. (j \in 1..Len(Q) /\ D[j] = Q[j]) \/ j = Len(Q) + k
          BY <2>3, <1>5
        <4> QED
          BY <4>1, <4>2, <2>3, <1>3
      <3>1. CASE j \in 1..Len(Q) /\ D[j] = Q[j]
        BY <3>0, <3>1, <2>3, <1>0 DEF InOrder
      <3>2. CASE D[j].frame = f
        <4>1. Q[i].frame \in QueuedFor(Q, o)
          BY <3>0, <2>3 DEF QueuedFor
        <4> QED
          BY <4>1, <3>0, <3>2, <1>9
      <3> QED
        BY <3>1, <3>2, <2>3, <1>5
    <2> QED
      BY <2>1, <2>2, <2>3 DEF InOrder
  <1>11. Shape(B, D, o, s, g, A + 1, PagesEnd(f))
    BY <1>0 DEF Shape
  <1>12. Stream(B, D, o, s, a, n, g, A + 1, PagesEnd(f))
    BY <1>8, <1>10, <1>11 DEF Stream
  <1> QED
    BY <1>12, <1>1

\* A set of numbers has its least.
LEMMA MinIsIn ==
    ASSUME NEW T, T \subseteq Nat, T # {}
    PROVE  Min(T) \in T
  <1>1. \E d \in T : \A e \in T : ~(<<e, d>> \in OpToRel(<, Nat))
    BY NatLessThanWellFounded, WFMin
  <1>2. PICK d \in T : \A e \in T : ~(e < d)
    BY <1>1 DEF OpToRel
  <1>3. \A e \in T : d <= e
    BY <1>2
  <1> QED
    BY <1>3 DEF Min

\* The constants' types, one by one.
LEMMA Bounds ==
    ASSUME PagesAssumption
    PROVE  /\ N \in Nat \ {0} /\ QueueDepth \in Nat \ {0} /\ WriteDepth \in Nat \ {0}
           /\ PageLimit \in Nat \ {0} /\ MaxSession \in Nat \ {0}
           /\ MaxFetch \in Nat /\ MaxFaults \in Nat /\ Ring \in BOOLEAN
           /\ Owners \subseteq Nat /\ Owners # {} /\ 1 \in Owners /\ Blocks \subseteq Nat
  <1>1. /\ N \in Nat \ {0} /\ QueueDepth \in Nat \ {0} /\ WriteDepth \in Nat \ {0}
        /\ PageLimit \in Nat \ {0} /\ MaxSession \in Nat \ {0}
        /\ MaxFetch \in Nat /\ MaxFaults \in Nat /\ Ring \in BOOLEAN
    BY DEF PagesAssumption
  <1>2. 1 \in Owners /\ Owners \subseteq Nat /\ Blocks \subseteq Nat
    BY <1>1 DEF Owners, Blocks
  <1> QED
    BY <1>1, <1>2

\* What a frame is made of.
LEMMA FrameIs ==
    ASSUME NEW k, NEW s, NEW q, NEW p
    PROVE  /\ Frame(k, s, q, p).kind = k /\ Frame(k, s, q, p).session = s
           /\ Frame(k, s, q, p).seq = q /\ Frame(k, s, q, p).pages = p
  BY DEF Frame

\* A frame of typed parts.
LEMMA FrameType ==
    ASSUME NEW k \in {"none", "append", "fetch", "barrier", "begin", "result", "ack", "ready"},
           NEW s \in Nat, NEW q \in Nat, NEW p \in PageMaps
    PROVE  Frame(k, s, q, p) \in PageFrames
  BY DEF Frame, PageFrames

\* Numbers for some of the blocks are the pages of a frame.
LEMMA MapType ==
    ASSUME NEW S, S \subseteq Blocks, NEW p \in [S -> Nat]
    PROVE  p \in PageMaps
  BY DEF PageMaps

\* A frame without pages.
LEMMA NoneType == None \in PageMaps /\ DOMAIN None = {}
  <1>1. None \in [{} -> Nat] /\ DOMAIN None = {}
    BY DEF None
  <1> QED
    BY <1>1, MapType

\* The pages of a frame are blocks.
LEMMA PagesAre ==
    ASSUME NEW f \in PageFrames
    PROVE  /\ f.kind \in {"none", "append", "fetch", "barrier", "begin", "result", "ack", "ready"}
           /\ f.session \in Nat /\ f.seq \in Nat /\ f.pages \in PageMaps
           /\ DOMAIN f.pages \subseteq Blocks /\ f.pages \in [DOMAIN f.pages -> Nat]
  <1>1. /\ f.kind \in {"none", "append", "fetch", "barrier", "begin", "result", "ack", "ready"}
        /\ f.session \in Nat /\ f.seq \in Nat /\ f.pages \in PageMaps
    BY DEF PageFrames
  <1>2. PICK S \in SUBSET Blocks : f.pages \in [S -> Nat]
    BY <1>1 DEF PageMaps
  <1> QED
    BY <1>1, <1>2

\* The least of an interval and how many it holds.
LEMMA IntervalIs ==
    ASSUME NEW x \in Nat, NEW n \in Nat \ {0}
    PROVE  /\ Min(x..(x + n - 1)) = x /\ Cardinality(x..(x + n - 1)) = n
           /\ x..(x + n - 1) # {}
  <1>1. PICK y : y = x + n - 1
    OBVIOUS
  <1>2. y \in Int /\ x <= y /\ y - x + 1 = n
    BY <1>1
  <1>3. x \in x..y /\ x..y \subseteq Nat
    BY <1>2
  <1>4. Min(x..y) = x
    <2>1. \A e \in x..y : x <= e
      BY <1>2
    <2>2. \A d \in x..y : (\A e \in x..y : d <= e) => d = x
      BY <1>2, <1>3
    <2> QED
      BY <2>1, <2>2, <1>3 DEF Min
  <1>5. Cardinality(x..y) = n
    BY <1>2, FS_Interval
  <1> QED
    BY <1>1, <1>3, <1>4, <1>5

\* The frame Publish makes of n pages from page x.
PublishedFrame(f, s, q, x, n) == f = Frame("append", s, q, [b \in x..(x + n - 1) |-> s])

\* A published frame is a batch.
LEMMA PublishedBatch ==
    ASSUME PagesAssumption, NEW s \in Nat, NEW q \in Nat, NEW x \in Nat, NEW n \in Nat \ {0},
           x + n <= PageLimit, NEW f, PublishedFrame(f, s, q, x, n)
    PROVE  Batch(f, s) /\ f.seq = q /\ FirstPage(f) = x /\ PagesEnd(f) = x + n /\ f \in PageFrames
  <1>1. PICK p : p = [b \in x..(x + n - 1) |-> s]
    OBVIOUS
  <1>2. PageLimit \in Nat
    BY Bounds
  <1>3. x..(x + n - 1) \subseteq Blocks
    BY <1>2 DEF Blocks
  <1>4. p \in [x..(x + n - 1) -> Nat] /\ DOMAIN p = x..(x + n - 1)
    BY <1>1
  <1>5. f = Frame("append", s, q, p)
    BY <1>1 DEF PublishedFrame
  <1>6. p \in PageMaps
    BY <1>3, <1>4, MapType
  <1>7. f \in PageFrames
    BY <1>5, <1>6, FrameType
  <1>8. f.kind = "append" /\ f.session = s /\ f.seq = q /\ f.pages = p
    BY <1>5, FrameIs
  <1>9. Min(x..(x + n - 1)) = x /\ Cardinality(x..(x + n - 1)) = n
    BY IntervalIs
  <1>10. FirstPage(f) = x /\ PagesEnd(f) = x + n
    BY <1>4, <1>8, <1>9, Zenon DEF FirstPage, PagesEnd
  <1>11. \A b \in DOMAIN f.pages : f.pages[b] = s
    BY <1>1, <1>8
  <1>12. DOMAIN f.pages = x..(x + n - 1)
    BY <1>4, <1>8
  <1>13. x \in Nat /\ x + n \in Nat /\ x < x + n
    OBVIOUS
  <1>14. DOMAIN f.pages = FirstPage(f)..(PagesEnd(f) - 1)
    BY <1>10, <1>12
  <1>15. FirstPage(f) \in Nat /\ PagesEnd(f) \in Nat /\ FirstPage(f) < PagesEnd(f)
    BY <1>10, <1>13
  <1>16. Batch(f, s)
    BY <1>7, <1>8, <1>11, <1>14, <1>15, Zenon DEF Batch
  <1> QED
    BY <1>7, <1>8, <1>10, <1>16

\* A batch's pages and how far they reach.
LEMMA BatchEnd ==
    ASSUME NEW f, NEW s, Batch(f, s)
    PROVE  /\ Min(DOMAIN f.pages) = FirstPage(f)
           /\ Cardinality(DOMAIN f.pages) = PagesEnd(f) - FirstPage(f)
           /\ FirstPage(f) + Cardinality(DOMAIN f.pages) = PagesEnd(f)
  <1>1. /\ FirstPage(f) \in Nat /\ PagesEnd(f) \in Nat /\ FirstPage(f) < PagesEnd(f)
        /\ DOMAIN f.pages = FirstPage(f)..(PagesEnd(f) - 1)
    BY DEF Batch
  <1>2. PICK x \in Nat, e \in Nat : x = FirstPage(f) /\ e = PagesEnd(f)
    BY <1>1
  <1>3. x \in Int /\ e - 1 \in Int /\ ~(x > e - 1) /\ (e - 1) - x + 1 = e - x /\ x + (e - x) = e
    BY <1>1, <1>2
  <1>4. Cardinality(x..(e - 1)) = e - x
    BY <1>3, FS_Interval
  <1>5. Cardinality(DOMAIN f.pages) = e - x
    BY <1>1, <1>2, <1>4, Zenon
  <1> QED
    BY <1>2, <1>3, <1>5 DEF FirstPage
-----------------------------------------------------------------------------
\* Counting what is due of each owner.
LEMMA CountedIs ==
    ASSUME NEW d \in [Owners -> Nat], NEW x
    PROVE  x \in Counted(d) <=> \E o \in Owners : \E i \in 1..d[o] : x = <<o, i>>
  BY DEF Counted

\* Nothing is due of anyone: nothing is counted.
LEMMA CountedNone ==
    ASSUME NEW d \in [Owners -> Nat], \A o \in Owners : d[o] = 0
    PROVE  IsFiniteSet(Counted(d)) /\ Cardinality(Counted(d)) = 0
  <1>1. Counted(d) = {}
    BY CountedIs
  <1> QED
    BY <1>1, FS_EmptySet, Zenon

\* Nothing is counted: nothing is due of anyone.
LEMMA CountedZero ==
    ASSUME NEW d \in [Owners -> Nat], IsFiniteSet(Counted(d)), Cardinality(Counted(d)) = 0,
           NEW o \in Owners
    PROVE  d[o] = 0
  <1>1. Counted(d) = {}
    BY FS_EmptySet
  <1>2. d[o] # 0 => 1 \in 1..d[o]
    OBVIOUS
  <1>3. d[o] # 0 => <<o, 1>> \in Counted(d)
    BY <1>2, CountedIs
  <1> QED
    BY <1>1, <1>3

\* One of them less.
LEMMA CountedLess ==
    ASSUME NEW d \in [Owners -> Nat], NEW e \in [Owners -> Nat], NEW o \in Owners,
           d[o] # 0, e[o] = d[o] - 1, \A p \in Owners : p # o => e[p] = d[p],
           IsFiniteSet(Counted(d))
    PROVE  /\ IsFiniteSet(Counted(e)) /\ Cardinality(Counted(e)) = Cardinality(Counted(d)) - 1
           /\ Cardinality(Counted(d)) # 0
  <1>1. PICK x : x = <<o, d[o]>>
    OBVIOUS
  <1>2. Counted(e) = Counted(d) \ {x}
    <2>1. ASSUME NEW y \in Counted(e) PROVE y \in Counted(d) /\ y # x
      <3>1. PICK p \in Owners : \E i \in 1..e[p] : y = <<p, i>>
        BY CountedIs
      <3>2. PICK i \in 1..e[p] : y = <<p, i>>
        BY <3>1
      <3>3. i \in 1..d[p] /\ (p = o => i # d[o])
        OBVIOUS
      <3> QED
        BY <3>2, <3>3, <1>1, CountedIs
    <2>2. ASSUME NEW y \in Counted(d), y # x PROVE y \in Counted(e)
      <3>1. PICK p \in Owners : \E i \in 1..d[p] : y = <<p, i>>
        BY CountedIs
      <3>2. PICK i \in 1..d[p] : y = <<p, i>>
        BY <3>1
      <3>3. p = o => i # d[o]
        BY <3>2, <2>2, <1>1
      <3>4. i \in 1..e[p]
        BY <3>3
      <3> QED
        BY <3>2, <3>4, CountedIs
    <2> QED
      BY <2>1, <2>2
  <1>3. x \in Counted(d)
    <2>1. d[o] \in 1..d[o]
      OBVIOUS
    <2> QED
      BY <2>1, <1>1, CountedIs
  <1>4. /\ IsFiniteSet(Counted(d) \ {x})
        /\ Cardinality(Counted(d) \ {x}) = Cardinality(Counted(d)) - 1
    BY <1>3, FS_RemoveElement
  <1>5. Cardinality(Counted(d)) # 0
    BY <1>3, FS_EmptySet
  <1> QED
    BY <1>2, <1>4, <1>5, Zenon

\* One more of every owner.
LEMMA CountedMore ==
    ASSUME PagesAssumption, NEW d \in [Owners -> Nat], NEW e \in [Owners -> Nat],
           \A o \in Owners : e[o] = d[o] + 1, IsFiniteSet(Counted(d))
    PROVE  IsFiniteSet(Counted(e)) /\ Cardinality(Counted(e)) = Cardinality(Counted(d)) + N
  <1>0. N \in Nat /\ Owners = 1..N
    BY Bounds DEF Owners
  <1>1. PICK T : T = {<<o, d[o] + 1>> : o \in Owners}
    OBVIOUS
  <1>2. PICK f : f = [o \in Owners |-> <<o, d[o] + 1>>]
    OBVIOUS
  <1>3. f \in Bijection(Owners, T)
    <2>1. f \in [Owners -> T]
      BY <1>1, <1>2
    <2>2. \A o, p \in Owners : f[o] = f[p] => o = p
      BY <1>2
    <2>3. \A y \in T : \E o \in Owners : f[o] = y
      BY <1>1, <1>2
    <2>4. f \in Injection(Owners, T)
      BY <2>1, <2>2 DEF Injection, IsInjective
    <2>5. f \in Surjection(Owners, T)
      BY <2>1, <2>3 DEF Surjection
    <2> QED
      BY <2>4, <2>5 DEF Bijection
  <1>4. IsFiniteSet(Owners) /\ Cardinality(Owners) = N
    <2>1. IsFiniteSet(1..N) /\ Cardinality(1..N) = IF 1 > N THEN 0 ELSE N - 1 + 1
      BY <1>0, FS_Interval
    <2>2. Cardinality(1..N) = N
      BY <2>1, <1>0
    <2> QED
      BY <2>1, <2>2, <1>0, Zenon
  <1>5. ExistsBijection(Owners, T)
    BY <1>3 DEF ExistsBijection
  <1>6. IsFiniteSet(T) /\ Cardinality(T) = N
    <2>1. IsFiniteSet(T) /\ Cardinality(T) = Cardinality(Owners)
      BY <1>4, <1>5, FS_Bijection
    <2> QED
      BY <2>1, <1>4
  <1>7. Counted(e) = Counted(d) \cup T
    <2>1. ASSUME NEW y \in Counted(e) PROVE y \in Counted(d) \cup T
      <3>1. PICK p \in Owners : \E i \in 1..e[p] : y = <<p, i>>
        BY CountedIs
      <3>2. PICK i \in 1..e[p] : y = <<p, i>>
        BY <3>1
      <3>3. i \in 1..d[p] \/ i = d[p] + 1
        OBVIOUS
      <3>4. CASE i \in 1..d[p]
        BY <3>2, <3>4, CountedIs
      <3>5. CASE i = d[p] + 1
        BY <3>2, <3>5, <1>1
      <3> QED
        BY <3>3, <3>4, <3>5
    <2>2. ASSUME NEW y \in Counted(d) PROVE y \in Counted(e)
      <3>1. PICK p \in Owners : \E i \in 1..d[p] : y = <<p, i>>
        BY CountedIs
      <3>2. PICK i \in 1..d[p] : y = <<p, i>>
        BY <3>1
      <3>3. i \in 1..e[p]
        OBVIOUS
      <3> QED
        BY <3>2, <3>3, CountedIs
    <2>3. ASSUME NEW y \in T PROVE y \in Counted(e)
      <3>1. PICK p \in Owners : y = <<p, d[p] + 1>>
        BY <1>1
      <3>2. d[p] + 1 \in 1..e[p]
        OBVIOUS
      <3> QED
        BY <3>1, <3>2, CountedIs
    <2> QED
      BY <2>1, <2>2, <2>3
  <1>8. Counted(d) \cap T = {}
    <2> SUFFICES ASSUME NEW y \in Counted(d), y \in T PROVE FALSE
      OBVIOUS
    <2>1. PICK p \in Owners : \E i \in 1..d[p] : y = <<p, i>>
      BY CountedIs
    <2>2. PICK i \in 1..d[p] : y = <<p, i>>
      BY <2>1
    <2>3. PICK q \in Owners : y = <<q, d[q] + 1>>
      BY <1>1
    <2>4. p = q /\ i = d[p] + 1
      BY <2>2, <2>3
    <2> QED
      BY <2>4
  <1>9. /\ IsFiniteSet(Counted(d) \cup T)
        /\ Cardinality(Counted(d) \cup T) = Cardinality(Counted(d)) + Cardinality(T) - Cardinality(Counted(d) \cap T)
    BY <1>6, FS_Union
  <1>10. Cardinality(Counted(d) \cap T) = 0
    BY <1>8, FS_EmptySet, Zenon
  <1>11. Cardinality(Counted(d)) \in Nat
    BY FS_CardinalityType
  <1>12. Cardinality(Counted(d) \cup T) = Cardinality(Counted(d)) + N
    BY <1>0, <1>6, <1>9, <1>10, <1>11
  <1> QED
    BY <1>7, <1>9, <1>12, Zenon

\* A step leaves an owner, its streams and what rank 0 knows of it alone.
OwnerSame(o) ==
    /\ guard'[o] = guard[o] /\ file'[o] = file[o] /\ wq'[o] = wq[o] /\ writing'[o] = writing[o]
    /\ wstat'[o] = wstat[o] /\ opc'[o] = opc[o] /\ cur'[o] = cur[o] /\ died'[o] = died[o]
WireSame(o) ==
    bulk'[o] = bulk[o] /\ back'[o] = back[o] /\ ctl'[o] = ctl[o] /\ ready'[o] = ready[o]
KnownSame(o) == session' = session /\ appendSeq'[o] = appendSeq[o] /\ fetchSeq'[o] = fetchSeq[o]
Same(o) ==
    OwnerSame(o) /\ WireSame(o) /\ KnownSame(o) /\ front' = front /\ queue' = queue

\* What a step must leave alone for each part of an owner: its writer, ...
LEMMA WriterSame ==
    ASSUME NEW o \in Owners, wq'[o] = wq[o], writing'[o] = writing[o], wstat'[o] = wstat[o],
           opc'[o] = opc[o], cur'[o] = cur[o], WriterOK(o)
    PROVE  WriterOK(o)'
  BY DEF WriterOK

\* ... its answers, ...
LEMMA ResultsSame ==
    ASSUME NEW o \in Owners, back'[o] = back[o], ResultsOK(o)
    PROVE  ResultsOK(o)'
  BY DEF ResultsOK

\* ... its file and what is queued for it, ...
LEMMA StoredSame ==
    ASSUME NEW o \in Owners, wq'[o] = wq[o], wstat'[o] = wstat[o], file'[o] = file[o],
           guard'[o] = guard[o], Stored(o)
    PROVE  Stored(o)'
  BY DEF Stored

\* ... and the frame its worker handles.
LEMMA HandlingSame ==
    ASSUME NEW o \in Owners, opc'[o] = opc[o], cur'[o] = cur[o], guard'[o] = guard[o], Handling(o)
    PROVE  Handling(o)'
  BY DEF Handling

\* What rank 0 can see of an owner is unchanged.
LooksSame(o) ==
    /\ guard'[o] = guard[o] /\ opc'[o] = opc[o] /\ cur'[o] = cur[o] /\ died'[o] = died[o]
    /\ WireSame(o) /\ KnownSame(o) /\ (Emptied(o) => Emptied(o)')

\* Where the worker is.
LEMMA PlaceSame ==
    ASSUME NEW o \in Owners, guard'[o] = guard[o], opc'[o] = opc[o], cur'[o] = cur[o],
           ctl'[o] = ctl[o], session' = session
    PROVE  /\ Streaming(o) => Streaming(o)'
           /\ (Emptied(o) => Emptied(o)') =>
                (Asked(o) => Asked(o)') /\ (Beginning(o) => Beginning(o)') /\ (Fresh(o) => Fresh(o)')
  <1>1. Streaming(o) => Streaming(o)'
    BY DEF Streaming
  <1>2. BeginFrame' = BeginFrame
    BY DEF BeginFrame
  <1>3. (Emptied(o) => Emptied(o)') => (Asked(o) => Asked(o)')
    BY <1>2 DEF Asked
  <1>4. (Emptied(o) => Emptied(o)') => (Beginning(o) => Beginning(o)')
    BY <1>2 DEF Beginning
  <1>5. (Emptied(o) => Emptied(o)') => (Fresh(o) => Fresh(o)')
    BY DEF Fresh
  <1> QED
    BY <1>1, <1>3, <1>4, <1>5

\* An owner left alone stays emptied.
LEMMA EmptiedSame ==
    ASSUME NEW o \in Owners, Same(o)
    PROVE  Emptied(o) => Emptied(o)'
  BY DEF Same, OwnerSame, WireSame, Emptied

\* To rank 0 it looks the same.
LEMMA SameLooks ==
    ASSUME NEW o \in Owners, Same(o)
    PROVE  LooksSame(o)
  BY EmptiedSame DEF Same, OwnerSame, LooksSame

\* A worker that runs, its file and writer aside.
LEMMA RunsKept ==
    ASSUME NEW o \in Owners, LooksSame(o), front' = front, queue' = queue, RunsOK(o), Stored(o)'
    PROVE  RunsOK(o)'
  <1>0. /\ guard'[o] = guard[o] /\ opc'[o] = opc[o] /\ cur'[o] = cur[o] /\ (Emptied(o) => Emptied(o)')
        /\ bulk'[o] = bulk[o] /\ ctl'[o] = ctl[o] /\ session' = session /\ appendSeq'[o] = appendSeq[o]
    BY DEF LooksSame, WireSame, KnownSame
  <1>1. Handling(o)'
    BY <1>0, HandlingSame DEF RunsOK
  <1>2. (Streaming(o) \/ Asked(o) \/ Beginning(o) \/ Fresh(o))'
    BY <1>0, PlaceSame DEF RunsOK
  <1>3. guard[o].nonce = session =>
          Stream(bulk[o], queue, o, session, guard[o].append, guard[o].next, guard[o].fetch,
                 appendSeq[o], front)
    BY DEF RunsOK
  <1>4. (guard[o].nonce = session)' =>
          Stream(bulk[o], queue, o, session, guard[o].append, guard[o].next, guard[o].fetch,
                 appendSeq[o], front)'
    BY <1>0, <1>3
  <1> QED
    BY <1>1, <1>2, <1>4 DEF RunsOK

\* All of an owner that is left alone.
LEMMA OwnerKept ==
    ASSUME NEW o \in Owners, Same(o), OwnerOK(o)
    PROVE  OwnerOK(o)'
  <1>0. OwnerSame(o) /\ WireSame(o) /\ front' = front /\ queue' = queue /\ LooksSame(o)
    BY SameLooks DEF Same
  <1>1. WriterOK(o)' /\ ResultsOK(o)'
    BY <1>0, WriterSame, ResultsSame DEF OwnerOK, OwnerSame, WireSame
  <1>2. ASSUME died'[o] = "runs" PROVE RunsOK(o)'
    <2>1. died[o] = "runs"
      BY <1>0, <1>2 DEF OwnerSame
    <2>2. RunsOK(o)
      BY <2>1 DEF OwnerOK
    <2>3. Stored(o)'
      BY <1>0, <2>2, StoredSame DEF RunsOK, OwnerSame
    <2> QED
      BY <1>0, <2>2, <2>3, RunsKept
  <1> QED
    BY <1>1, <1>2 DEF OwnerOK

\* What rank 0 relies on of an owner that looks the same.
LEMMA LooksKept ==
    ASSUME NEW o \in Owners, LooksSame(o)
    PROVE  /\ Served(o) => Served(o)'
           /\ Fetching(o) => Fetching(o)'
           /\ Barring(o) => Barring(o)'
           /\ Rested(o) => Rested(o)'
           /\ Joining(o) => Joining(o)'
           /\ Joined(o) => Joined(o)'
           /\ Warming(o) => Warming(o)'
           /\ Due(o)' = Due(o)
  <1>0. /\ guard'[o] = guard[o] /\ opc'[o] = opc[o] /\ cur'[o] = cur[o] /\ died'[o] = died[o]
        /\ bulk'[o] = bulk[o] /\ back'[o] = back[o] /\ ctl'[o] = ctl[o] /\ ready'[o] = ready[o]
        /\ session' = session /\ fetchSeq'[o] = fetchSeq[o] /\ (Emptied(o) => Emptied(o)')
    BY DEF LooksSame, WireSame, KnownSame
  <1>1. /\ Streaming(o) => Streaming(o)'
        /\ (Asked(o) => Asked(o)') /\ (Beginning(o) => Beginning(o)') /\ (Fresh(o) => Fresh(o)')
    BY <1>0, PlaceSame
  <1>2. Served(o) => Served(o)'
    BY <1>0, <1>1 DEF Served
  <1>3. Fetching(o) => Fetching(o)'
    BY <1>0, <1>1 DEF Fetching
  <1>4. Barring(o) => Barring(o)'
    BY <1>0, <1>1 DEF Barring
  <1>5. Rested(o) => Rested(o)'
    BY <1>0, <1>1 DEF Rested
  <1>6. Joining(o) => Joining(o)'
    BY <1>0, <1>1 DEF Joining
  <1>7. Joined(o) => Joined(o)'
    BY <1>0, <1>1 DEF Joined
  <1>8. Warming(o) => Warming(o)'
    BY <1>0, <1>1 DEF Warming
  <1>9. Due(o)' = Due(o)
    BY <1>0 DEF Due
  <1> QED
    BY <1>2, <1>3, <1>4, <1>5, <1>6, <1>7, <1>8, <1>9

\* What rank 0 relies on of an owner that is left alone.
LEMMA HostKept ==
    ASSUME NEW o \in Owners, Same(o)
    PROVE  /\ Served(o) => Served(o)'
           /\ Fetching(o) => Fetching(o)'
           /\ Barring(o) => Barring(o)'
           /\ Rested(o) => Rested(o)'
           /\ Joining(o) => Joining(o)'
           /\ Joined(o) => Joined(o)'
           /\ Warming(o) => Warming(o)'
           /\ Due(o)' = Due(o)
  BY SameLooks, LooksKept

\* The streams and the owners are as they were, and what rank 0 knows of them.
Untouched ==
    /\ session' = session /\ appendSeq' = appendSeq /\ fetchSeq' = fetchSeq
    /\ front' = front /\ queue' = queue
    /\ bulk' = bulk /\ back' = back /\ ctl' = ctl /\ ready' = ready
    /\ guard' = guard /\ file' = file /\ wq' = wq /\ writing' = writing /\ wstat' = wstat
    /\ opc' = opc /\ cur' = cur /\ died' = died

\* Then every owner is left alone.
LEMMA UntouchedSame ==
    ASSUME Untouched, NEW o \in Owners
    PROVE  Same(o)
  BY DEF Untouched, Same, OwnerSame, WireSame, KnownSame

\* What is due is a number for every owner.
LEMMA DueType ==
    ASSUME WireTypes, NEW o \in Owners
    PROVE  /\ Len(bulk[o]) \in Nat /\ Len(back[o]) \in Nat /\ Due(o) \in Nat
           /\ Due(o) = 0 => bulk[o] = <<>> /\ opc[o] = "poll" /\ back[o] = <<>>
           /\ (bulk[o] = <<>> /\ opc[o] = "poll" /\ back[o] = <<>>) => Due(o) = 0
           /\ back[o] # <<>> => Due(o) # 0
  <1>1. bulk[o] \in Seq(PageFrames) /\ back[o] \in Seq(PageFrames)
    BY DEF WireTypes
  <1>2. Len(bulk[o]) \in Nat /\ Len(back[o]) \in Nat
    BY <1>1, LenProperties
  <1>3. Due(o) \in Nat /\ (Due(o) = 0 <=> Len(bulk[o]) = 0 /\ opc[o] = "poll" /\ Len(back[o]) = 0)
    <2>1. PICK m \in Nat, n \in Nat, x \in Nat :
            /\ m = Len(bulk[o]) /\ n = Len(back[o])
            /\ x = IF opc[o] = "poll" THEN 0 ELSE 1
      BY <1>2
    <2>2. Due(o) = m + x + n
      BY <2>1 DEF Due
    <2>3. x = 0 <=> opc[o] = "poll"
      BY <2>1
    <2>4. m + x + n \in Nat /\ (m + x + n = 0 => m = 0 /\ x = 0 /\ n = 0)
          /\ (m = 0 /\ x = 0 /\ n = 0 => m + x + n = 0)
      OBVIOUS
    <2>5. Due(o) \in Nat
      BY <2>2, <2>4
    <2> QED
      BY <2>1, <2>2, <2>3, <2>4, <2>5, Zenon
  <1>4. (Len(bulk[o]) = 0 <=> bulk[o] = <<>>) /\ (Len(back[o]) = 0 <=> back[o] = <<>>)
    BY <1>1, EmptySeq, Zenon
  <1> QED
    BY <1>2, <1>3, <1>4

\* As a function of the owner.
LEMMA DuesType ==
    ASSUME WireTypes
    PROVE  [o \in Owners |-> Due(o)] \in [Owners -> Nat]
  BY DueType

\* What is due, when nothing of it changes.
LEMMA OutstandingSame ==
    ASSUME \A o \in Owners : Due(o)' = Due(o)
    PROVE  Outstanding' = Outstanding
  <1>1. PICK d : d = [o \in Owners |-> Due(o)]
    OBVIOUS
  <1>2. PICK e : e = [o \in Owners |-> Due(o)']
    OBVIOUS
  <1>3. e = d
    BY <1>1, <1>2
  <1>4. Outstanding = Counted(d)
    BY <1>1 DEF Outstanding
  <1>5. Outstanding' = Counted(e)
    BY <1>2 DEF Outstanding, Counted
  <1> QED
    BY <1>3, <1>4, <1>5

\* A step of rank 0 that leaves the streams and the owners alone.
LEMMA HostStep ==
    ASSUME PagesIInv, Untouched, mask' = mask, warm' = warm, got' = got,
           at' \in [op : PageOps, owner : Nat, left : SUBSET Nat],
           transport' \in {"ready", "pending", "poisoned"},
           transport' = "poisoned" => Between',
           (at.op \in {"barrier", "barrierwait", "begin", "beginwait"})' => session < MaxSession,
           transport' # "poisoned" => HostOK'
    PROVE  PagesIInv'
  <1>1. HostTypes'
    BY DEF PagesIInv, HostTypes, Untouched
  <1>2. WireTypes'
    BY DEF PagesIInv, WireTypes, Untouched
  <1>3. OwnerTypes'
    BY DEF PagesIInv, OwnerTypes, Untouched
  <1>4. Globals'
    BY DEF PagesIInv, Globals, Untouched
  <1>5. \A o \in Owners : OwnerOK(o)'
    BY UntouchedSame, OwnerKept DEF PagesIInv
  <1> QED
    BY <1>1, <1>2, <1>3, <1>4, <1>5 DEF PagesIInv

\* What rank 0 may do between its calls.
LEMMA UsableServed ==
    ASSUME PagesIInv, Between, transport # "poisoned"
    PROVE  HostOK /\ warm = 0 /\ \A o \in Owners : Served(o)
  BY DEF PagesIInv, HostOK, Between

\* Between two calls again, with every owner served.
LEMMA HostBetween ==
    ASSUME Between', \A o \in Owners : Served(o)', warm' = 0,
           (at.op = "fetch")' => /\ at'.owner \in Owners /\ fetchSeq'[at'.owner] < MaxFetch
                                 /\ at'.left \subseteq 0..(front' - 1)
    PROVE  HostOK'
  BY DEF HostOK, Between

\* What rank 0 waits for, as a record.
LEMMA AtType ==
    ASSUME NEW k \in PageOps, NEW o \in Nat, NEW l \in SUBSET Nat
    PROVE  /\ [op |-> k, owner |-> o, left |-> l] \in [op : PageOps, owner : Nat, left : SUBSET Nat]
           /\ [op |-> k, owner |-> o, left |-> l].op = k
           /\ [op |-> k, owner |-> o, left |-> l].owner = o
           /\ [op |-> k, owner |-> o, left |-> l].left = l
  OBVIOUS

\* Rank 0 waits for nothing.
LEMMA IdleType == Idle \in [op : PageOps, owner : Nat, left : SUBSET Nat] /\ Idle.op = "idle"
  BY DEF Idle, PageOps

\* A full queue refuses a chunk.
LEMMA KeepsPublishRefused ==
    ASSUME PagesAssumption, PagesIInv, PublishRefused
    PROVE  PagesIInv'
  <1>1. Untouched /\ mask' = mask /\ warm' = warm /\ got' = got /\ transport' = transport
    BY DEF PublishRefused, Untouched, wires, owners
  <1>2. Between /\ transport = "ready"
    BY DEF PublishRefused, Usable, Between
  <1>3. /\ at' \in [op : PageOps, owner : Nat, left : SUBSET Nat] /\ at'.op = "failed"
    BY DEF PublishRefused, Idle, PageOps
  <1>4. Between'
    BY <1>3 DEF Between
  <1>5. HostOK'
    BY <1>1, <1>2, <1>3, <1>4, UsableServed, UntouchedSame, HostKept, HostBetween
  <1> QED
    BY <1>1, <1>2, <1>3, <1>4, <1>5, HostStep

\* The sender finds its owner gone.
LEMMA KeepsSenderFails ==
    ASSUME PagesAssumption, PagesIInv, SenderFails
    PROVE  PagesIInv'
  <1>1. Untouched /\ mask' = mask /\ warm' = warm /\ got' = got /\ at' = at /\ transport' = "poisoned"
    BY DEF SenderFails, Poison, Untouched, wires, owners
  <1>2. Between
    <2>1. HostOK /\ queue # <<>> /\ ~Ring
      BY DEF PagesIInv, SenderFails, Globals
    <2>2. at.op \in PageOps
      BY DEF PagesIInv, HostTypes
    <2> QED
      BY <2>1, <2>2 DEF HostOK, Between, PageOps
  <1>3. Between' /\ at' \in [op : PageOps, owner : Nat, left : SUBSET Nat]
    BY <1>1, <1>2 DEF Between, PagesIInv, HostTypes
  <1>4. (at.op \in {"barrier", "barrierwait", "begin", "beginwait"})' => session < MaxSession
    BY <1>1 DEF PagesIInv, Globals
  <1> QED
    BY <1>1, <1>3, <1>4, HostStep

\* Rank 0 gives up and poisons the transport.
LEMMA KeepsGiveUp ==
    ASSUME PagesIInv, GiveUp
    PROVE  PagesIInv'
  <1>1. Untouched /\ mask' = mask /\ warm' = warm /\ got' = got /\ at' = Idle /\ transport' = "poisoned"
    BY DEF GiveUp, Poison, Untouched, wires, owners
  <1>2. Between' /\ at' \in [op : PageOps, owner : Nat, left : SUBSET Nat] /\ at'.op = "idle"
    BY <1>1, IdleType DEF Between
  <1> QED
    BY <1>1, <1>2, HostStep

\* Rank 0 starts to fetch.
LEMMA KeepsFetch ==
    ASSUME PagesAssumption, PagesIInv, NEW o \in Owners, NEW blocks \in SUBSET Blocks, Fetch(o, blocks)
    PROVE  PagesIInv'
  <1>1. /\ Untouched /\ mask' = mask /\ warm' = warm /\ got' = got /\ transport' = transport
        /\ at' = [op |-> "fetch", owner |-> o, left |-> blocks]
    BY DEF Fetch, Untouched, wires, owners
  <1>2. Between /\ transport = "ready"
    BY DEF Fetch, Usable, Between
  <1>3. Owners \subseteq Nat /\ Blocks \subseteq Nat
    BY Bounds
  <1>4. /\ at' \in [op : PageOps, owner : Nat, left : SUBSET Nat]
        /\ at'.op = "fetch" /\ at'.owner = o /\ at'.left = blocks
    <2>1. "fetch" \in PageOps /\ o \in Nat /\ blocks \in SUBSET Nat
      BY <1>3 DEF PageOps
    <2> QED
      BY <2>1, <1>1, AtType
  <1>5. Between'
    BY <1>4 DEF Between
  <1>6. fetchSeq'[o] < MaxFetch
    BY <1>1 DEF Fetch, Untouched
  <1>7. blocks \subseteq 0..(front' - 1)
    <2>1. front \in Nat
      BY Bounds DEF PagesIInv, HostTypes
    <2>2. \A b \in blocks : b \in Nat /\ b < front
      BY <1>3 DEF Fetch
    <2>3. blocks \subseteq 0..(front - 1)
      BY <2>1, <2>2
    <2> QED
      BY <2>3, <1>1 DEF Untouched
  <1>8. HostOK'
    <2>1. \A p \in Owners : Served(p)'
      BY <1>1, <1>2, UsableServed, UntouchedSame, HostKept
    <2>2. warm' = 0
      BY <1>1, <1>2, UsableServed
    <2> QED
      BY <2>1, <2>2, <1>4, <1>5, <1>6, <1>7, HostBetween
  <1>9. transport' = "ready"
    BY <1>1, <1>2
  <1> QED
    BY <1>1, <1>4, <1>5, <1>8, <1>9, HostStep

\* Rank 0 starts to reset.
LEMMA KeepsReset ==
    ASSUME PagesAssumption, PagesIInv, Reset
    PROVE  PagesIInv'
  <1>1. /\ Untouched /\ mask' = mask /\ warm' = warm /\ got' = got /\ transport' = transport
        /\ at' = [op |-> "barrier", owner |-> 0, left |-> {}] /\ session < MaxSession
    BY DEF Reset, Untouched, wires, owners
  <1>2. Between /\ transport = "ready"
    BY DEF Reset, Between
  <1>3. /\ at' \in [op : PageOps, owner : Nat, left : SUBSET Nat] /\ at'.op = "barrier"
    BY <1>1 DEF PageOps
  <1>4. Between'
    BY <1>3 DEF Between
  <1>5. HostOK'
    BY <1>1, <1>2, <1>3, <1>4, UsableServed, UntouchedSame, HostKept, HostBetween
  <1>6. transport' = "ready"
    BY <1>1, <1>2
  <1> QED
    BY <1>1, <1>3, <1>5, <1>6, HostStep

\* Rank 0 collects its warm fetches, ...
LEMMA KeepsWarmDrain ==
    ASSUME PagesAssumption, PagesIInv, WarmDrain
    PROVE  PagesIInv'
  <1>1. /\ Untouched /\ mask' = mask /\ warm' = warm /\ got' = got /\ transport' = transport
        /\ at' = [at EXCEPT !.op = "warmdrain"] /\ at.op = "ring" /\ transport # "poisoned"
    BY DEF WarmDrain, Untouched, wires, owners
  <1>2. /\ at' \in [op : PageOps, owner : Nat, left : SUBSET Nat] /\ at'.op = "warmdrain"
    <2>1. at \in [op : PageOps, owner : Nat, left : SUBSET Nat] /\ "warmdrain" \in PageOps
      BY DEF PagesIInv, HostTypes, PageOps
    <2> QED
      BY <2>1, <1>1
  <1>3. /\ Ring /\ IsFiniteSet(Outstanding) /\ warm = Cardinality(Outstanding)
        /\ \A o \in Owners : Warming(o)
    BY <1>1 DEF PagesIInv, HostOK
  <1>4. \A o \in Owners : Warming(o)'
    BY <1>1, <1>3, UntouchedSame, HostKept
  <1>5. Outstanding' = Outstanding
    BY <1>1, UntouchedSame, HostKept, OutstandingSame
  <1>6. IsFiniteSet(Outstanding)' /\ warm' = Cardinality(Outstanding)'
    <2>1. PICK c, t : c = warm /\ t = Outstanding
      OBVIOUS
    <2>2. IsFiniteSet(t) /\ c = Cardinality(t) /\ warm' = c /\ Outstanding' = t
      BY <2>1, <1>1, <1>3, <1>5
    <2> QED
      BY <2>2, Zenon
  <1>7. HostOK'
    BY <1>2, <1>3, <1>4, <1>6 DEF HostOK, Between
  <1>8. transport' \in {"ready", "pending", "poisoned"} /\ transport' # "poisoned"
    BY <1>1 DEF PagesIInv, HostTypes
  <1> QED
    BY <1>1, <1>2, <1>7, <1>8, HostStep

\* ... until there are none.
LEMMA KeepsWarmDrained ==
    ASSUME PagesAssumption, PagesIInv, WarmDrained
    PROVE  PagesIInv'
  <1>1. /\ Untouched /\ mask' = mask /\ warm' = warm /\ got' = got
        /\ at' = Idle /\ at.op = "warmdrain" /\ warm = 0
        /\ transport' = IF transport = "pending" THEN "ready" ELSE transport
    BY DEF WarmDrained, WarmCollected, Untouched, wires, owners
  <1>2. at' \in [op : PageOps, owner : Nat, left : SUBSET Nat] /\ at'.op = "idle" /\ Between'
    BY <1>1, IdleType DEF Between
  <1>3. transport # "poisoned"
    BY <1>1 DEF PagesIInv, Globals, Between
  <1>4. /\ Ring /\ IsFiniteSet(Outstanding) /\ warm = Cardinality(Outstanding)
        /\ \A o \in Owners : Warming(o)
    BY <1>1, <1>3 DEF PagesIInv, HostOK
  <1>5. ASSUME NEW o \in Owners PROVE Served(o)
    <2>1. PICK d : d = [p \in Owners |-> Due(p)]
      OBVIOUS
    <2>2. d \in [Owners -> Nat]
      BY <2>1, DuesType DEF PagesIInv
    <2>3. Outstanding = Counted(d)
      BY <2>1 DEF Outstanding
    <2>4. IsFiniteSet(Counted(d)) /\ Cardinality(Counted(d)) = 0
      BY <2>3, <1>1, <1>4
    <2>5. d[o] = 0
      BY <2>2, <2>4, CountedZero
    <2>6. Due(o) = 0
      BY <2>1, <2>5
    <2>7. bulk[o] = <<>> /\ opc[o] = "poll" /\ back[o] = <<>>
      BY <2>6, DueType DEF PagesIInv
    <2>8. Len(bulk[o]) = 0
      BY <2>7
    <2>9. AllAppend(bulk[o])
      BY <2>8 DEF AllAppend
    <2>10. ready[o] = <<>> /\ (died[o] = "runs" => Streaming(o) /\ fetchSeq[o] = guard[o].fetch + 0)
      BY <2>8, <1>4 DEF Warming
    <2>11. guard[o].fetch \in Nat
      BY DEF PagesIInv, OwnerTypes, Guards
    <2> QED
      BY <2>7, <2>9, <2>10, <2>11 DEF Served
  <1>6. HostOK'
    <2>1. \A p \in Owners : Served(p)'
      BY <1>1, <1>5, UntouchedSame, HostKept
    <2> QED
      BY <2>1, <1>1, <1>2, HostBetween
  <1>7. transport' \in {"ready", "pending", "poisoned"}
    BY <1>1 DEF PagesIInv, HostTypes
  <1> QED
    BY <1>1, <1>2, <1>6, <1>7, HostStep

\* A step of one owner: rank 0 and the other owners are left alone.
HostFixed ==
    /\ session' = session /\ appendSeq' = appendSeq /\ fetchSeq' = fetchSeq /\ mask' = mask
    /\ warm' = warm /\ transport' = transport /\ front' = front /\ at' = at /\ got' = got
    /\ queue' = queue
HostKeeps(o) ==
    /\ Served(o) => Served(o)'
    /\ queue = <<>> /\ Fetching(o) => Fetching(o)'
    /\ queue = <<>> /\ Barring(o) => Barring(o)'
    /\ Rested(o) => Rested(o)'
    /\ Joining(o) => Joining(o)'
    /\ Joined(o) => Joined(o)'
    /\ Ring /\ Warming(o) => Warming(o)' /\ Due(o)' = Due(o)

\* A step of one owner that keeps what holds of it and what rank 0 relies on.
LEMMA OwnerStep ==
    ASSUME PagesIInv, HostFixed, NEW o \in Owners, \A p \in Owners : p # o => Same(p),
           WireTypes', OwnerTypes', OwnerOK(o)', HostKeeps(o)
    PROVE  PagesIInv'
  <1>1. HostTypes'
    BY DEF PagesIInv, HostTypes, HostFixed
  <1>2. Globals'
    BY DEF PagesIInv, Globals, HostFixed, Between
  <1>3. \A p \in Owners : OwnerOK(p)'
    BY OwnerKept DEF PagesIInv
  <1>4. ASSUME transport' # "poisoned" PROVE HostOK'
    <2>0. HostOK /\ at' = at /\ queue' = queue /\ warm' = warm /\ front' = front /\ fetchSeq' = fetchSeq
      BY <1>4 DEF PagesIInv, HostFixed
    <2>1. \A p \in Owners :
            /\ Served(p) => Served(p)'
            /\ queue = <<>> /\ Fetching(p) => Fetching(p)'
            /\ queue = <<>> /\ Barring(p) => Barring(p)'
            /\ Rested(p) => Rested(p)'
            /\ Joining(p) => Joining(p)'
            /\ Joined(p) => Joined(p)'
            /\ Ring /\ Warming(p) => Warming(p)' /\ Due(p)' = Due(p)
      BY HostKept DEF HostKeeps
    <2>2. Between' = Between
      BY <2>0 DEF Between
    <2>3. Between' =>
            /\ \A p \in Owners : Served(p)'
            /\ at'.op = "fetch" =>
                 at'.owner \in Owners /\ fetchSeq'[at'.owner] < MaxFetch /\ at'.left \subseteq 0..(front' - 1)
      BY <2>0, <2>1, <2>2 DEF HostOK
    <2>4. at'.op = "fetchwait" =>
            /\ queue' = <<>> /\ at'.owner \in Owners /\ fetchSeq'[at'.owner] < MaxFetch
            /\ \A p \in Owners : IF p = at'.owner THEN Fetching(p)' ELSE Served(p)'
      BY <2>0, <2>1 DEF HostOK
    <2>5. CASE at.op \in {"ring", "warmdrain"}
      <3>1. /\ Ring /\ IsFiniteSet(Outstanding) /\ warm = Cardinality(Outstanding)
            /\ \A p \in Owners : Warming(p)
        BY <2>0, <2>5 DEF HostOK
      <3>2. \A p \in Owners : Warming(p)' /\ Due(p)' = Due(p)
        BY <2>1, <3>1
      <3>3. Outstanding' = Outstanding
        BY <3>2, OutstandingSame
      <3>4. IsFiniteSet(Outstanding)' /\ warm' = Cardinality(Outstanding)'
        <4>1. PICK c, t : c = warm /\ t = Outstanding
          OBVIOUS
        <4>2. IsFiniteSet(t) /\ c = Cardinality(t) /\ warm' = c /\ Outstanding' = t
          BY <4>1, <2>0, <3>1, <3>3
        <4> QED
          BY <4>2, Zenon
      <3> QED
        BY <2>0, <2>5, <3>1, <3>2, <3>4 DEF HostOK, Between
    <2>6. CASE ~(at.op \in {"ring", "warmdrain"})
      <3>1. warm' = 0
        BY <2>0, <2>6 DEF HostOK
      <3>2. at'.op = "barrierwait" =>
              /\ queue' = <<>> /\ ~Ring /\ at'.left \subseteq Owners /\ at'.owner \in at'.left
              /\ \A p \in Owners : IF p \in at'.left THEN Barring(p)' ELSE Rested(p)'
        BY <2>0, <2>1 DEF HostOK
      <3>3. at'.op = "begin" => queue' = <<>> /\ \A p \in Owners : Rested(p)'
        BY <2>0, <2>1 DEF HostOK
      <3>4. at'.op = "beginwait" =>
              queue' = <<>> /\ \A p \in Owners : IF p \in at'.left THEN Joining(p)' ELSE Joined(p)'
        BY <2>0, <2>1 DEF HostOK
      <3>5. ~(at'.op \in {"ring", "warmdrain"})
        BY <2>0, <2>6
      <3> QED
        BY <2>3, <2>4, <3>1, <3>2, <3>3, <3>4, <3>5 DEF HostOK
    <2> QED
      BY <2>5, <2>6
  <1> QED
    BY <1>1, <1>2, <1>3, <1>4 DEF PagesIInv

\* Of a worker that has ended rank 0 sees only what it sent before.
LEMMA DeadKeeps ==
    ASSUME NEW o \in Owners, died'[o] # "runs", back'[o] = back[o], ready'[o] = ready[o],
           session' = session, Ring => Due(o)' = Due(o)
    PROVE  HostKeeps(o)
  <1>1. Served(o) => Served(o)'
    BY DEF Served
  <1>2. Fetching(o) => Fetching(o)'
    BY DEF Fetching
  <1>3. Barring(o) => Barring(o)'
    BY DEF Barring
  <1>4. (Rested(o) => Rested(o)') /\ (Joined(o) => Joined(o)')
    BY DEF Rested, Joined
  <1>5. Joining(o) => Joining(o)'
    BY DEF Joining
  <1>6. Warming(o) => Warming(o)'
    BY DEF Warming
  <1> QED
    BY <1>1, <1>2, <1>3, <1>4, <1>5, <1>6 DEF HostKeeps

\* A step that rank 0 does not see.
LEMMA LooksHost ==
    ASSUME NEW o \in Owners, LooksSame(o)
    PROVE  HostKeeps(o)
  BY LooksKept DEF HostKeeps

\* The writer thread takes a batch, ...
LEMMA KeepsWriterTakes ==
    ASSUME PagesAssumption, PagesIInv, NEW o \in Owners, WriterTakes(o)
    PROVE  PagesIInv'
  <1>1. /\ HostFixed /\ bulk' = bulk /\ back' = back /\ ctl' = ctl /\ ready' = ready
        /\ guard' = guard /\ file' = file /\ wq' = wq /\ wstat' = wstat /\ opc' = opc /\ cur' = cur /\ died' = died
        /\ writing' = [writing EXCEPT ![o] = TRUE] /\ wq[o] # <<>>
    BY DEF WriterTakes, HostFixed, host, wires
  <1>2. writing \in [Owners -> BOOLEAN]
    BY DEF PagesIInv, OwnerTypes
  <1>3. writing' \in [Owners -> BOOLEAN] /\ \A p \in Owners : p # o => writing'[p] = writing[p]
    BY <1>1, <1>2
  <1>4. \A p \in Owners : p # o => Same(p)
    BY <1>1, <1>3 DEF Same, OwnerSame, WireSame, KnownSame, HostFixed
  <1>5. WireTypes' /\ OwnerTypes'
    BY <1>1, <1>3 DEF PagesIInv, WireTypes, OwnerTypes
  <1>6. LooksSame(o)
    BY <1>1 DEF LooksSame, WireSame, KnownSame, HostFixed, Emptied
  <1>7. OwnerOK(o)'
    <2>0. OwnerOK(o)
      BY DEF PagesIInv
    <2>1. WriterOK(o)'
      BY <1>1, <2>0 DEF OwnerOK, WriterOK
    <2>2. ResultsOK(o)'
      BY <1>1, <2>0, ResultsSame DEF OwnerOK
    <2>3. died'[o] = "runs" => RunsOK(o)'
      BY <1>1, <1>6, <2>0, RunsKept, StoredSame DEF OwnerOK, RunsOK, HostFixed
    <2> QED
      BY <2>1, <2>2, <2>3 DEF OwnerOK
  <1> QED
    BY <1>1, <1>4, <1>5, <1>6, <1>7, LooksHost, OwnerStep

\* ... fails to write it and discards the queue, ...
LEMMA KeepsWriterFails ==
    ASSUME PagesAssumption, PagesIInv, NEW o \in Owners, WriterFails(o)
    PROVE  PagesIInv'
  <1>1. /\ HostFixed /\ bulk' = bulk /\ back' = back /\ ctl' = ctl /\ ready' = ready
        /\ guard' = guard /\ file' = file /\ opc' = opc /\ cur' = cur /\ died' = died
        /\ writing' = [writing EXCEPT ![o] = FALSE] /\ writing[o]
        /\ wstat' = [wstat EXCEPT ![o] = "failed"] /\ wq' = [wq EXCEPT ![o] = <<>>]
    BY DEF WriterFails, HostFixed, host, wires
  <1>2. /\ writing \in [Owners -> BOOLEAN] /\ wstat \in [Owners -> {"ok", "failed"}]
        /\ wq \in [Owners -> Seq(PageMaps)]
    BY DEF PagesIInv, OwnerTypes
  <1>3. writing' \in [Owners -> BOOLEAN] /\ writing'[o] = FALSE /\ \A p \in Owners : p # o => writing'[p] = writing[p]
    BY <1>1, <1>2
  <1>31. wstat' \in [Owners -> {"ok", "failed"}] /\ wstat'[o] = "failed" /\ \A p \in Owners : p # o => wstat'[p] = wstat[p]
    BY <1>1, <1>2
  <1>32. wq' \in [Owners -> Seq(PageMaps)] /\ wq'[o] = <<>> /\ \A p \in Owners : p # o => wq'[p] = wq[p]
    <2>1. <<>> \in Seq(PageMaps)
      OBVIOUS
    <2> QED
      BY <2>1, <1>1, <1>2
  <1>4. \A p \in Owners : p # o => Same(p)
    BY <1>1, <1>3, <1>31, <1>32 DEF Same, OwnerSame, WireSame, KnownSame, HostFixed
  <1>5. WireTypes' /\ OwnerTypes'
    <2>1. WireTypes'
      BY <1>1 DEF PagesIInv, WireTypes
    <2>2. OwnerTypes'
      BY <1>1, <1>3, <1>31, <1>32 DEF PagesIInv, OwnerTypes
    <2> QED
      BY <2>1, <2>2
  <1>6. LooksSame(o)
    BY <1>1, <1>32 DEF LooksSame, WireSame, KnownSame, HostFixed, Emptied
  <1>7. OwnerOK(o)'
    <2>0. OwnerOK(o)
      BY DEF PagesIInv
    <2>1. WriterOK(o)'
      <3>1. opc[o] # "read"
        BY <1>1, <2>0 DEF OwnerOK, WriterOK
      <3>2. Len(wq'[o]) <= WriteDepth
        <4>1. Len(wq'[o]) = 0
          BY <1>32
        <4> QED
          BY <4>1, Bounds
      <3> QED
        BY <3>1, <3>2, <1>1, <1>3, <1>32 DEF WriterOK
    <2>2. ResultsOK(o)'
      BY <1>1, <2>0, ResultsSame DEF OwnerOK
    <2>3. Stored(o)'
      <3>1. Len(wq'[o]) = 0
        BY <1>32
      <3> QED
        BY <3>1, <1>31, <1>32 DEF Stored
    <2>4. died'[o] = "runs" => RunsOK(o)'
      BY <1>1, <1>6, <2>0, <2>3, RunsKept DEF OwnerOK, HostFixed
    <2> QED
      BY <2>1, <2>2, <2>4 DEF OwnerOK
  <1> QED
    BY <1>1, <1>4, <1>5, <1>6, <1>7, LooksHost, OwnerStep

\* ... or writes it.
LEMMA KeepsWriterDone ==
    ASSUME PagesAssumption, PagesIInv, NEW o \in Owners, WriterDone(o)
    PROVE  PagesIInv'
  <1>1. /\ HostFixed /\ bulk' = bulk /\ back' = back /\ ctl' = ctl /\ ready' = ready
        /\ guard' = guard /\ wstat' = wstat /\ opc' = opc /\ cur' = cur /\ died' = died
        /\ writing' = [writing EXCEPT ![o] = FALSE] /\ writing[o]
        /\ wq' = [wq EXCEPT ![o] = Tail(wq[o])]
        /\ file' = [file EXCEPT ![o] = [b \in Blocks |->
             IF b \in DOMAIN Head(wq[o]) THEN Head(wq[o])[b] ELSE file[o][b]]]
    BY DEF WriterDone, HostFixed, host, wires
  <1>2. /\ writing \in [Owners -> BOOLEAN] /\ file \in [Owners -> [Blocks -> Nat]]
        /\ wq \in [Owners -> Seq(PageMaps)]
    BY DEF PagesIInv, OwnerTypes
  <1>0. OwnerOK(o)
    BY DEF PagesIInv
  <1>9. PICK W \in Seq(PageMaps) : W = wq[o]
    BY <1>2
  <1>10. W # <<>> /\ opc[o] # "read"
    BY <1>0, <1>1, <1>9 DEF OwnerOK, WriterOK
  <1>11. /\ Len(W) \in Nat \ {0} /\ Tail(W) \in Seq(PageMaps) /\ Len(Tail(W)) = Len(W) - 1
         /\ Head(W) = W[1] /\ 1 \in 1..Len(W) /\ Head(W) \in PageMaps
         /\ \A i \in 1..Len(Tail(W)) : i + 1 \in 1..Len(W) /\ Tail(W)[i] = W[i + 1]
         /\ \A i \in 1..Len(W) : i # 1 => i - 1 \in 1..Len(Tail(W)) /\ Tail(W)[i - 1] = W[i]
    BY <1>10, RestIs
  <1>12. PICK h, T : h = Head(W) /\ T = Tail(W)
    OBVIOUS
  <1>13. PICK fl : fl = [b \in Blocks |-> IF b \in DOMAIN h THEN h[b] ELSE file[o][b]]
    OBVIOUS
  <1>14. fl \in [Blocks -> Nat]
    <2>1. \A b \in DOMAIN h : h[b] \in Nat
      BY <1>11, <1>12 DEF PageMaps
    <2>2. \A b \in Blocks : file[o][b] \in Nat
      BY <1>2
    <2> QED
      BY <2>1, <2>2, <1>13
  <1>3. writing' \in [Owners -> BOOLEAN] /\ writing'[o] = FALSE /\ \A p \in Owners : p # o => writing'[p] = writing[p]
    BY <1>1, <1>2
  <1>31. file' \in [Owners -> [Blocks -> Nat]] /\ file'[o] = fl /\ \A p \in Owners : p # o => file'[p] = file[p]
    <2>1. file' = [file EXCEPT ![o] = fl]
      BY <1>1, <1>9, <1>12, <1>13
    <2> QED
      BY <2>1, <1>14, <1>2
  <1>32. wq' \in [Owners -> Seq(PageMaps)] /\ wq'[o] = T /\ \A p \in Owners : p # o => wq'[p] = wq[p]
    <2>1. wq' = [wq EXCEPT ![o] = T] /\ T \in Seq(PageMaps)
      BY <1>1, <1>9, <1>11, <1>12
    <2> QED
      BY <2>1, <1>2
  <1>4. \A p \in Owners : p # o => Same(p)
    BY <1>1, <1>3, <1>31, <1>32 DEF Same, OwnerSame, WireSame, KnownSame, HostFixed
  <1>5. WireTypes' /\ OwnerTypes'
    <2>1. WireTypes'
      BY <1>1 DEF PagesIInv, WireTypes
    <2>2. OwnerTypes'
      BY <1>1, <1>3, <1>31, <1>32 DEF PagesIInv, OwnerTypes
    <2> QED
      BY <2>1, <2>2
  <1>6. LooksSame(o)
    <2>1. ~Emptied(o)
      BY <1>9, <1>10 DEF Emptied
    <2> QED
      BY <2>1, <1>1 DEF LooksSame, WireSame, KnownSame, HostFixed
  <1>7. OwnerOK(o)'
    <2>1. WriterOK(o)'
      <3>1. Len(wq[o]) <= WriteDepth /\ (Ring => wq[o] = <<>>)
        BY <1>0 DEF OwnerOK, WriterOK
      <3>2. ~Ring
        BY <3>1, <1>9, <1>10
      <3>3. Len(T) <= WriteDepth
        BY <3>1, <1>9, <1>11, <1>12, Bounds
      <3> QED
        BY <3>2, <3>3, <1>1, <1>3, <1>10, <1>32 DEF WriterOK
    <2>2. ResultsOK(o)'
      BY <1>0, <1>1, ResultsSame DEF OwnerOK
    <2>3. ASSUME died[o] = "runs" PROVE Stored(o)'
      <3>0. Stored(o)
        BY <1>0, <2>3 DEF OwnerOK, RunsOK
      <3>00. PICK G : G = guard[o]
        OBVIOUS
      <3>1. \A i \in 1..Len(W) : \A b \in DOMAIN W[i] : W[i][b] = G.nonce
        BY <3>0, <3>00, <1>9 DEF Stored
      <3>2. \A i \in 1..Len(T) : \A b \in DOMAIN T[i] : T[i][b] = G.nonce
        BY <3>1, <1>11, <1>12
      <3>3. G.append > 0
        BY <3>0, <3>00, <1>9, <1>10 DEF Stored
      <3>4. ASSUME wstat[o] = "ok", NEW b \in 0..(G.next - 1)
            PROVE  fl[b] = G.nonce \/ \E i \in 1..Len(T) : b \in DOMAIN T[i]
        <4>1. b \in Blocks
          <5>1. G.next \in 0..PageLimit /\ PageLimit \in Nat
            BY <3>00, Bounds DEF PagesIInv, OwnerTypes, Guards
          <5> QED
            BY <5>1 DEF Blocks
        <4>2. file[o][b] = G.nonce \/ \E i \in 1..Len(W) : b \in DOMAIN W[i]
          BY <3>0, <3>00, <3>4, <1>9 DEF Stored
        <4>3. CASE b \in DOMAIN h
          <5>1. h = W[1] /\ 1 \in 1..Len(W)
            BY <1>11, <1>12
          <5>2. h[b] = G.nonce
            BY <5>1, <4>3, <3>1
          <5> QED
            BY <5>2, <4>1, <4>3, <1>13
        <4>4. CASE ~(b \in DOMAIN h)
          <5>1. fl[b] = file[o][b]
            BY <4>1, <4>4, <1>13
          <5>2. CASE file[o][b] = G.nonce
            BY <5>1, <5>2
          <5>3. CASE \E i \in 1..Len(W) : b \in DOMAIN W[i]
            <6>1. PICK i \in 1..Len(W) : b \in DOMAIN W[i]
              BY <5>3
            <6>2. i # 1
              BY <6>1, <4>4, <1>11, <1>12
            <6>3. i - 1 \in 1..Len(T) /\ T[i - 1] = W[i]
              BY <6>2, <1>11, <1>12
            <6> QED
              BY <6>1, <6>3
          <5> QED
            BY <4>2, <5>2, <5>3
        <4> QED
          BY <4>3, <4>4
      <3>5. guard'[o] = G /\ wq'[o] = T /\ file'[o] = fl /\ wstat'[o] = wstat[o]
        BY <3>00, <1>1, <1>31, <1>32
      <3> QED
        BY <3>2, <3>3, <3>4, <3>5 DEF Stored
    <2>4. died'[o] = "runs" => RunsOK(o)'
      BY <1>0, <1>1, <1>6, <2>3, RunsKept DEF OwnerOK, HostFixed
    <2> QED
      BY <2>1, <2>2, <2>4 DEF OwnerOK
  <1> QED
    BY <1>1, <1>4, <1>5, <1>6, <1>7, LooksHost, OwnerStep

\* A worker crashes.
LEMMA KeepsCrash ==
    ASSUME PagesAssumption, PagesIInv, NEW o \in Owners, Crash(o)
    PROVE  PagesIInv'
  <1>1. /\ HostFixed /\ bulk' = bulk /\ back' = back /\ ctl' = ctl /\ ready' = ready
        /\ guard' = guard /\ file' = file /\ wq' = wq /\ wstat' = wstat /\ opc' = opc /\ cur' = cur
        /\ writing' = writing /\ died' = [died EXCEPT ![o] = "crash"]
    BY DEF Crash, HostFixed, host, wires
  <1>2. died \in [Owners -> Deaths]
    BY DEF PagesIInv, OwnerTypes
  <1>3. died' \in [Owners -> Deaths] /\ died'[o] = "crash" /\ \A p \in Owners : p # o => died'[p] = died[p]
    <2>1. "crash" \in Deaths
      BY DEF Deaths
    <2> QED
      BY <2>1, <1>1, <1>2
  <1>4. \A p \in Owners : p # o => Same(p)
    BY <1>1, <1>3 DEF Same, OwnerSame, WireSame, KnownSame, HostFixed
  <1>5. WireTypes' /\ OwnerTypes'
    BY <1>1, <1>3 DEF PagesIInv, WireTypes, OwnerTypes
  <1>6. OwnerOK(o)'
    BY <1>1, <1>3, WriterSame, ResultsSame DEF PagesIInv, OwnerOK
  <1>7. Due(o)' = Due(o)
    BY <1>1 DEF Due
  <1>8. HostKeeps(o)
    BY <1>1, <1>3, <1>7, DeadKeeps DEF HostFixed
  <1> QED
    BY <1>1, <1>4, <1>5, <1>6, <1>8, OwnerStep

\* One entry of a function changes.
LEMMA EntryIs ==
    ASSUME NEW S, NEW T, NEW f \in [S -> T], NEW x \in S, NEW v \in T, NEW g, g = [f EXCEPT ![x] = v]
    PROVE  g \in [S -> T] /\ g[x] = v /\ \A p \in S : p # x => g[p] = f[p]
  OBVIOUS

\* The numbers of a guard.
LEMMA GuardIs ==
    ASSUME PagesAssumption, OwnerTypes, NEW o \in Owners
    PROVE  /\ guard[o] \in Guards /\ guard[o].nonce \in Nat /\ guard[o].next \in 0..PageLimit
           /\ guard[o].next \in Nat /\ guard[o].append \in Nat /\ guard[o].fetch \in Nat
  <1>1. guard[o] \in Guards
    BY DEF OwnerTypes
  <1>2. PageLimit \in Nat
    BY Bounds
  <1> QED
    BY <1>1, <1>2 DEF Guards

\* The numbers rank 0 keeps.
LEMMA KnownIs ==
    ASSUME PagesAssumption, HostTypes, NEW o \in Owners
    PROVE  /\ session \in Nat /\ session >= 1 /\ front \in Nat /\ front <= PageLimit
           /\ appendSeq[o] \in Nat /\ fetchSeq[o] \in Nat
           /\ queue \in Seq(QueueItems)
  <1>1. PageLimit \in Nat /\ MaxSession \in Nat /\ MaxFetch \in Nat
    BY Bounds
  <1>2. /\ session \in 1..MaxSession /\ front \in 0..PageLimit
        /\ appendSeq[o] \in 0..PageLimit /\ fetchSeq[o] \in 0..MaxFetch
    BY DEF HostTypes
  <1>3. queue \in Seq(QueueItems)
    BY DEF HostTypes, QueueItems
  <1> QED
    BY <1>1, <1>2, <1>3

\* A worker with frames on its BULK stream is in this session.
LEMMA BulkHead ==
    ASSUME PagesAssumption, PagesIInv, NEW o \in Owners, died[o] = "runs", bulk[o] # <<>>
    PROVE  /\ Streaming(o) /\ ~Emptied(o) /\ guard[o].nonce = session
           /\ Stored(o) /\ WriterOK(o) /\ ResultsOK(o) /\ Handling(o)
           /\ bulk[o] \in Seq(PageFrames) /\ Head(bulk[o]) \in PageFrames /\ Tail(bulk[o]) \in Seq(PageFrames)
           /\ Stream(bulk[o], queue, o, session, guard[o].append, guard[o].next, guard[o].fetch,
                     appendSeq[o], front)
           /\ Ring => NoneQueued(queue, o)
  <1>1. OwnerOK(o) /\ RunsOK(o)
    BY DEF PagesIInv, OwnerOK
  <1>2. ~Emptied(o)
    BY DEF Emptied
  <1>3. Streaming(o)
    BY <1>1, <1>2 DEF RunsOK, Asked, Beginning, Fresh
  <1>4. bulk[o] \in Seq(PageFrames)
    BY DEF PagesIInv, WireTypes
  <1>5. Head(bulk[o]) \in PageFrames /\ Tail(bulk[o]) \in Seq(PageFrames)
    BY <1>4, RestIs
  <1>6. Ring => NoneQueued(queue, o)
    <2>1. Ring => queue = <<>>
      BY DEF PagesIInv, Globals
    <2>2. queue = <<>> => Len(queue) = 0
      OBVIOUS
    <2> QED
      BY <2>1, <2>2 DEF NoneQueued
  <1>7. guard[o].nonce = session
    BY <1>3 DEF Streaming
  <1> QED
    BY <1>1, <1>2, <1>3, <1>4, <1>5, <1>6, <1>7 DEF OwnerOK, RunsOK

\* The head of the stream leaves it.
LEMMA BulkTaken ==
    ASSUME WireTypes, NEW o \in Owners, bulk[o] # <<>>, bulk' = [bulk EXCEPT ![o] = Tail(@)],
           back' = back, ctl' = ctl, ready' = ready
    PROVE  /\ WireTypes' /\ bulk'[o] = Tail(bulk[o])
           /\ \A p \in Owners : p # o => WireSame(p)
  <1>1. bulk \in [Owners -> Seq(PageFrames)]
    BY DEF WireTypes
  <1>2. Tail(bulk[o]) \in Seq(PageFrames)
    BY <1>1, RestIs
  <1>3. /\ bulk' \in [Owners -> Seq(PageFrames)] /\ bulk'[o] = Tail(bulk[o])
        /\ \A p \in Owners : p # o => bulk'[p] = bulk[p]
    BY <1>1, <1>2, EntryIs
  <1> QED
    BY <1>3 DEF WireTypes, WireSame

\* A handler that fails: nothing of the owner but its worker changes.
LEMMA KeepsEnd ==
    ASSUME PagesAssumption, PagesIInv, NEW o \in Owners, HostFixed, WireTypes',
           \A p \in Owners : p # o => WireSame(p), back'[o] = back[o], ready'[o] = ready[o],
           Ring => Due(o)' = Due(o),
           guard' = guard, file' = file, wq' = wq, writing' = writing, wstat' = wstat, opc' = opc, cur' = cur,
           NEW why \in Deaths, why # "runs", died' = [died EXCEPT ![o] = why]
    PROVE  PagesIInv'
  <1>2. died \in [Owners -> Deaths]
    BY DEF PagesIInv, OwnerTypes
  <1>3. died' \in [Owners -> Deaths] /\ died'[o] = why /\ \A p \in Owners : p # o => died'[p] = died[p]
    BY <1>2, EntryIs
  <1>4. \A p \in Owners : p # o => Same(p)
    BY <1>3 DEF Same, OwnerSame, KnownSame, HostFixed
  <1>5. OwnerTypes'
    BY <1>3 DEF PagesIInv, OwnerTypes
  <1>6. OwnerOK(o)'
    BY <1>3, WriterSame, ResultsSame DEF PagesIInv, OwnerOK
  <1>8. HostKeeps(o)
    BY <1>3, DeadKeeps DEF HostFixed
  <1> QED
    BY <1>4, <1>5, <1>6, <1>8, OwnerStep

\* The worker queues an append.
LEMMA KeepsTakeAppend ==
    ASSUME PagesAssumption, PagesIInv, NEW o \in Owners, TakeBulk(o),
           Head(bulk[o]).kind = "append", HandleAppend(o, Head(bulk[o]))
    PROVE  PagesIInv'
  <1>1. /\ HostFixed /\ back' = back /\ ctl' = ctl /\ ready' = ready
        /\ file' = file /\ writing' = writing /\ wstat' = wstat
        /\ bulk' = [bulk EXCEPT ![o] = Tail(@)] /\ died[o] = "runs" /\ opc[o] = "poll" /\ bulk[o] # <<>>
    BY DEF TakeBulk, HostFixed, host
  <1>2. /\ Streaming(o) /\ ~Emptied(o) /\ guard[o].nonce = session
        /\ Stored(o) /\ WriterOK(o) /\ ResultsOK(o) /\ Handling(o)
        /\ bulk[o] \in Seq(PageFrames) /\ Head(bulk[o]) \in PageFrames
        /\ Stream(bulk[o], queue, o, session, guard[o].append, guard[o].next, guard[o].fetch,
                  appendSeq[o], front)
    BY <1>1, BulkHead
  <1>3. /\ WireTypes' /\ bulk'[o] = Tail(bulk[o])
        /\ \A p \in Owners : p # o => WireSame(p)
    BY <1>1, BulkTaken DEF PagesIInv
  <1>4. PICK f : f = Head(bulk[o])
    OBVIOUS
  <1>5. /\ guard[o].append \in Nat /\ guard[o].next \in Nat /\ guard[o].fetch \in Nat /\ guard[o] \in Guards
        /\ guard[o].nonce \in Nat
    BY GuardIs DEF PagesIInv
  <1>51. appendSeq[o] \in Nat /\ front \in Nat /\ front <= PageLimit /\ PageLimit \in Nat
    BY KnownIs, Bounds DEF PagesIInv
  <1>6. /\ ~Ring /\ Batch(f, session) /\ f.session = session /\ f.seq = guard[o].append
        /\ FirstPage(f) = guard[o].next /\ PagesEnd(f) <= front
        /\ Stream(Tail(bulk[o]), queue, o, session, guard[o].append + 1, PagesEnd(f),
                  guard[o].fetch, appendSeq[o], front)
    <2>1. PICK B, a, n, g, A : /\ B = bulk[o] /\ a = guard[o].append /\ n = guard[o].next
                               /\ g = guard[o].fetch /\ A = appendSeq[o]
      OBVIOUS
    <2>2. /\ B \in Seq(PageFrames) /\ B # <<>> /\ Head(B).kind = "append" /\ f = Head(B)
          /\ a \in Nat /\ n \in Nat /\ g \in Nat /\ A \in Nat /\ front \in Nat
      BY <2>1, <1>1, <1>2, <1>4, <1>5, <1>51
    <2>3. Stream(B, queue, o, session, a, n, g, A, front)
      BY <2>1, <1>2
    <2>4. /\ ~Ring /\ Batch(f, session) /\ f.session = session /\ f.seq = a
          /\ FirstPage(f) = n /\ PagesEnd(f) <= front
          /\ Stream(Tail(B), queue, o, session, a + 1, PagesEnd(f), g, A, front)
      BY <2>2, <2>3, StreamTakeAppend
    <2> QED
      BY <2>1, <2>4
  <1>7. /\ Min(DOMAIN f.pages) = FirstPage(f)
        /\ FirstPage(f) + Cardinality(DOMAIN f.pages) = PagesEnd(f)
    BY <1>6, BatchEnd
  <1>8. PagesEnd(f) \in Nat /\ PagesEnd(f) <= PageLimit
    BY <1>6, <1>51 DEF Batch
  <1>9. /\ RouteOk(o, f, guard[o].append) /\ Min(DOMAIN f.pages) = guard[o].next
        /\ Min(DOMAIN f.pages) + Cardinality(DOMAIN f.pages) <= PageLimit
    BY <1>2, <1>6, <1>7, <1>8 DEF RouteOk
  <1>10. HandleAppend(o, f)
    BY <1>4
  <1>11. CASE wstat[o] # "ok"
    <2>1. died' = [died EXCEPT ![o] = "disk"] /\ guard' = guard /\ wq' = wq /\ opc' = opc /\ cur' = cur
      BY <1>9, <1>10, <1>11 DEF HandleAppend, Ends
    <2>2. "disk" \in Deaths /\ "disk" # "runs"
      BY DEF Deaths
    <2> QED
      BY <2>1, <2>2, <1>1, <1>3, <1>6, KeepsEnd
  <1>12. CASE wstat[o] = "ok" /\ Len(wq[o]) = WriteDepth
    <2>1. died' = [died EXCEPT ![o] = "full"] /\ guard' = guard /\ wq' = wq /\ opc' = opc /\ cur' = cur
      BY <1>9, <1>10, <1>12 DEF HandleAppend, Enqueue
    <2>2. "full" \in Deaths /\ "full" # "runs"
      BY DEF Deaths
    <2> QED
      BY <2>1, <2>2, <1>1, <1>3, <1>6, KeepsEnd
  <1>13. CASE wstat[o] = "ok" /\ Len(wq[o]) # WriteDepth
    <2>1. PICK c : c = Cardinality(DOMAIN f.pages)
      OBVIOUS
    <2>2. PICK G : G = [guard[o] EXCEPT !.append = @ + 1, !.next = @ + c]
      OBVIOUS
    <2>3. /\ wq' = [wq EXCEPT ![o] = Append(@, f.pages)] /\ guard' = [guard EXCEPT ![o] = G]
          /\ died' = died /\ opc' = opc /\ cur' = cur
      <3>1. HandleAppend(o, f) => Enqueue(o, f, [guard[o] EXCEPT !.append = @ + 1,
                                              !.next = @ + Cardinality(DOMAIN f.pages)]) /\ UNCHANGED <<opc, cur>>
        BY <1>9, <1>13 DEF HandleAppend
      <3>2. Enqueue(o, f, G) /\ opc' = opc /\ cur' = cur
        BY <3>1, <1>10, <2>1, <2>2
      <3> QED
        BY <3>2, <1>13 DEF Enqueue
    <2>4. /\ G.nonce = guard[o].nonce /\ G.append = guard[o].append + 1
          /\ G.next = guard[o].next + c /\ G.fetch = guard[o].fetch
      BY <2>2, <1>5 DEF Guards
    <2>5. guard[o].next + c = PagesEnd(f)
      BY <2>1, <1>6, <1>7
    <2>6. G.next = PagesEnd(f)
      BY <2>4, <2>5
    <2>7. G \in Guards
      <3>1. PagesEnd(f) \in 0..PageLimit
        BY <1>8, <1>51
      <3>2. guard[o].append + 1 \in Nat /\ guard[o].next + c \in 0..PageLimit
        BY <3>1, <2>5, <1>5
      <3> QED
        BY <3>2, <2>2, <1>5 DEF Guards
    <2>8. guard' \in [Owners -> Guards] /\ guard'[o] = G /\ \A p \in Owners : p # o => guard'[p] = guard[p]
      BY <2>3, <2>7, EntryIs DEF PagesIInv, OwnerTypes
    <2>9. PICK W \in Seq(PageMaps) : W = wq[o]
      BY DEF PagesIInv, OwnerTypes
    <2>10. f.pages \in PageMaps
      BY <1>2, <1>4, PagesAre
    <2>11. PICK V : V = Append(W, f.pages)
      OBVIOUS
    <2>12. /\ Len(W) \in Nat /\ V \in Seq(PageMaps) /\ Len(V) = Len(W) + 1
           /\ V # <<>> /\ V[Len(W) + 1] = f.pages
           /\ \A i \in 1..Len(W) : V[i] = W[i]
           /\ \A i \in 1..Len(V) : i \in 1..Len(W) \/ i = Len(W) + 1
      BY <2>10, <2>11, MoreIs
    <2>13. wq' \in [Owners -> Seq(PageMaps)] /\ wq'[o] = V /\ \A p \in Owners : p # o => wq'[p] = wq[p]
      <3>1. wq' = [wq EXCEPT ![o] = V] /\ wq \in [Owners -> Seq(PageMaps)]
        BY <2>3, <2>9, <2>11 DEF PagesIInv, OwnerTypes
      <3> QED
        BY <3>1, <2>12, EntryIs
    <2>14. OwnerTypes'
      BY <2>3, <2>8, <2>13, <1>1 DEF PagesIInv, OwnerTypes
    <2>15. \A p \in Owners : p # o => Same(p)
      BY <2>3, <2>8, <2>13, <1>1, <1>3 DEF Same, OwnerSame, KnownSame, HostFixed
    <2>16. WriterOK(o)'
      <3>1. Len(W) <= WriteDepth /\ Len(W) # WriteDepth /\ WriteDepth \in Nat
        BY <2>9, <1>2, <1>13, Bounds DEF WriterOK
      <3>2. Len(V) <= WriteDepth
        BY <3>1, <2>12
      <3> QED
        BY <3>2, <2>3, <2>12, <2>13, <1>1, <1>6 DEF WriterOK
    <2>17. Stored(o)'
      <3>1. \A i \in 1..Len(W) : \A b \in DOMAIN W[i] : W[i][b] = session
        BY <2>9, <1>2 DEF Stored
      <3>2. \A b \in DOMAIN f.pages : f.pages[b] = session
        BY <1>6 DEF Batch
      <3>3. \A i \in 1..Len(V) : \A b \in DOMAIN V[i] : V[i][b] = session
        <4> SUFFICES ASSUME NEW i \in 1..Len(V) PROVE \A b \in DOMAIN V[i] : V[i][b] = session
          OBVIOUS
        <4>1. CASE i \in 1..Len(W)
          BY <4>1, <3>1, <2>12
        <4>2. CASE i = Len(W) + 1
          BY <4>2, <3>2, <2>12
        <4> QED
          BY <4>1, <4>2, <2>12
      <3>4. ASSUME NEW b \in 0..(PagesEnd(f) - 1)
            PROVE  file[o][b] = session \/ \E i \in 1..Len(V) : b \in DOMAIN V[i]
        <4>1. CASE b < guard[o].next
          <5>1. b \in 0..(guard[o].next - 1)
            BY <4>1, <1>5, <1>8
          <5>2. file[o][b] = session \/ \E i \in 1..Len(W) : b \in DOMAIN W[i]
            BY <5>1, <2>9, <1>2, <1>13 DEF Stored
          <5>3. \A i \in 1..Len(W) : i \in 1..Len(V) /\ V[i] = W[i]
            BY <2>12
          <5> QED
            BY <5>2, <5>3
        <4>2. CASE ~(b < guard[o].next)
          <5>1. b \in FirstPage(f)..(PagesEnd(f) - 1)
            BY <4>2, <1>5, <1>6, <1>8
          <5>2. b \in DOMAIN f.pages
            BY <5>1, <1>6 DEF Batch
          <5>3. Len(W) + 1 \in 1..Len(V)
            BY <2>12
          <5> QED
            BY <5>2, <5>3, <2>12
        <4> QED
          BY <4>1, <4>2
      <3>5. G.append > 0
        BY <2>4, <1>5
      <3>6. guard'[o] = G /\ wq'[o] = V /\ file'[o] = file[o] /\ G.nonce = session /\ G.next = PagesEnd(f)
        BY <2>4, <2>6, <2>8, <2>13, <1>1, <1>2
      <3> QED
        BY <3>3, <3>4, <3>5, <3>6 DEF Stored
    <2>18. Streaming(o)'
      BY <2>3, <2>4, <2>8, <1>1, <1>2 DEF Streaming, HostFixed
    <2>19. Handling(o)'
      BY <2>3, <1>1 DEF Handling
    <2>20. Stream(bulk[o], queue, o, session, guard[o].append, guard[o].next, guard[o].fetch,
                  appendSeq[o], front)'
      <3>1. /\ bulk'[o] = Tail(bulk[o]) /\ queue' = queue /\ session' = session
            /\ appendSeq' = appendSeq /\ front' = front
        BY <1>1, <1>3 DEF HostFixed
      <3>2. /\ guard'[o].append = guard[o].append + 1 /\ guard'[o].next = PagesEnd(f)
            /\ guard'[o].fetch = guard[o].fetch
        BY <2>4, <2>6, <2>8
      <3> QED
        BY <3>1, <3>2, <1>6
    <2>21. OwnerOK(o)'
      <3>1. ResultsOK(o)'
        BY <1>1, <1>2, ResultsSame
      <3>2. RunsOK(o)'
        BY <2>17, <2>18, <2>19, <2>20 DEF RunsOK
      <3> QED
        BY <3>1, <3>2, <2>16 DEF OwnerOK
    <2>22. HostKeeps(o)
      <3>1. /\ back'[o] = back[o] /\ ready'[o] = ready[o] /\ opc'[o] = opc[o] /\ died'[o] = died[o]
            /\ cur'[o] = cur[o]
            /\ fetchSeq' = fetchSeq /\ guard'[o].fetch = guard[o].fetch /\ bulk'[o] = Tail(bulk[o])
        BY <2>3, <2>4, <2>8, <1>1, <1>3 DEF HostFixed
      <3>2. Served(o) => Served(o)'
        <4>1. AllAppend(bulk[o]) => AllAppend(bulk'[o])
          BY <3>1, <1>1, <1>2, AllTail
        <4> QED
          BY <4>1, <3>1, <2>18 DEF Served
      <3>3. Fetching(o) => Fetching(o)'
        <4>1. EndsWith(bulk[o], "fetch") => EndsWith(bulk'[o], "fetch")
          BY <3>1, <1>2, EndsTail
        <4> QED
          BY <4>1, <3>1, <2>18, <1>1 DEF Fetching
      <3>4. Barring(o) => Barring(o)'
        <4>1. EndsWith(bulk[o], "barrier") => EndsWith(bulk'[o], "barrier")
          BY <3>1, <1>2, EndsTail
        <4> QED
          BY <4>1, <3>1, <2>18, <1>1, <1>2 DEF Barring
      <3>5. ~Rested(o) /\ ~Joined(o)
        BY <1>1, <1>2 DEF Rested, Joined, Fresh
      <3>6. Joining(o) => Joining(o)'
        BY <1>1, <1>2 DEF Joining, Fresh, Asked, Beginning
      <3> QED
        BY <3>2, <3>3, <3>4, <3>5, <3>6, <1>6 DEF HostKeeps
    <2> QED
      BY <2>14, <2>15, <2>21, <2>22, <1>1, <1>3, OwnerStep
  <1> QED
    BY <1>11, <1>12, <1>13

\* The worker takes a fetch, which its stream admits.
LEMMA KeepsTakeFetch ==
    ASSUME PagesAssumption, PagesIInv, NEW o \in Owners, TakeBulk(o),
           Head(bulk[o]).kind = "fetch", HandleFetch(o, Head(bulk[o]))
    PROVE  PagesIInv'
  <1>1. /\ HostFixed /\ back' = back /\ ctl' = ctl /\ ready' = ready
        /\ file' = file /\ writing' = writing /\ wstat' = wstat
        /\ bulk' = [bulk EXCEPT ![o] = Tail(@)] /\ died[o] = "runs" /\ opc[o] = "poll" /\ bulk[o] # <<>>
    BY DEF TakeBulk, HostFixed, host
  <1>2. /\ Streaming(o) /\ ~Emptied(o) /\ guard[o].nonce = session
        /\ Stored(o) /\ WriterOK(o) /\ ResultsOK(o)
        /\ bulk[o] \in Seq(PageFrames) /\ Head(bulk[o]) \in PageFrames
        /\ Stream(bulk[o], queue, o, session, guard[o].append, guard[o].next, guard[o].fetch,
                  appendSeq[o], front)
        /\ Ring => NoneQueued(queue, o)
    BY <1>1, BulkHead
  <1>3. /\ WireTypes' /\ bulk'[o] = Tail(bulk[o])
        /\ \A p \in Owners : p # o => WireSame(p)
    BY <1>1, BulkTaken DEF PagesIInv
  <1>4. PICK f : f = Head(bulk[o])
    OBVIOUS
  <1>5. /\ guard[o].append \in Nat /\ guard[o].next \in Nat /\ guard[o].fetch \in Nat /\ guard[o] \in Guards
    BY GuardIs DEF PagesIInv
  <1>51. appendSeq[o] \in Nat /\ front \in Nat /\ fetchSeq[o] \in Nat
    BY KnownIs DEF PagesIInv
  <1>6. /\ f.session = session /\ f.seq = guard[o].fetch /\ (\A b \in DOMAIN f.pages : b < guard[o].next)
        /\ Stream(Tail(bulk[o]), queue, o, session, guard[o].append, guard[o].next,
                  guard[o].fetch + 1, appendSeq[o], front)
    <2>1. PICK B, a, n, g, A, F : /\ B = bulk[o] /\ a = guard[o].append /\ n = guard[o].next
                                  /\ g = guard[o].fetch /\ A = appendSeq[o] /\ F = front
      OBVIOUS
    <2>2. /\ B \in Seq(PageFrames) /\ B # <<>> /\ a \in Nat /\ n \in Nat /\ g \in Nat /\ A \in Nat /\ F \in Nat
          /\ Stream(B, queue, o, session, a, n, g, A, F) /\ Head(B).kind = "fetch"
          /\ (Ring => NoneQueued(queue, o))
      BY <2>1, <1>1, <1>2, <1>4, <1>5, <1>51
    <2>3. f.session = session /\ f.seq = g
      <3>1. Numbered(Head(B), session, g)
        BY <2>2, StreamTakeFetch
      <3>2. f = Head(B)
        BY <2>1, <1>4
      <3> QED
        BY <3>1, <3>2 DEF Numbered
    <2>4. \A b \in DOMAIN f.pages : b < n
      <3>1. \A b \in DOMAIN Head(B).pages : b < n
        BY <2>2, StreamTakeFetch
      <3>2. f = Head(B)
        BY <2>1, <1>4
      <3> QED
        BY <3>1, <3>2
    <2>5. Stream(Tail(B), queue, o, session, a, n, g + 1, A, F)
      BY <2>2, StreamTakeFetch
    <2> QED
      BY <2>1, <2>3, <2>4, <2>5
  <1>7. RouteOk(o, f, guard[o].fetch)
    BY <1>2, <1>6 DEF RouteOk
  <1>8. PICK G : G = [guard[o] EXCEPT !.fetch = @ + 1]
    OBVIOUS
  <1>9. /\ guard' = [guard EXCEPT ![o].fetch = @ + 1] /\ wq' = wq /\ died' = died
        /\ opc' = [opc EXCEPT ![o] = "drain"] /\ cur' = [cur EXCEPT ![o] = f]
    BY <1>4, <1>6, <1>7 DEF HandleFetch
  <1>10. guard' = [guard EXCEPT ![o] = G]
    BY <1>8, <1>9
  <1>11. /\ G.nonce = guard[o].nonce /\ G.append = guard[o].append
         /\ G.next = guard[o].next /\ G.fetch = guard[o].fetch + 1 /\ G \in Guards
    BY <1>8, <1>5 DEF Guards
  <1>12. guard' \in [Owners -> Guards] /\ guard'[o] = G /\ \A p \in Owners : p # o => guard'[p] = guard[p]
    BY <1>10, <1>11, EntryIs DEF PagesIInv, OwnerTypes
  <1>13. /\ opc' \in [Owners -> {"poll", "drain", "read"}] /\ opc'[o] = "drain"
         /\ \A p \in Owners : p # o => opc'[p] = opc[p]
    BY <1>9, EntryIs DEF PagesIInv, OwnerTypes
  <1>14. cur' \in [Owners -> PageFrames] /\ cur'[o] = f /\ \A p \in Owners : p # o => cur'[p] = cur[p]
    BY <1>9, <1>2, <1>4, EntryIs DEF PagesIInv, OwnerTypes
  <1>15. OwnerTypes'
    BY <1>1, <1>9, <1>12, <1>13, <1>14 DEF PagesIInv, OwnerTypes
  <1>16. \A p \in Owners : p # o => Same(p)
    BY <1>1, <1>3, <1>9, <1>12, <1>13, <1>14 DEF Same, OwnerSame, KnownSame, HostFixed
  <1>17. WriterOK(o)'
    BY <1>1, <1>2, <1>9, <1>13 DEF WriterOK
  <1>18. Stored(o)'
    BY <1>1, <1>2, <1>9, <1>11, <1>12 DEF Stored
  <1>19. Handling(o)'
    BY <1>2, <1>6, <1>11, <1>12, <1>14 DEF Handling
  <1>20. Streaming(o)'
    <2>1. f.kind = "fetch"
      BY <1>4
    <2> QED
      BY <2>1, <1>1, <1>2, <1>11, <1>12, <1>14 DEF Streaming, HostFixed
  <1>21. Stream(bulk[o], queue, o, session, guard[o].append, guard[o].next, guard[o].fetch,
                appendSeq[o], front)'
    <2>1. /\ bulk'[o] = Tail(bulk[o]) /\ queue' = queue /\ session' = session
          /\ appendSeq' = appendSeq /\ front' = front
      BY <1>1, <1>3 DEF HostFixed
    <2>2. /\ guard'[o].append = guard[o].append /\ guard'[o].next = guard[o].next
          /\ guard'[o].fetch = guard[o].fetch + 1
      BY <1>11, <1>12
    <2> QED
      BY <2>1, <2>2, <1>6
  <1>22. OwnerOK(o)'
    <2>1. ResultsOK(o)'
      BY <1>1, <1>2, ResultsSame
    <2>2. RunsOK(o)'
      BY <1>18, <1>19, <1>20, <1>21 DEF RunsOK
    <2> QED
      BY <2>1, <2>2, <1>17 DEF OwnerOK
  <1>23. HostKeeps(o)
    <2>1. /\ back'[o] = back[o] /\ ready'[o] = ready[o] /\ died'[o] = died[o]
          /\ fetchSeq' = fetchSeq /\ session' = session /\ guard'[o].fetch = guard[o].fetch + 1
          /\ bulk'[o] = Tail(bulk[o])
      BY <1>1, <1>3, <1>9, <1>11, <1>12 DEF HostFixed
    <2>2. ~Served(o)
      BY <1>1, <1>2, AllTail DEF Served
    <2>3. Fetching(o) => Fetching(o)'
      <3>1. EndsWith(bulk[o], "fetch") => bulk'[o] = <<>>
        BY <2>1, <1>2, EndsTail
      <3>2. f.kind = "fetch"
        BY <1>4
      <3>3. Fetching(o) => /\ ready[o] = <<>> /\ back[o] = <<>> /\ guard[o].fetch = fetchSeq[o]
                           /\ EndsWith(bulk[o], "fetch")
        BY <1>1 DEF Fetching
      <3>4. Fetching(o) => /\ ready'[o] = <<>> /\ back'[o] = <<>> /\ opc'[o] # "poll" /\ bulk'[o] = <<>>
                           /\ guard'[o].fetch = fetchSeq'[o] + 1 /\ cur'[o].kind = "fetch"
        BY <2>1, <3>1, <3>2, <3>3, <1>13, <1>14
      <3> QED
        BY <3>4, <1>20 DEF Fetching
    <2>4. ~Barring(o)
      <3>1. ~EndsWith(bulk[o], "barrier")
        BY <1>2, EndsTail
      <3> QED
        BY <3>1, <1>1, <1>2 DEF Barring
    <2>5. ~Rested(o) /\ ~Joined(o)
      BY <1>1, <1>2 DEF Rested, Joined, Fresh
    <2>6. Joining(o) => Joining(o)'
      BY <1>1, <1>2 DEF Joining, Fresh, Asked, Beginning
    <2>7. /\ Len(bulk[o]) \in Nat \ {0} /\ Len(bulk'[o]) = Len(bulk[o]) - 1
      BY <2>1, <1>1, <1>2, RestIs
    <2>8. Warming(o) => Warming(o)'
      <3>1. ASSUME Warming(o) PROVE fetchSeq'[o] = guard'[o].fetch + Len(bulk'[o])
        <4>1. fetchSeq[o] = guard[o].fetch + Len(bulk[o])
          BY <3>1, <1>1 DEF Warming
        <4>2. \A x, y \in Nat : x + y = (x + 1) + (y - 1)
          OBVIOUS
        <4> QED
          BY <4>1, <4>2, <2>1, <2>7, <1>5
      <3>2. cur'[o].kind = "fetch" /\ cur'[o].session = session
        BY <1>4, <1>6, <1>14
      <3> QED
        BY <3>1, <3>2, <2>1, <1>20 DEF Warming
    <2>9. Due(o)' = Due(o)
      <3>1. Due(o) = Len(bulk[o]) + 0 + Len(back[o])
        BY <1>1 DEF Due
      <3>2. Due(o)' = (Len(bulk[o]) - 1) + 1 + Len(back[o])
        BY <2>1, <2>7, <1>13 DEF Due
      <3>3. Len(back[o]) \in Nat
        BY DueType DEF PagesIInv
      <3> QED
        BY <3>1, <3>2, <3>3, <2>7
    <2> QED
      BY <2>2, <2>3, <2>4, <2>5, <2>6, <2>8, <2>9 DEF HostKeeps
  <1> QED
    BY <1>1, <1>3, <1>15, <1>16, <1>22, <1>23, OwnerStep

\* The worker takes a barrier: it has taken every append.
LEMMA KeepsTakeBarrier ==
    ASSUME PagesAssumption, PagesIInv, NEW o \in Owners, TakeBulk(o),
           Head(bulk[o]).kind = "barrier", HandleBarrier(o, Head(bulk[o]))
    PROVE  PagesIInv'
  <1>1. /\ HostFixed /\ back' = back /\ ctl' = ctl /\ ready' = ready
        /\ file' = file /\ writing' = writing /\ wstat' = wstat
        /\ bulk' = [bulk EXCEPT ![o] = Tail(@)] /\ died[o] = "runs" /\ opc[o] = "poll" /\ bulk[o] # <<>>
    BY DEF TakeBulk, HostFixed, host
  <1>2. /\ Streaming(o) /\ ~Emptied(o) /\ guard[o].nonce = session
        /\ Stored(o) /\ WriterOK(o) /\ ResultsOK(o)
        /\ bulk[o] \in Seq(PageFrames) /\ Head(bulk[o]) \in PageFrames
        /\ Stream(bulk[o], queue, o, session, guard[o].append, guard[o].next, guard[o].fetch,
                  appendSeq[o], front)
    BY <1>1, BulkHead
  <1>3. /\ WireTypes' /\ bulk'[o] = Tail(bulk[o])
        /\ \A p \in Owners : p # o => WireSame(p)
    BY <1>1, BulkTaken DEF PagesIInv
  <1>4. PICK f : f = Head(bulk[o])
    OBVIOUS
  <1>5. /\ guard[o].append \in Nat /\ guard[o].next \in Nat /\ guard[o].fetch \in Nat
    BY GuardIs DEF PagesIInv
  <1>51. appendSeq[o] \in Nat /\ front \in Nat
    BY KnownIs DEF PagesIInv
  <1>6. /\ f.session = session /\ f.seq = guard[o].append /\ ~Ring /\ Tail(bulk[o]) = <<>>
        /\ NoneQueued(queue, o)
        /\ Stream(Tail(bulk[o]), queue, o, session, guard[o].append, guard[o].next,
                  guard[o].fetch, appendSeq[o], front)
    <2>1. PICK B, a, n, g, A, F : /\ B = bulk[o] /\ a = guard[o].append /\ n = guard[o].next
                                  /\ g = guard[o].fetch /\ A = appendSeq[o] /\ F = front
      OBVIOUS
    <2>2. /\ B \in Seq(PageFrames) /\ B # <<>> /\ a \in Nat /\ n \in Nat /\ g \in Nat /\ A \in Nat /\ F \in Nat
          /\ Stream(B, queue, o, session, a, n, g, A, F) /\ Head(B).kind = "barrier"
      BY <2>1, <1>1, <1>2, <1>4, <1>5, <1>51
    <2>3. f.session = session /\ f.seq = a
      <3>1. Numbered(Head(B), session, a)
        BY <2>2, StreamTakeBarrier
      <3>2. f = Head(B)
        BY <2>1, <1>4
      <3> QED
        BY <3>1, <3>2 DEF Numbered
    <2>4. ~Ring /\ Tail(B) = <<>>
      BY <2>2, StreamTakeBarrier
    <2>5. NoneQueued(queue, o)
      BY <2>2, StreamTakeBarrier
    <2>6. Stream(Tail(B), queue, o, session, a, n, g, A, F)
      BY <2>2, StreamTakeBarrier
    <2> QED
      BY <2>1, <2>3, <2>4, <2>5, <2>6
  <1>7. RouteOk(o, f, guard[o].append)
    BY <1>2, <1>6 DEF RouteOk
  <1>9. /\ guard' = guard /\ wq' = wq /\ died' = died
        /\ opc' = [opc EXCEPT ![o] = "drain"] /\ cur' = [cur EXCEPT ![o] = f]
    BY <1>4, <1>7 DEF HandleBarrier
  <1>13. /\ opc' \in [Owners -> {"poll", "drain", "read"}] /\ opc'[o] = "drain"
         /\ \A p \in Owners : p # o => opc'[p] = opc[p]
    BY <1>9, EntryIs DEF PagesIInv, OwnerTypes
  <1>14. cur' \in [Owners -> PageFrames] /\ cur'[o] = f /\ \A p \in Owners : p # o => cur'[p] = cur[p]
    BY <1>9, <1>2, <1>4, EntryIs DEF PagesIInv, OwnerTypes
  <1>15. OwnerTypes'
    BY <1>1, <1>9, <1>13, <1>14 DEF PagesIInv, OwnerTypes
  <1>16. \A p \in Owners : p # o => Same(p)
    BY <1>1, <1>3, <1>9, <1>13, <1>14 DEF Same, OwnerSame, KnownSame, HostFixed
  <1>17. WriterOK(o)'
    BY <1>1, <1>2, <1>9, <1>13 DEF WriterOK
  <1>18. Stored(o)'
    BY <1>1, <1>2, <1>9, StoredSame
  <1>181. f.kind = "barrier"
    BY <1>4
  <1>19. Handling(o)'
    BY <1>14, <1>181 DEF Handling
  <1>20. Streaming(o)'
    BY <1>1, <1>2, <1>9, <1>14, <1>181 DEF Streaming, HostFixed
  <1>21. Stream(bulk[o], queue, o, session, guard[o].append, guard[o].next, guard[o].fetch,
                appendSeq[o], front)'
    <2>1. /\ bulk'[o] = Tail(bulk[o]) /\ queue' = queue /\ session' = session
          /\ appendSeq' = appendSeq /\ front' = front /\ guard' = guard
      BY <1>1, <1>3, <1>9 DEF HostFixed
    <2> QED
      BY <2>1, <1>6
  <1>22. OwnerOK(o)'
    <2>1. ResultsOK(o)'
      BY <1>1, <1>2, ResultsSame
    <2>2. RunsOK(o)'
      BY <1>18, <1>19, <1>20, <1>21 DEF RunsOK
    <2> QED
      BY <2>1, <2>2, <1>17 DEF OwnerOK
  <1>23. HostKeeps(o)
    <2>1. /\ back'[o] = back[o] /\ ready'[o] = ready[o] /\ died'[o] = died[o]
          /\ bulk'[o] = <<>>
      BY <1>1, <1>3, <1>6, <1>9
    <2>2. ~Served(o)
      BY <1>1, <1>2, AllTail DEF Served
    <2>3. ~Fetching(o)
      <3>1. ~EndsWith(bulk[o], "fetch")
        BY <1>2, EndsTail
      <3> QED
        BY <3>1, <1>1 DEF Fetching
    <2>4. Barring(o) => Barring(o)'
      <3>1. Barring(o) => ready[o] = <<>> /\ back[o] = <<>>
        BY <1>1, <1>2 DEF Barring
      <3> QED
        BY <3>1, <2>1, <1>13, <1>14, <1>181, <1>20 DEF Barring
    <2>5. ~Rested(o) /\ ~Joined(o)
      BY <1>1, <1>2 DEF Rested, Joined, Fresh
    <2>6. Joining(o) => Joining(o)'
      BY <1>1, <1>2 DEF Joining, Fresh, Asked, Beginning
    <2> QED
      BY <2>2, <2>3, <2>4, <2>5, <2>6, <1>6 DEF HostKeeps
  <1> QED
    BY <1>1, <1>3, <1>15, <1>16, <1>22, <1>23, OwnerStep

\* The worker takes a BULK frame of any kind.
LEMMA KeepsTakeBulk ==
    ASSUME PagesAssumption, PagesIInv, NEW o \in Owners, TakeBulk(o)
    PROVE  PagesIInv'
  <1>1. \/ Head(bulk[o]).kind = "append" /\ HandleAppend(o, Head(bulk[o]))
        \/ Head(bulk[o]).kind = "fetch" /\ HandleFetch(o, Head(bulk[o]))
        \/ Head(bulk[o]).kind = "barrier" /\ HandleBarrier(o, Head(bulk[o]))
    BY DEF TakeBulk
  <1> QED
    BY <1>1, KeepsTakeAppend, KeepsTakeFetch, KeepsTakeBarrier

\* The worker takes the begin of the next session.
LEMMA KeepsTakeBegin ==
    ASSUME PagesAssumption, PagesIInv, NEW o \in Owners, TakeBegin(o)
    PROVE  PagesIInv'
  <1>1. /\ HostFixed /\ bulk' = bulk /\ back' = back /\ ready' = ready
        /\ file' = file /\ writing' = writing /\ wstat' = wstat
        /\ ctl' = [ctl EXCEPT ![o] = Tail(@)] /\ died[o] = "runs" /\ opc[o] = "poll" /\ ctl[o] # <<>>
    BY DEF TakeBegin, HostFixed, host
  <1>2. OwnerOK(o) /\ RunsOK(o)
    BY <1>1 DEF PagesIInv, OwnerOK
  <1>3. Asked(o) /\ ~Streaming(o) /\ ~Fresh(o)
    BY <1>1, <1>2 DEF RunsOK, Streaming, Beginning, Fresh
  <1>4. guard[o].nonce = session /\ ctl[o] = <<BeginFrame>> /\ Emptied(o)
    BY <1>3 DEF Asked
  <1>5. Head(ctl[o]) = BeginFrame /\ Tail(ctl[o]) = <<>>
    BY <1>4
  <1>6. BeginFrame.session = session + 1 /\ BeginFrame.kind = "begin" /\ BeginFrame \in PageFrames
    <2>1. session \in Nat /\ session + 1 \in Nat
      BY KnownIs DEF PagesIInv
    <2>2. Frame("begin", session + 1, 0, None) \in PageFrames
      BY <2>1, NoneType, FrameType
    <2> QED
      BY <2>2, FrameIs DEF BeginFrame
  <1>7. PICK f : f = BeginFrame
    OBVIOUS
  <1>8. f.session > guard[o].nonce
    <2>1. session \in Nat
      BY KnownIs DEF PagesIInv
    <2> QED
      BY <2>1, <1>4, <1>6, <1>7
  <1>9. /\ guard' = guard /\ wq' = wq /\ died' = died
        /\ opc' = [opc EXCEPT ![o] = "drain"] /\ cur' = [cur EXCEPT ![o] = f]
    BY <1>5, <1>7, <1>8 DEF TakeBegin
  <1>10. ctl' \in [Owners -> Seq(PageFrames)] /\ ctl'[o] = <<>> /\ \A p \in Owners : p # o => ctl'[p] = ctl[p]
    <2>1. ctl \in [Owners -> Seq(PageFrames)]
      BY DEF PagesIInv, WireTypes
    <2>2. <<>> \in Seq(PageFrames)
      OBVIOUS
    <2>3. PICK E : E = <<>>
      OBVIOUS
    <2>4. E \in Seq(PageFrames) /\ Tail(ctl[o]) = E
      BY <2>2, <2>3, <1>5
    <2>5. ctl' = [ctl EXCEPT ![o] = E]
      BY <2>4, <1>1
    <2> QED
      BY <2>1, <2>3, <2>4, <2>5, EntryIs
  <1>13. /\ opc' \in [Owners -> {"poll", "drain", "read"}] /\ opc'[o] = "drain"
         /\ \A p \in Owners : p # o => opc'[p] = opc[p]
    BY <1>9, EntryIs DEF PagesIInv, OwnerTypes
  <1>14. cur' \in [Owners -> PageFrames] /\ cur'[o] = f /\ \A p \in Owners : p # o => cur'[p] = cur[p]
    BY <1>9, <1>6, <1>7, EntryIs DEF PagesIInv, OwnerTypes
  <1>15. OwnerTypes'
    BY <1>1, <1>9, <1>13, <1>14 DEF PagesIInv, OwnerTypes
  <1>16. WireTypes'
    BY <1>1, <1>10 DEF PagesIInv, WireTypes
  <1>17. \A p \in Owners : p # o => Same(p)
    BY <1>1, <1>9, <1>10, <1>13, <1>14 DEF Same, OwnerSame, WireSame, KnownSame, HostFixed
  <1>18. Beginning(o)'
    <2>1. BeginFrame' = f
      BY <1>1, <1>7 DEF BeginFrame, HostFixed
    <2>2. Emptied(o)'
      BY <1>1, <1>4, <1>9 DEF Emptied, HostFixed
    <2> QED
      BY <2>1, <2>2, <1>1, <1>4, <1>9, <1>10, <1>13, <1>14 DEF Beginning, HostFixed
  <1>22. OwnerOK(o)'
    <2>1. ResultsOK(o)'
      BY <1>1, <1>2, ResultsSame DEF OwnerOK
    <2>2. Stored(o)'
      BY <1>1, <1>2, <1>9, StoredSame DEF RunsOK
    <2>3. Handling(o)'
      BY <1>6, <1>7, <1>14 DEF Handling
    <2>4. Stream(bulk[o], queue, o, session, guard[o].append, guard[o].next, guard[o].fetch,
                 appendSeq[o], front)
      BY <1>2, <1>4 DEF RunsOK
    <2>5. Stream(bulk[o], queue, o, session, guard[o].append, guard[o].next, guard[o].fetch,
                 appendSeq[o], front)'
      <3>1. /\ bulk' = bulk /\ queue' = queue /\ session' = session
            /\ appendSeq' = appendSeq /\ front' = front /\ guard' = guard
        BY <1>1, <1>9 DEF HostFixed
      <3> QED
        BY <3>1, <2>4
    <2>6. RunsOK(o)'
      BY <2>2, <2>3, <2>5, <1>18 DEF RunsOK
    <2>7. WriterOK(o)'
      BY <1>1, <1>2, <1>9, <1>13 DEF WriterOK, OwnerOK
    <2> QED
      BY <2>1, <2>6, <2>7 DEF OwnerOK
  <1>23. HostKeeps(o)
    <2>1. ~Served(o) /\ ~Fetching(o) /\ ~Barring(o) /\ ~Rested(o) /\ ~Warming(o)
      BY <1>1, <1>3 DEF Served, Fetching, Barring, Rested, Warming
    <2>2. ~Joined(o)
      BY <1>1, <1>3 DEF Joined
    <2>3. Joining(o) => Joining(o)'
      <3>1. Joining(o) => ready[o] = <<>> /\ back[o] = <<>>
        BY <1>1, <1>3 DEF Joining
      <3> QED
        BY <3>1, <1>1, <1>18 DEF Joining
    <2> QED
      BY <2>1, <2>2, <2>3 DEF HostKeeps
  <1> QED
    BY <1>1, <1>15, <1>16, <1>17, <1>22, <1>23, OwnerStep

\* A worker that handles a frame: a fetch or barrier of this session, or the begin.
LEMMA AtWork ==
    ASSUME PagesAssumption, PagesIInv, NEW o \in Owners, died[o] = "runs", opc[o] # "poll"
    PROVE  /\ WriterOK(o) /\ ResultsOK(o) /\ Stored(o) /\ Handling(o)
           /\ guard[o].nonce = session /\ ctl[o] = <<>> /\ ~Asked(o) /\ ~Fresh(o)
           /\ Stream(bulk[o], queue, o, session, guard[o].append, guard[o].next, guard[o].fetch,
                     appendSeq[o], front)
           /\ cur[o] \in PageFrames /\ BeginFrame.kind = "begin"
           /\ \/ Streaming(o) /\ ~Beginning(o) /\ cur[o].kind \in {"fetch", "barrier"}
              \/ Beginning(o) /\ ~Streaming(o) /\ cur[o] = BeginFrame /\ opc[o] = "drain"
  <1>1. OwnerOK(o) /\ RunsOK(o)
    BY DEF PagesIInv, OwnerOK
  <1>2. ~Asked(o) /\ ~Fresh(o)
    BY DEF Asked, Fresh
  <1>3. BeginFrame.kind = "begin"
    BY FrameIs DEF BeginFrame
  <1>4. Streaming(o) => guard[o].nonce = session /\ ctl[o] = <<>> /\ cur[o].kind \in {"fetch", "barrier"}
    BY DEF Streaming
  <1>5. Beginning(o) => guard[o].nonce = session /\ ctl[o] = <<>> /\ cur[o] = BeginFrame /\ opc[o] = "drain"
    BY DEF Beginning
  <1>6. cur[o] \in PageFrames
    BY DEF PagesIInv, OwnerTypes
  <1>7. Streaming(o) \/ Beginning(o)
    BY <1>1, <1>2 DEF RunsOK
  <1>8. ~(Streaming(o) /\ Beginning(o))
    BY <1>3, <1>4, <1>5
  <1>9. guard[o].nonce = session
    BY <1>4, <1>5, <1>7
  <1>10. Stream(bulk[o], queue, o, session, guard[o].append, guard[o].next, guard[o].fetch,
                appendSeq[o], front)
    BY <1>1, <1>9 DEF RunsOK
  <1>11. WriterOK(o) /\ ResultsOK(o) /\ Stored(o) /\ Handling(o)
    BY <1>1 DEF OwnerOK, RunsOK
  <1>12. \/ Streaming(o) /\ ~Beginning(o) /\ cur[o].kind \in {"fetch", "barrier"}
         \/ Beginning(o) /\ ~Streaming(o) /\ cur[o] = BeginFrame /\ opc[o] = "drain"
    BY <1>4, <1>5, <1>7, <1>8
  <1> QED
    BY <1>2, <1>3, <1>4, <1>5, <1>6, <1>7, <1>9, <1>10, <1>11, <1>12

\* The stream to an owner whose guard and session stay.
LEMMA StreamSame ==
    ASSUME NEW o \in Owners, bulk'[o] = bulk[o], queue' = queue, session' = session, guard'[o] = guard[o],
           appendSeq'[o] = appendSeq[o], front' = front,
           Stream(bulk[o], queue, o, session, guard[o].append, guard[o].next, guard[o].fetch,
                  appendSeq[o], front)
    PROVE  Stream(bulk[o], queue, o, session, guard[o].append, guard[o].next, guard[o].fetch,
                  appendSeq[o], front)'
  OBVIOUS

\* The writer is drained: a fetch goes on to read.
LEMMA KeepsDrainedFetch ==
    ASSUME PagesAssumption, PagesIInv, NEW o \in Owners, HostFixed, died[o] = "runs", opc[o] = "drain",
           wq[o] = <<>>, wstat[o] = "ok", cur[o].kind = "fetch",
           bulk' = bulk, back' = back, ctl' = ctl, ready' = ready, guard' = guard, file' = file,
           wq' = wq, writing' = writing, wstat' = wstat, cur' = cur, died' = died,
           opc' = [opc EXCEPT ![o] = "read"]
    PROVE  PagesIInv'
  <1>1. /\ WriterOK(o) /\ ResultsOK(o) /\ Stored(o) /\ Handling(o)
        /\ Stream(bulk[o], queue, o, session, guard[o].append, guard[o].next, guard[o].fetch,
                  appendSeq[o], front)
        /\ Streaming(o) /\ ~Beginning(o)
    BY AtWork
  <1>2. /\ opc' \in [Owners -> {"poll", "drain", "read"}] /\ opc'[o] = "read"
        /\ \A p \in Owners : p # o => opc'[p] = opc[p]
    BY EntryIs DEF PagesIInv, OwnerTypes
  <1>3. \A p \in Owners : p # o => Same(p)
    BY <1>2 DEF Same, OwnerSame, WireSame, KnownSame, HostFixed
  <1>4. WireTypes' /\ OwnerTypes'
    BY <1>2 DEF PagesIInv, WireTypes, OwnerTypes
  <1>5. Streaming(o)'
    BY <1>1 DEF Streaming, HostFixed
  <1>6. OwnerOK(o)'
    <2>1. WriterOK(o)'
      BY <1>1, <1>2 DEF WriterOK
    <2>2. ResultsOK(o)' /\ Stored(o)'
      BY <1>1, ResultsSame, StoredSame
    <2>3. Handling(o)'
      BY <1>1 DEF Handling
    <2>4. Stream(bulk[o], queue, o, session, guard[o].append, guard[o].next, guard[o].fetch,
                 appendSeq[o], front)'
      BY <1>1, StreamSame DEF HostFixed
    <2>5. RunsOK(o)'
      BY <2>2, <2>3, <2>4, <1>5 DEF RunsOK
    <2> QED
      BY <2>1, <2>2, <2>5 DEF OwnerOK
  <1>7. HostKeeps(o)
    <2>1. ~Served(o) /\ ~Rested(o) /\ ~Barring(o)
      BY DEF Served, Rested, Barring
    <2>2. Fetching(o) => Fetching(o)'
      BY <1>2, <1>5 DEF Fetching, HostFixed
    <2>3. ~Joined(o)
      BY DEF Joined, Fresh
    <2>4. ~Joining(o)
      BY <1>1 DEF Joining, Fresh, Asked
    <2>5. Warming(o) => Warming(o)'
      BY <1>2, <1>5 DEF Warming, HostFixed
    <2>6. Due(o)' = Due(o)
      BY <1>2 DEF Due
    <2> QED
      BY <2>1, <2>2, <2>3, <2>4, <2>5, <2>6 DEF HostKeeps
  <1> QED
    BY <1>3, <1>4, <1>6, <1>7, OwnerStep

\* ... a barrier is acknowledged, ...
LEMMA KeepsDrainedBarrier ==
    ASSUME PagesAssumption, PagesIInv, NEW o \in Owners, HostFixed, died[o] = "runs", opc[o] = "drain",
           wq[o] = <<>>, wstat[o] = "ok", cur[o].kind = "barrier",
           NEW a, a = [cur[o] EXCEPT !.kind = "ack"], back' = [back EXCEPT ![o] = Append(@, a)],
           bulk' = bulk, ctl' = ctl, ready' = ready, guard' = guard, file' = file,
           wq' = wq, writing' = writing, wstat' = wstat, cur' = cur, died' = died,
           opc' = [opc EXCEPT ![o] = "poll"]
    PROVE  PagesIInv'
  <1>1. /\ WriterOK(o) /\ ResultsOK(o) /\ Stored(o)
        /\ Stream(bulk[o], queue, o, session, guard[o].append, guard[o].next, guard[o].fetch,
                  appendSeq[o], front)
        /\ Streaming(o) /\ ~Beginning(o) /\ cur[o] \in PageFrames
    BY AtWork
  <1>2. /\ opc' \in [Owners -> {"poll", "drain", "read"}] /\ opc'[o] = "poll"
        /\ \A p \in Owners : p # o => opc'[p] = opc[p]
    BY EntryIs DEF PagesIInv, OwnerTypes
  <1>3. a \in PageFrames /\ a.kind = "ack"
    BY <1>1 DEF PageFrames
  <1>4. PICK B \in Seq(PageFrames) : B = back[o]
    BY DEF PagesIInv, WireTypes
  <1>5. PICK D : D = Append(B, a)
    OBVIOUS
  <1>6. /\ Len(B) \in Nat /\ D \in Seq(PageFrames) /\ Len(D) = Len(B) + 1
        /\ D[Len(B) + 1] = a /\ \A i \in 1..Len(B) : D[i] = B[i]
        /\ \A i \in 1..Len(D) : i \in 1..Len(B) \/ i = Len(B) + 1
    BY <1>3, <1>5, MoreIs
  <1>7. back' \in [Owners -> Seq(PageFrames)] /\ back'[o] = D /\ \A p \in Owners : p # o => back'[p] = back[p]
    <2>1. back' = [back EXCEPT ![o] = D] /\ back \in [Owners -> Seq(PageFrames)]
      BY <1>4, <1>5 DEF PagesIInv, WireTypes
    <2> QED
      BY <2>1, <1>6, EntryIs
  <1>8. \A p \in Owners : p # o => Same(p)
    BY <1>2, <1>7 DEF Same, OwnerSame, WireSame, KnownSame, HostFixed
  <1>9. WireTypes' /\ OwnerTypes'
    BY <1>2, <1>7 DEF PagesIInv, WireTypes, OwnerTypes
  <1>10. Streaming(o)'
    BY <1>1, <1>2 DEF Streaming, HostFixed
  <1>11. OwnerOK(o)'
    <2>1. WriterOK(o)'
      BY <1>1, <1>2 DEF WriterOK
    <2>2. ResultsOK(o)'
      <3> SUFFICES ASSUME NEW i \in 1..Len(D), D[i].kind = "result"
                   PROVE  \A b \in DOMAIN D[i].pages : D[i].pages[b] = D[i].session
        BY <1>7 DEF ResultsOK
      <3>1. i \in 1..Len(B) /\ D[i] = B[i]
        BY <1>3, <1>6
      <3> QED
        BY <3>1, <1>1, <1>4 DEF ResultsOK
    <2>3. Handling(o)'
      BY <1>2 DEF Handling
    <2>4. Stream(bulk[o], queue, o, session, guard[o].append, guard[o].next, guard[o].fetch,
                 appendSeq[o], front)'
      BY <1>1, StreamSame DEF HostFixed
    <2>5. Stored(o)'
      BY <1>1, StoredSame
    <2>6. RunsOK(o)'
      BY <2>3, <2>4, <2>5, <1>10 DEF RunsOK
    <2> QED
      BY <2>1, <2>2, <2>6 DEF OwnerOK
  <1>12. HostKeeps(o)
    <2>1. ~Served(o) /\ ~Rested(o)
      BY DEF Served, Rested
    <2>2. ~Fetching(o)
      BY DEF Fetching
    <2>3. ~Joined(o)
      BY DEF Joined, Fresh
    <2>4. ~Joining(o)
      BY <1>1 DEF Joining, Fresh, Asked
    <2>5. ~Warming(o)
      BY DEF Warming
    <2>6. ASSUME queue = <<>>, Barring(o) PROVE Barring(o)'
      <3>1. ready[o] = <<>> /\ back[o] = <<>> /\ bulk[o] = <<>>
        BY <2>6 DEF Barring
      <3>2. Len(B) = 0
        BY <3>1, <1>4
      <3>3. Len(D) = 1 /\ D[1] = a
        BY <3>2, <1>6
      <3>4. Len(queue) = 0
        BY <2>6
      <3>5. Emptied(o)'
        BY <3>1, <3>4 DEF Emptied, NoneQueued, HostFixed
      <3> QED
        BY <3>1, <3>3, <3>5, <1>2, <1>3, <1>7, <1>10 DEF Barring
    <2> QED
      BY <2>1, <2>2, <2>3, <2>4, <2>5, <2>6 DEF HostKeeps
  <1> QED
    BY <1>8, <1>9, <1>11, <1>12, OwnerStep

\* ... and a begin opens the session over an empty file.
LEMMA KeepsDrainedBegin ==
    ASSUME PagesAssumption, PagesIInv, NEW o \in Owners, HostFixed, died[o] = "runs", opc[o] = "drain",
           wq[o] = <<>>, wstat[o] = "ok", cur[o].kind = "begin",
           NEW a, a = [cur[o] EXCEPT !.kind = "ready"], ready' = [ready EXCEPT ![o] = Append(@, a)],
           bulk' = bulk, ctl' = ctl, back' = back, guard' = [guard EXCEPT ![o] = NewGuard(cur[o].session)],
           file' = [file EXCEPT ![o] = Empty],
           wq' = wq, writing' = writing, wstat' = wstat, cur' = cur, died' = died,
           opc' = [opc EXCEPT ![o] = "poll"]
    PROVE  PagesIInv' /\ Emptied(o)
  <1>1. /\ WriterOK(o) /\ ResultsOK(o) /\ guard[o].nonce = session /\ ctl[o] = <<>>
        /\ Beginning(o) /\ ~Streaming(o) /\ cur[o] \in PageFrames /\ cur[o] = BeginFrame
        /\ ~Asked(o) /\ ~Fresh(o)
    BY AtWork
  <1>2. /\ opc' \in [Owners -> {"poll", "drain", "read"}] /\ opc'[o] = "poll"
        /\ \A p \in Owners : p # o => opc'[p] = opc[p]
    BY EntryIs DEF PagesIInv, OwnerTypes
  <1>3. a \in PageFrames
    BY <1>1 DEF PageFrames
  <1>4. PICK B \in Seq(PageFrames) : B = ready[o]
    BY DEF PagesIInv, WireTypes
  <1>5. PICK D : D = Append(B, a)
    OBVIOUS
  <1>6. Len(B) \in Nat /\ D \in Seq(PageFrames) /\ Len(D) = Len(B) + 1
    BY <1>3, <1>5, MoreIs
  <1>7. ready' \in [Owners -> Seq(PageFrames)] /\ ready'[o] = D /\ \A p \in Owners : p # o => ready'[p] = ready[p]
    <2>1. ready' = [ready EXCEPT ![o] = D] /\ ready \in [Owners -> Seq(PageFrames)]
      BY <1>4, <1>5 DEF PagesIInv, WireTypes
    <2> QED
      BY <2>1, <1>6, EntryIs
  <1>8. session \in Nat /\ cur[o].session = session + 1 /\ PageLimit \in Nat
    BY <1>1, FrameIs, KnownIs, Bounds DEF BeginFrame, PagesIInv
  <1>9. PICK G : G = NewGuard(session + 1)
    OBVIOUS
  <1>10. G \in Guards /\ G.nonce = session + 1 /\ G.next = 0
    BY <1>8, <1>9 DEF NewGuard, Guards
  <1>11. guard' \in [Owners -> Guards] /\ guard'[o] = G /\ \A p \in Owners : p # o => guard'[p] = guard[p]
    <2>1. guard' = [guard EXCEPT ![o] = G] /\ guard \in [Owners -> Guards]
      BY <1>8, <1>9 DEF PagesIInv, OwnerTypes
    <2> QED
      BY <2>1, <1>10, EntryIs
  <1>12. file' \in [Owners -> [Blocks -> Nat]] /\ \A p \in Owners : p # o => file'[p] = file[p]
    <2>1. Empty \in [Blocks -> Nat]
      BY DEF Empty
    <2> QED
      BY <2>1, EntryIs DEF PagesIInv, OwnerTypes
  <1>13. \A p \in Owners : p # o => Same(p)
    BY <1>2, <1>7, <1>11, <1>12 DEF Same, OwnerSame, WireSame, KnownSame, HostFixed
  <1>14. WireTypes'
    BY <1>7 DEF PagesIInv, WireTypes
  <1>15. OwnerTypes'
    BY <1>2, <1>11, <1>12 DEF PagesIInv, OwnerTypes
  <1>16. Emptied(o)
    BY <1>1 DEF Beginning
  <1>17. Fresh(o)'
    <2>1. Emptied(o)'
      BY <1>16 DEF Emptied, HostFixed
    <2> QED
      BY <2>1, <1>1, <1>2, <1>9, <1>11 DEF Fresh, HostFixed
  <1>18. OwnerOK(o)'
    <2>1. WriterOK(o)'
      BY <1>1, <1>2 DEF WriterOK
    <2>2. ResultsOK(o)'
      BY <1>1, ResultsSame
    <2>3. Handling(o)'
      BY <1>2 DEF Handling
    <2>4. Stored(o)'
      <3>1. Len(wq'[o]) = 0 /\ wq'[o] = <<>>
        OBVIOUS
      <3>2. guard'[o].next = 0
        BY <1>10, <1>11
      <3> QED
        BY <3>1, <3>2 DEF Stored
    <2>5. (guard[o].nonce # session)'
      BY <1>8, <1>10, <1>11 DEF HostFixed
    <2>6. RunsOK(o)'
      BY <2>3, <2>4, <2>5, <1>17 DEF RunsOK
    <2> QED
      BY <2>1, <2>2, <2>6 DEF OwnerOK
  <1>19. HostKeeps(o)
    <2>1. ~Served(o) /\ ~Fetching(o) /\ ~Barring(o) /\ ~Rested(o) /\ ~Warming(o) /\ ~Joined(o)
      BY <1>1 DEF Served, Fetching, Barring, Rested, Warming, Joined
    <2>2. ASSUME Joining(o) PROVE Joining(o)'
      <3>1. ready[o] = <<>> /\ back[o] = <<>>
        BY <2>2, <1>1 DEF Joining
      <3>2. Len(B) = 0
        BY <3>1, <1>4
      <3>3. Len(D) = 1
        BY <3>2, <1>6
      <3> QED
        BY <3>1, <3>3, <1>7, <1>17 DEF Joining
    <2> QED
      BY <2>1, <2>2 DEF HostKeeps
  <1>20. PagesIInv'
    BY <1>13, <1>14, <1>15, <1>18, <1>19, OwnerStep
  <1> QED
    BY <1>16, <1>20

\* The drain returns; only the begin's changes a session, and finds the owner emptied.
LEMMA KeepsWriterDrained ==
    ASSUME PagesAssumption, PagesIInv, NEW o \in Owners, WriterDrained(o)
    PROVE  PagesIInv' /\ (guard'[o].nonce # guard[o].nonce => Emptied(o)) /\ \A p \in Owners : p # o => guard'[p] = guard[p]
  <1>1. /\ HostFixed /\ bulk' = bulk /\ ctl' = ctl /\ writing' = writing /\ wstat' = wstat
        /\ died[o] = "runs" /\ opc[o] = "drain" /\ wq[o] = <<>>
    BY DEF WriterDrained, WriterIdle, HostFixed, host
  <1>2. /\ back \in [Owners -> Seq(PageFrames)] /\ ready \in [Owners -> Seq(PageFrames)]
        /\ file \in [Owners -> [Blocks -> Nat]] /\ guard \in [Owners -> Guards]
    BY DEF PagesIInv, WireTypes, OwnerTypes
  <1>3. CASE wstat[o] # "ok"
    <2>1. /\ died' = [died EXCEPT ![o] = "disk"] /\ guard' = guard /\ wq' = wq /\ opc' = opc /\ cur' = cur
          /\ back' = back /\ ready' = ready /\ file' = file
      BY <1>3 DEF WriterDrained, Ends
    <2>2. "disk" \in Deaths /\ "disk" # "runs"
      BY DEF Deaths
    <2>3. WireTypes' /\ \A p \in Owners : p # o => WireSame(p)
      BY <2>1, <1>1 DEF PagesIInv, WireTypes, WireSame
    <2>4. Due(o)' = Due(o)
      BY <2>1, <1>1 DEF Due
    <2>5. PagesIInv'
      BY <2>1, <2>2, <2>3, <2>4, <1>1, KeepsEnd
    <2> QED
      BY <2>1, <2>5
  <1>4. CASE wstat[o] = "ok"
    <2>0. /\ opc' = [opc EXCEPT ![o] = IF cur[o].kind = "fetch" THEN "read" ELSE "poll"]
          /\ back' = [back EXCEPT ![o] = IF cur[o].kind = "barrier"
               THEN Append(@, [cur[o] EXCEPT !.kind = "ack"]) ELSE @]
          /\ ready' = [ready EXCEPT ![o] = IF cur[o].kind = "begin"
               THEN Append(@, [cur[o] EXCEPT !.kind = "ready"]) ELSE @]
          /\ file' = [file EXCEPT ![o] = IF cur[o].kind = "begin" THEN Empty ELSE @]
          /\ guard' = [guard EXCEPT ![o] = IF cur[o].kind = "begin" THEN NewGuard(cur[o].session) ELSE @]
          /\ wq' = wq /\ cur' = cur /\ died' = died
      BY <1>4 DEF WriterDrained
    <2>1. CASE cur[o].kind = "fetch"
      <3>1. opc' = [opc EXCEPT ![o] = "read"] /\ back' = back /\ ready' = ready /\ file' = file /\ guard' = guard
        BY <2>0, <2>1, <1>2
      <3>2. PagesIInv'
        BY <3>1, <2>0, <2>1, <1>1, <1>4, KeepsDrainedFetch
      <3> QED
        BY <3>1, <3>2
    <2>2. CASE cur[o].kind = "barrier"
      <3>0. PICK a : a = [cur[o] EXCEPT !.kind = "ack"]
        OBVIOUS
      <3>1. /\ opc' = [opc EXCEPT ![o] = "poll"] /\ ready' = ready /\ file' = file /\ guard' = guard
            /\ back' = [back EXCEPT ![o] = Append(@, a)]
        BY <3>0, <2>0, <2>2, <1>2
      <3>2. PagesIInv'
        BY <3>0, <3>1, <2>0, <2>2, <1>1, <1>4, KeepsDrainedBarrier
      <3> QED
        BY <3>1, <3>2
    <2>3. CASE cur[o].kind = "begin"
      <3>0. PICK a : a = [cur[o] EXCEPT !.kind = "ready"]
        OBVIOUS
      <3>1. /\ opc' = [opc EXCEPT ![o] = "poll"] /\ back' = back /\ file' = [file EXCEPT ![o] = Empty]
            /\ guard' = [guard EXCEPT ![o] = NewGuard(cur[o].session)]
            /\ ready' = [ready EXCEPT ![o] = Append(@, a)]
        BY <3>0, <2>0, <2>3, <1>2
      <3>2. PagesIInv' /\ Emptied(o)
        BY <3>0, <3>1, <2>0, <2>3, <1>1, <1>4, KeepsDrainedBegin
      <3>3. \A p \in Owners : p # o => guard'[p] = guard[p]
        BY <3>1, <1>2
      <3> QED
        BY <3>2, <3>3
    <2>4. cur[o].kind \in {"fetch", "barrier", "begin"}
      BY <1>1, AtWork
    <2> QED
      BY <2>1, <2>2, <2>3, <2>4
  <1> QED
    BY <1>3, <1>4

\* The worker reads what its drained writer stored, and answers.
LEMMA KeepsReadReply ==
    ASSUME PagesAssumption, PagesIInv, NEW o \in Owners, ReadReply(o)
    PROVE  PagesIInv'
  <1>1. /\ HostFixed /\ bulk' = bulk /\ ctl' = ctl /\ ready' = ready /\ file' = file
        /\ writing' = writing /\ wstat' = wstat /\ died[o] = "runs" /\ opc[o] = "read"
    BY DEF ReadReply, HostFixed, host
  <1>2. /\ WriterOK(o) /\ ResultsOK(o) /\ Stored(o) /\ Handling(o) /\ guard[o].nonce = session
        /\ Stream(bulk[o], queue, o, session, guard[o].append, guard[o].next, guard[o].fetch,
                  appendSeq[o], front)
        /\ cur[o] \in PageFrames /\ ~Asked(o) /\ ~Fresh(o)
        /\ Streaming(o) /\ ~Beginning(o)
    BY <1>1, AtWork
  <1>3. wq[o] = <<>> /\ wstat[o] = "ok" /\ cur[o].kind = "fetch"
    BY <1>1, <1>2 DEF WriterOK
  <1>4. PICK f : f = cur[o]
    OBVIOUS
  <1>5. /\ f.session = session /\ (\A b \in DOMAIN f.pages : b < guard[o].next)
        /\ f \in PageFrames /\ f.kind = "fetch"
    BY <1>1, <1>2, <1>3, <1>4 DEF Handling
  <1>6. DOMAIN f.pages \subseteq Blocks /\ f.session \in Nat /\ f.seq \in Nat
    BY <1>5, PagesAre
  <1>7. session \in Nat /\ session >= 1 /\ guard[o].next \in Nat /\ fetchSeq[o] \in Nat
    BY KnownIs, GuardIs DEF PagesIInv
  <1>8. ASSUME NEW b \in DOMAIN f.pages PROVE file[o][b] = session
    <2>1. b \in Nat /\ b < guard[o].next
      BY <1>5, <1>6, Bounds
    <2>2. b \in 0..(guard[o].next - 1)
      BY <2>1, <1>7
    <2>3. Len(wq[o]) = 0
      BY <1>3
    <2> QED
      BY <2>2, <2>3, <1>2, <1>3 DEF Stored
  <1>9. ~(\E b \in DOMAIN f.pages : file[o][b] = 0)
    BY <1>7, <1>8
  <1>10. PICK r : r = Frame("result", f.session, f.seq, [b \in DOMAIN f.pages |-> file[o][b]])
    OBVIOUS
  <1>11. /\ back' = [back EXCEPT ![o] = Append(@, r)] /\ opc' = [opc EXCEPT ![o] = "poll"]
         /\ guard' = guard /\ wq' = wq /\ cur' = cur /\ died' = died
    BY <1>4, <1>9, <1>10 DEF ReadReply
  <1>12. PICK P : P = [b \in DOMAIN f.pages |-> file[o][b]]
    OBVIOUS
  <1>13. P \in [DOMAIN f.pages -> Nat]
    BY <1>7, <1>8, <1>12
  <1>14. r \in PageFrames
    <2>1. P \in PageMaps
      BY <1>6, <1>13, MapType
    <2> QED
      BY <2>1, <1>6, <1>10, <1>12, FrameType
  <1>15. r.kind = "result" /\ r.session = session /\ r.pages = P
    BY <1>5, <1>10, <1>12, FrameIs
  <1>16. \A b \in DOMAIN r.pages : r.pages[b] = r.session
    BY <1>8, <1>12, <1>15
  <1>17. PICK B \in Seq(PageFrames) : B = back[o]
    BY DEF PagesIInv, WireTypes
  <1>18. PICK D : D = Append(B, r)
    OBVIOUS
  <1>19. /\ Len(B) \in Nat /\ D \in Seq(PageFrames) /\ Len(D) = Len(B) + 1
         /\ D[Len(B) + 1] = r /\ \A i \in 1..Len(B) : D[i] = B[i]
         /\ \A i \in 1..Len(D) : i \in 1..Len(B) \/ i = Len(B) + 1
    BY <1>14, <1>18, MoreIs
  <1>20. back' \in [Owners -> Seq(PageFrames)] /\ back'[o] = D /\ \A p \in Owners : p # o => back'[p] = back[p]
    <2>1. back' = [back EXCEPT ![o] = D] /\ back \in [Owners -> Seq(PageFrames)]
      BY <1>11, <1>17, <1>18 DEF PagesIInv, WireTypes
    <2> QED
      BY <2>1, <1>19, EntryIs
  <1>21. /\ opc' \in [Owners -> {"poll", "drain", "read"}] /\ opc'[o] = "poll"
         /\ \A p \in Owners : p # o => opc'[p] = opc[p]
    BY <1>11, EntryIs DEF PagesIInv, OwnerTypes
  <1>22. \A p \in Owners : p # o => Same(p)
    BY <1>1, <1>11, <1>20, <1>21 DEF Same, OwnerSame, WireSame, KnownSame, HostFixed
  <1>23. WireTypes' /\ OwnerTypes'
    BY <1>1, <1>11, <1>20, <1>21 DEF PagesIInv, WireTypes, OwnerTypes
  <1>24. Streaming(o)'
    BY <1>1, <1>2, <1>11, <1>21 DEF Streaming, HostFixed
  <1>25. OwnerOK(o)'
    <2>1. WriterOK(o)'
      BY <1>1, <1>2, <1>11, <1>21 DEF WriterOK
    <2>2. ResultsOK(o)'
      <3> SUFFICES ASSUME NEW i \in 1..Len(D), D[i].kind = "result"
                   PROVE  \A b \in DOMAIN D[i].pages : D[i].pages[b] = D[i].session
        BY <1>20 DEF ResultsOK
      <3>1. CASE i \in 1..Len(B)
        BY <3>1, <1>2, <1>17, <1>19 DEF ResultsOK
      <3>2. CASE i = Len(B) + 1
        BY <3>2, <1>16, <1>19
      <3> QED
        BY <3>1, <3>2, <1>19
    <2>3. Handling(o)'
      BY <1>21 DEF Handling
    <2>4. Stream(bulk[o], queue, o, session, guard[o].append, guard[o].next, guard[o].fetch,
                 appendSeq[o], front)'
      BY <1>1, <1>2, <1>11, StreamSame DEF HostFixed
    <2>5. Stored(o)'
      BY <1>1, <1>2, <1>11, StoredSame
    <2>6. RunsOK(o)'
      BY <2>3, <2>4, <2>5, <1>24 DEF RunsOK
    <2> QED
      BY <2>1, <2>2, <2>6 DEF OwnerOK
  <1>26. HostKeeps(o)
    <2>1. ~Served(o) /\ ~Rested(o)
      BY <1>1 DEF Served, Rested
    <2>2. ~Barring(o)
      BY <1>1 DEF Barring
    <2>3. ~Joined(o)
      BY <1>1, <1>2 DEF Joined
    <2>4. ~Joining(o)
      BY <1>1, <1>2 DEF Joining
    <2>5. ASSUME Fetching(o) PROVE Fetching(o)'
      <3>1. ready[o] = <<>> /\ back[o] = <<>> /\ bulk[o] = <<>> /\ guard[o].fetch = fetchSeq[o] + 1
        BY <2>5, <1>1 DEF Fetching
      <3>2. Len(B) = 0
        BY <3>1, <1>17
      <3>3. Len(D) = 1
        BY <3>2, <1>19
      <3> QED
        BY <3>1, <3>3, <1>1, <1>11, <1>20, <1>21, <1>24 DEF Fetching, HostFixed
    <2>6. ASSUME Warming(o) PROVE Warming(o)'
      <3>1. \A i \in 1..Len(D) : D[i].kind = "result" /\ D[i].session = session
        <4>1. \A i \in 1..Len(B) : B[i].kind = "result" /\ B[i].session = session
          BY <2>6, <1>17 DEF Warming
        <4> QED
          BY <4>1, <1>15, <1>19
      <3>2. ready[o] = <<>> /\ fetchSeq[o] = guard[o].fetch + Len(bulk[o])
        BY <2>6, <1>1 DEF Warming
      <3> QED
        BY <3>1, <3>2, <1>1, <1>11, <1>20, <1>21, <1>24 DEF Warming, HostFixed
    <2>7. Due(o)' = Due(o)
      <3>1. Due(o) = Len(bulk[o]) + 1 + Len(B)
        BY <1>1, <1>17 DEF Due
      <3>2. Due(o)' = Len(bulk[o]) + 0 + (Len(B) + 1)
        BY <1>1, <1>19, <1>20, <1>21 DEF Due
      <3>3. Len(bulk[o]) \in Nat
        BY DueType DEF PagesIInv
      <3>4. \A x, y \in Nat : x + 1 + y = x + 0 + (y + 1)
        OBVIOUS
      <3>5. Len(bulk[o]) + 1 + Len(B) = Len(bulk[o]) + 0 + (Len(B) + 1)
        BY <3>3, <3>4, <1>19
      <3> QED
        BY <3>1, <3>2, <3>5
    <2> QED
      BY <2>1, <2>2, <2>3, <2>4, <2>5, <2>6, <2>7 DEF HostKeeps
  <1> QED
    BY <1>1, <1>22, <1>23, <1>25, <1>26, OwnerStep
-----------------------------------------------------------------------------
\* The owners, their threads and their files are left alone by a step of rank 0.
OwnersFixed ==
    /\ guard' = guard /\ file' = file /\ wq' = wq /\ writing' = writing /\ wstat' = wstat
    /\ opc' = opc /\ cur' = cur /\ died' = died

\* An owner whose streams changed: its writer and its answers did not.
LEMMA OwnerFixed ==
    ASSUME PagesIInv, OwnersFixed, NEW o \in Owners, ResultsOK(o)', died[o] = "runs" => RunsOK(o)'
    PROVE  OwnerOK(o)'
  <1>1. OwnerOK(o)
    BY DEF PagesIInv
  <1>2. WriterOK(o)'
    BY <1>1, WriterSame DEF OwnerOK, OwnersFixed
  <1> QED
    BY <1>2 DEF OwnerOK, OwnersFixed

\* A running worker in this session, when its stream grows and nothing else changes.
LEMMA StreamingRuns ==
    ASSUME OwnersFixed, NEW o \in Owners, RunsOK(o), Streaming(o)',
           Stream(bulk[o], queue, o, session, guard[o].append, guard[o].next, guard[o].fetch,
                  appendSeq[o], front)'
    PROVE  RunsOK(o)'
  <1>1. Stored(o)' /\ Handling(o)'
    BY StoredSame, HandlingSame DEF RunsOK, OwnersFixed
  <1> QED
    BY <1>1 DEF RunsOK

\* A worker in this session stays in it.
LEMMA StreamingSame ==
    ASSUME OwnersFixed, NEW o \in Owners, ctl'[o] = ctl[o], session' = session, Streaming(o)
    PROVE  Streaming(o)'
  BY DEF Streaming, OwnersFixed

\* Publishing a batch for every owner.
LEMMA KeepsPublish ==
    ASSUME PagesAssumption, PagesIInv, NEW n \in 1..2, Publish(n)
    PROVE  PagesIInv'
  <1>1. /\ at.op = "idle" /\ transport = "ready" /\ ~Ring /\ front + n <= PageLimit
        /\ appendSeq' = [o \in Owners |-> appendSeq[o] + 1] /\ mask' = Owners /\ front' = front + n
        /\ session' = session /\ fetchSeq' = fetchSeq /\ warm' = warm /\ transport' = transport /\ at' = at /\ got' = got
        /\ bulk' = bulk /\ back' = back /\ ctl' = ctl /\ ready' = ready
        /\ OwnersFixed
    BY DEF Publish, Usable, OwnersFixed, wires, owners
  <1>2. PICK GR : GR = [o \in 1..N |->
         [owner |-> o,
          frame |-> Frame("append", session, appendSeq[o],
                          [b \in front..(front + n - 1) |-> session])]]
    OBVIOUS
  <1>3. queue' = queue \o GR
    BY <1>2 DEF Publish
  <1>4. N \in Nat \ {0} /\ Owners = 1..N
    BY Bounds DEF Owners
  <1>5. session \in Nat /\ front \in Nat /\ queue \in Seq(QueueItems) /\ \A o \in Owners : appendSeq[o] \in Nat
    BY KnownIs, Bounds DEF PagesIInv
  <1>6. ASSUME NEW o \in Owners
        PROVE  \E f : /\ GR[o].owner = o /\ GR[o].frame = f /\ GR[o] \in QueueItems
                      /\ Batch(f, session) /\ f.seq = appendSeq[o]
                      /\ FirstPage(f) = front /\ PagesEnd(f) = front + n
    <2>1. PICK f : f = Frame("append", session, appendSeq[o], [b \in front..(front + n - 1) |-> session])
      OBVIOUS
    <2>2. GR[o] = [owner |-> o, frame |-> f]
      BY <2>1, <1>2, <1>4
    <2>3. Batch(f, session) /\ f.seq = appendSeq[o] /\ FirstPage(f) = front /\ PagesEnd(f) = front + n /\ f \in PageFrames
      <3>1. n \in Nat \ {0} /\ appendSeq[o] \in Nat
        BY <1>5
      <3>2. PICK q \in Nat, x \in Nat, s \in Nat, m \in Nat \ {0} :
              q = appendSeq[o] /\ x = front /\ s = session /\ m = n
        BY <3>1, <1>5
      <3>3. PublishedFrame(f, s, q, x, m) /\ x + m <= PageLimit
        BY <3>2, <2>1, <1>1 DEF PublishedFrame
      <3>4. Batch(f, s) /\ f.seq = q /\ FirstPage(f) = x /\ PagesEnd(f) = x + m /\ f \in PageFrames
        BY <3>3, PublishedBatch
      <3> QED
        BY <3>2, <3>4
    <2>4. GR[o].owner = o /\ GR[o].frame = f
      BY <2>2
    <2>5. GR[o] \in QueueItems
      BY <2>2, <2>3 DEF QueueItems
    <2> QED
      BY <2>3, <2>4, <2>5
  <1>7. GR \in Seq(QueueItems) /\ Len(GR) = N
    <2>1. GR \in [1..N -> QueueItems]
      BY <1>2, <1>4, <1>6
    <2> QED
      BY <2>1, <1>4, LenProperties, SeqDef
  <1>8. queue' \in Seq(QueueItems)
    BY <1>3, <1>5, <1>7, ConcatProperties
  <1>9. \A o \in Owners : appendSeq'[o] = appendSeq[o] + 1
    BY <1>1
  <1>10. HostTypes'
    <2>1. \A o \in Owners : appendSeq[o] <= front
      BY DEF PagesIInv, Globals
    <2>2. PageLimit \in Nat
      BY Bounds
    <2>3. \A o \in Owners : appendSeq[o] + 1 \in 0..PageLimit
      BY <2>1, <2>2, <1>1, <1>5
    <2>4. appendSeq' \in [Owners -> 0..PageLimit]
      BY <2>3, <1>1
    <2>5. front' \in 0..PageLimit
      BY <2>2, <1>1, <1>5
    <2>6. queue' \in Seq([owner : Owners, frame : PageFrames])
      BY <1>8 DEF QueueItems
    <2> QED
      BY <2>4, <2>5, <2>6, <1>1 DEF PagesIInv, HostTypes
  <1>11. WireTypes'
    BY <1>1 DEF PagesIInv, WireTypes
  <1>12. OwnerTypes'
    BY <1>1 DEF PagesIInv, OwnerTypes, OwnersFixed
  <1>13. Between /\ Between' /\ HostOK /\ warm = 0 /\ \A o \in Owners : Served(o)
    <2>1. Between /\ Between'
      BY <1>1 DEF Between
    <2> QED
      BY <2>1, <1>1, UsableServed
  <1>14. Globals'
    <2>1. \A o \in Owners : appendSeq'[o] <= front'
      <3>1. \A o \in Owners : appendSeq[o] <= front
        BY DEF PagesIInv, Globals
      <3> QED
        BY <3>1, <1>1, <1>5, <1>9
    <2>2. mask' # {}
      BY <1>1, Bounds
    <2> QED
      BY <2>1, <2>2, <1>1, <1>13 DEF PagesIInv, Globals
  <1>15. \A o \in Owners : Served(o)'
    BY <1>1, <1>13, StreamingSame DEF Served, OwnersFixed
  <1>16. ASSUME NEW o \in Owners PROVE OwnerOK(o)'
    <2>1. ResultsOK(o)'
      BY <1>1, ResultsSame DEF PagesIInv, OwnerOK
    <2>2. ASSUME died[o] = "runs" PROVE RunsOK(o)'
      <3>1. RunsOK(o) /\ Streaming(o) /\ AllAppend(bulk[o])
        BY <2>2, <1>13 DEF PagesIInv, OwnerOK, Served
      <3>2. Streaming(o)'
        BY <3>1, <1>1, StreamingSame
      <3>3. Stream(bulk[o], queue, o, session, guard[o].append, guard[o].next, guard[o].fetch,
                   appendSeq[o], front)
        BY <3>1 DEF RunsOK, Streaming
      <3>4. PICK f : /\ GR[o].owner = o /\ GR[o].frame = f
                     /\ Batch(f, session) /\ f.seq = appendSeq[o]
                     /\ FirstPage(f) = front /\ PagesEnd(f) = front + n
        BY <1>6
      <3>5. OneFor(GR, o, f)
        <4>1. \A i \in 1..Len(GR) : GR[i].owner = i
          BY <1>4, <1>6, <1>7
        <4>2. o \in 1..Len(GR)
          BY <1>4, <1>7
        <4> QED
          BY <4>1, <4>2, <3>4 DEF OneFor
      <3>6. bulk[o] \in Seq(PageFrames)
        BY DEF PagesIInv, WireTypes
      <3>7. guard[o].append \in Nat /\ guard[o].next \in Nat /\ appendSeq[o] \in Nat
        BY <1>5, GuardIs DEF PagesIInv
      <3>8. PICK B, s, a, m, g, A, F :
              /\ B = bulk[o] /\ s = session /\ a = guard[o].append /\ m = guard[o].next
              /\ g = guard[o].fetch /\ A = appendSeq[o] /\ F = front
        OBVIOUS
      <3>9. /\ B \in Seq(PageFrames) /\ a \in Nat /\ m \in Nat /\ A \in Nat /\ F \in Nat
            /\ Stream(B, queue, o, s, a, m, g, A, F) /\ AllAppend(B) /\ Batch(f, s)
        BY <3>1, <3>3, <3>4, <3>6, <3>7, <3>8, <1>5
      <3>10. f.seq = A /\ FirstPage(f) = F
        BY <3>4, <3>8
      <3>11. Stream(B, queue \o GR, o, s, a, m, g, A + 1, PagesEnd(f))
        BY <3>5, <3>9, <3>10, <1>1, <1>5, <1>7, StreamPublish
      <3>12. /\ bulk'[o] = B /\ queue' = queue \o GR /\ session' = s /\ guard'[o] = guard[o]
             /\ appendSeq'[o] = A + 1 /\ front' = PagesEnd(f)
        BY <3>4, <3>8, <1>1, <1>3, <1>9 DEF OwnersFixed
      <3>13. Stream(bulk[o], queue, o, session, guard[o].append, guard[o].next, guard[o].fetch,
                    appendSeq[o], front)'
        BY <3>8, <3>11, <3>12
      <3> QED
        BY <3>1, <3>2, <3>13, <1>1, StreamingRuns
    <2> QED
      BY <2>1, <2>2, <1>1, OwnerFixed
  <1>17. HostOK'
    <2>1. at'.op # "fetch"
      BY <1>1
    <2>2. warm' = 0
      BY <1>1, <1>13
    <2> QED
      BY <2>1, <2>2, <1>13, <1>15, HostBetween
  <1> QED
    BY <1>10, <1>11, <1>12, <1>14, <1>16, <1>17 DEF PagesIInv

\* While something is queued rank 0 is between two calls.
LEMMA QueuedBetween ==
    ASSUME PagesIInv, queue # <<>>, transport # "poisoned"
    PROVE  Between /\ ~Ring
  <1>1. HostOK /\ ~Ring
    BY DEF PagesIInv, Globals
  <1>2. at.op \in PageOps
    BY DEF PagesIInv, HostTypes
  <1> QED
    BY <1>1, <1>2 DEF HostOK, Between, PageOps

\* The sender puts the queue's head on the wire.
LEMMA KeepsSenderSends ==
    ASSUME PagesAssumption, PagesIInv, SenderSends
    PROVE  PagesIInv'
  <1>1. /\ session' = session /\ appendSeq' = appendSeq /\ fetchSeq' = fetchSeq /\ mask' = mask /\ warm' = warm
        /\ transport' = transport /\ front' = front /\ at' = at /\ got' = got
        /\ back' = back /\ ctl' = ctl /\ ready' = ready /\ OwnersFixed
        /\ queue # <<>> /\ transport # "poisoned" /\ queue' = Tail(queue)
        /\ died[Head(queue).owner] = "runs"
        /\ bulk' = [bulk EXCEPT ![Head(queue).owner] = Append(@, Head(queue).frame)]
    BY DEF SenderSends, OwnersFixed, owners
  <1>2. queue \in Seq(QueueItems)
    BY DEF PagesIInv, HostTypes, QueueItems
  <1>3. Tail(queue) \in Seq(QueueItems) /\ Head(queue) \in QueueItems /\ Head(queue) = queue[1] /\ 1 \in 1..Len(queue)
    BY <1>1, <1>2, RestIs
  <1>4. PICK h, o : h = Head(queue).frame /\ o = Head(queue).owner
    OBVIOUS
  <1>5. h \in PageFrames /\ o \in Owners
    BY <1>3, <1>4 DEF QueueItems
  <1>6. Between /\ ~Ring /\ warm = 0 /\ \A p \in Owners : Served(p)
    BY <1>1, QueuedBetween, UsableServed
  <1>7. PICK B \in Seq(PageFrames) : B = bulk[o]
    BY <1>5 DEF PagesIInv, WireTypes
  <1>8. PICK D : D = Append(B, h)
    OBVIOUS
  <1>9. D \in Seq(PageFrames)
    BY <1>5, <1>8, MoreIs
  <1>10. bulk' \in [Owners -> Seq(PageFrames)] /\ bulk'[o] = D /\ \A p \in Owners : p # o => bulk'[p] = bulk[p]
    <2>1. bulk' = [bulk EXCEPT ![o] = D] /\ bulk \in [Owners -> Seq(PageFrames)]
      BY <1>1, <1>4, <1>7, <1>8 DEF PagesIInv, WireTypes
    <2> QED
      BY <2>1, <1>5, <1>9, EntryIs
  <1>11. HostTypes'
    <2>1. queue' \in Seq([owner : Owners, frame : PageFrames])
      BY <1>1, <1>3 DEF QueueItems
    <2> QED
      BY <2>1, <1>1 DEF PagesIInv, HostTypes
  <1>12. WireTypes' /\ OwnerTypes'
    <2>1. WireTypes'
      BY <1>1, <1>10 DEF PagesIInv, WireTypes
    <2>2. OwnerTypes'
      BY <1>1 DEF PagesIInv, OwnerTypes, OwnersFixed
    <2> QED
      BY <2>1, <2>2
  <1>13. Between'
    BY <1>1, <1>6 DEF Between
  <1>14. Globals'
    BY <1>1, <1>6, <1>13 DEF PagesIInv, Globals
  <1>15. ASSUME NEW p \in Owners, died[p] = "runs"
         PROVE  /\ RunsOK(p) /\ Streaming(p) /\ Streaming(p)'
                /\ Stream(bulk[p], queue, p, session, guard[p].append, guard[p].next, guard[p].fetch,
                          appendSeq[p], front)
    <2>1. RunsOK(p) /\ Streaming(p)
      BY <1>6, <1>15 DEF PagesIInv, OwnerOK, Served
    <2>2. Streaming(p)'
      BY <2>1, <1>1, StreamingSame
    <2> QED
      BY <2>1, <2>2 DEF RunsOK, Streaming
  <1>16. ASSUME NEW p \in Owners, p # o PROVE OwnerOK(p)' /\ Served(p)'
    <2>1. ResultsOK(p)'
      BY <1>1, ResultsSame DEF PagesIInv, OwnerOK
    <2>2. ASSUME died[p] = "runs" PROVE RunsOK(p)'
      <3>1. PICK E, s, a, m, g, A, F :
              /\ E = bulk[p] /\ s = session /\ a = guard[p].append /\ m = guard[p].next
              /\ g = guard[p].fetch /\ A = appendSeq[p] /\ F = front
        OBVIOUS
      <3>2. Stream(E, queue, p, s, a, m, g, A, F)
        BY <3>1, <2>2, <1>15
      <3>3. Stream(E, Tail(queue), p, s, a, m, g, A, F)
        BY <3>2, <1>1, <1>2, <1>4, <1>16, StreamSendOther
      <3>4. /\ bulk'[p] = E /\ queue' = Tail(queue) /\ session' = s /\ guard'[p] = guard[p]
            /\ appendSeq'[p] = A /\ front' = F
        BY <3>1, <1>1, <1>10, <1>16 DEF OwnersFixed
      <3>5. Stream(bulk[p], queue, p, session, guard[p].append, guard[p].next, guard[p].fetch,
                   appendSeq[p], front)'
        BY <3>1, <3>3, <3>4
      <3> QED
        BY <3>5, <2>2, <1>1, <1>15, StreamingRuns
    <2>3. OwnerOK(p)'
      BY <2>1, <2>2, <1>1, OwnerFixed
    <2>4. Served(p)'
      BY <1>1, <1>6, <1>10, <1>15, <1>16 DEF Served, OwnersFixed
    <2> QED
      BY <2>3, <2>4
  <1>17. OwnerOK(o)' /\ Served(o)'
    <2>1. ResultsOK(o)'
      BY <1>1, <1>5, ResultsSame DEF PagesIInv, OwnerOK
    <2>2. died[o] = "runs"
      BY <1>1, <1>4
    <2>3. RunsOK(o)'
      <3>1. PICK s, a, m, g, A, F :
              /\ s = session /\ a = guard[o].append /\ m = guard[o].next
              /\ g = guard[o].fetch /\ A = appendSeq[o] /\ F = front
        OBVIOUS
      <3>2. Stream(B, queue, o, s, a, m, g, A, F)
        BY <3>1, <2>2, <1>5, <1>7, <1>15
      <3>3. Stream(Append(B, Head(queue).frame), Tail(queue), o, s, a, m, g, A, F)
        BY <3>2, <1>1, <1>2, <1>4, <1>6, StreamSend
      <3>4. /\ bulk'[o] = Append(B, Head(queue).frame) /\ queue' = Tail(queue) /\ session' = s
            /\ guard'[o] = guard[o] /\ appendSeq'[o] = A /\ front' = F
        BY <3>1, <1>1, <1>4, <1>8, <1>10 DEF OwnersFixed
      <3>5. Stream(bulk[o], queue, o, session, guard[o].append, guard[o].next, guard[o].fetch,
                   appendSeq[o], front)'
        BY <3>1, <3>3, <3>4
      <3> QED
        BY <3>5, <2>2, <1>1, <1>5, <1>15, StreamingRuns
    <2>4. OwnerOK(o)'
      BY <2>1, <2>3, <1>1, <1>5, OwnerFixed
    <2>5. h.kind = "append"
      <3>1. h \in QueuedFor(queue, o)
        BY <1>3, <1>4 DEF QueuedFor
      <3> QED
        BY <3>1, <2>2, <1>5, <1>15 DEF Stream, Continues, Batch
    <2>6. AllAppend(D)
      <3>1. AllAppend(B)
        BY <2>2, <1>5, <1>6, <1>7 DEF Served
      <3> QED
        BY <3>1, <2>5, <1>5, <1>8, EndsAppend
    <2>7. Served(o)'
      BY <2>2, <2>6, <1>1, <1>5, <1>6, <1>10, <1>15 DEF Served, OwnersFixed
    <2> QED
      BY <2>4, <2>7
  <1>18. \A p \in Owners : OwnerOK(p)' /\ Served(p)'
    BY <1>16, <1>17
  <1>19. HostOK'
    <2>1. HostOK
      BY <1>1 DEF PagesIInv
    <2>2. at'.op = "fetch" => /\ at'.owner \in Owners /\ fetchSeq'[at'.owner] < MaxFetch
                              /\ at'.left \subseteq 0..(front' - 1)
      BY <2>1, <1>1, <1>6 DEF HostOK
    <2> QED
      BY <2>2, <1>1, <1>6, <1>13, <1>18, HostBetween
  <1> QED
    BY <1>11, <1>12, <1>14, <1>18, <1>19 DEF PagesIInv

\* Rank 0 sends its fetch.
LEMMA KeepsFetchSend ==
    ASSUME PagesAssumption, PagesIInv, FetchSend
    PROVE  PagesIInv'
  <1>1. /\ session' = session /\ appendSeq' = appendSeq /\ fetchSeq' = fetchSeq /\ mask' = mask /\ warm' = warm
        /\ transport' = "pending" /\ front' = front /\ at' = [at EXCEPT !.op = "fetchwait"] /\ got' = got
        /\ back' = back /\ ctl' = ctl /\ ready' = ready /\ OwnersFixed /\ queue' = queue
        /\ queue = <<>> /\ transport # "poisoned" /\ at.op = "fetch" /\ died[at.owner] = "runs"
        /\ bulk' = [bulk EXCEPT ![at.owner] = Append(@, Frame("fetch", session, fetchSeq[at.owner],
                                                [b \in at.left |-> 0]))]
    BY DEF FetchSend, FetchReady, Drained, OwnersFixed, owners
  <1>2. PICK o : o = at.owner
    OBVIOUS
  <1>3. Between
    BY <1>1 DEF Between
  <1>4. HostOK /\ warm = 0 /\ \A p \in Owners : Served(p)
    BY <1>1, <1>3, UsableServed
  <1>5. o \in Owners /\ fetchSeq[o] < MaxFetch /\ at.left \subseteq 0..(front - 1)
    BY <1>1, <1>2, <1>3, <1>4 DEF HostOK
  <1>6. PICK h : h = Frame("fetch", session, fetchSeq[o], [b \in at.left |-> 0])
    OBVIOUS
  <1>7. session \in Nat /\ front \in Nat /\ front <= PageLimit /\ PageLimit \in Nat /\ fetchSeq[o] \in Nat
    BY <1>5, KnownIs, Bounds DEF PagesIInv
  <1>8. PICK P : P = [b \in at.left |-> 0]
    OBVIOUS
  <1>9. P \in [at.left -> Nat] /\ DOMAIN P = at.left /\ at.left \subseteq Blocks
    <2>1. P \in [at.left -> Nat] /\ DOMAIN P = at.left
      BY <1>8
    <2>2. 0..(front - 1) \subseteq Blocks
      BY <1>7 DEF Blocks
    <2> QED
      BY <2>1, <2>2, <1>5
  <1>10. h \in PageFrames
    <2>1. P \in PageMaps
      BY <1>9, MapType
    <2> QED
      BY <2>1, <1>6, <1>7, <1>8, FrameType
  <1>11. h.kind = "fetch" /\ h.session = session /\ h.seq = fetchSeq[o] /\ h.pages = P
    BY <1>6, <1>8, FrameIs
  <1>12. \A b \in DOMAIN h.pages : b < front
    <2>1. \A b \in 0..(front - 1) : b < front
      BY <1>7
    <2> QED
      BY <2>1, <1>5, <1>9, <1>11
  <1>13. PICK B \in Seq(PageFrames) : B = bulk[o]
    BY <1>5 DEF PagesIInv, WireTypes
  <1>14. PICK D : D = Append(B, h)
    OBVIOUS
  <1>15. D \in Seq(PageFrames)
    BY <1>10, <1>14, MoreIs
  <1>16. bulk' \in [Owners -> Seq(PageFrames)] /\ bulk'[o] = D /\ \A p \in Owners : p # o => bulk'[p] = bulk[p]
    <2>1. bulk' = [bulk EXCEPT ![o] = D] /\ bulk \in [Owners -> Seq(PageFrames)]
      BY <1>1, <1>2, <1>6, <1>13, <1>14 DEF PagesIInv, WireTypes
    <2> QED
      BY <2>1, <1>5, <1>15, EntryIs
  <1>17. at' \in [op : PageOps, owner : Nat, left : SUBSET Nat] /\ at'.op = "fetchwait" /\ at'.owner = o
    <2>1. at \in [op : PageOps, owner : Nat, left : SUBSET Nat] /\ "fetchwait" \in PageOps
      BY DEF PagesIInv, HostTypes, PageOps
    <2> QED
      BY <2>1, <1>1, <1>2
  <1>18. HostTypes'
    BY <1>1, <1>17 DEF PagesIInv, HostTypes
  <1>19. WireTypes'
    BY <1>1, <1>16 DEF PagesIInv, WireTypes
  <1>20. OwnerTypes'
    BY <1>1 DEF PagesIInv, OwnerTypes, OwnersFixed
  <1>21. Globals'
    BY <1>1, <1>17 DEF PagesIInv, Globals
  <1>22. \A p \in Owners : p # o => Same(p)
    BY <1>1, <1>16 DEF Same, OwnerSame, WireSame, KnownSame, OwnersFixed
  <1>23. \A p \in Owners : p # o => OwnerOK(p)' /\ Served(p)'
    BY <1>4, <1>22, OwnerKept, HostKept DEF PagesIInv
  <1>24. died[o] = "runs"
    BY <1>1, <1>2
  <1>25. RunsOK(o) /\ Streaming(o) /\ AllAppend(B) /\ fetchSeq[o] = guard[o].fetch /\ opc[o] = "poll"
    BY <1>4, <1>5, <1>13, <1>24 DEF PagesIInv, OwnerOK, Served
  <1>26. Streaming(o)'
    BY <1>1, <1>5, <1>25, StreamingSame
  <1>27. OwnerOK(o)'
    <2>1. ResultsOK(o)'
      BY <1>1, <1>5, ResultsSame DEF PagesIInv, OwnerOK
    <2>2. RunsOK(o)'
      <3>1. PICK s, a, m, g, A, F :
              /\ s = session /\ a = guard[o].append /\ m = guard[o].next
              /\ g = guard[o].fetch /\ A = appendSeq[o] /\ F = front
        OBVIOUS
      <3>2. Stream(B, queue, o, s, a, m, g, A, F)
        BY <3>1, <1>13, <1>25 DEF RunsOK, Streaming
      <3>3. NoneQueued(queue, o)
        <4>1. Len(queue) = 0
          BY <1>1
        <4> QED
          BY <4>1 DEF NoneQueued
      <3>4. h.kind = "fetch" /\ h.session = s /\ h.seq = g /\ (\A b \in DOMAIN h.pages : b < F) /\ g \in Nat
        BY <3>1, <1>7, <1>11, <1>12, <1>25
      <3>5. Stream(Append(B, h), queue, o, s, a, m, g, A, F)
        BY <3>2, <3>3, <3>4, <1>10, <1>25, StreamFetch
      <3>6. /\ bulk'[o] = Append(B, h) /\ queue' = queue /\ session' = s
            /\ guard'[o] = guard[o] /\ appendSeq'[o] = A /\ front' = F
        BY <3>1, <1>1, <1>14, <1>16 DEF OwnersFixed
      <3>7. Stream(bulk[o], queue, o, session, guard[o].append, guard[o].next, guard[o].fetch,
                   appendSeq[o], front)'
        BY <3>1, <3>5, <3>6
      <3> QED
        BY <3>7, <1>1, <1>5, <1>25, <1>26, StreamingRuns
    <2> QED
      BY <2>1, <2>2, <1>1, <1>5, OwnerFixed
  <1>28. Fetching(o)'
    <2>1. EndsWith(D, "fetch")
      BY <1>10, <1>11, <1>14, <1>25, EndsAppend
    <2>2. back[o] = <<>> /\ ready[o] = <<>>
      BY <1>4, <1>5 DEF Served
    <2> QED
      BY <2>1, <2>2, <1>1, <1>16, <1>25, <1>26 DEF Fetching, OwnersFixed
  <1>29. HostOK'
    <2>1. \A p \in Owners : IF p = at'.owner THEN Fetching(p)' ELSE Served(p)'
      BY <1>17, <1>23, <1>28
    <2>2. warm' = 0 /\ queue' = <<>> /\ at'.owner \in Owners /\ fetchSeq'[at'.owner] < MaxFetch
      BY <1>1, <1>4, <1>5, <1>17
    <2> QED
      BY <2>1, <2>2, <1>17 DEF HostOK, Between
  <1>30. \A p \in Owners : OwnerOK(p)'
    BY <1>23, <1>27
  <1> QED
    BY <1>18, <1>19, <1>20, <1>21, <1>29, <1>30 DEF PagesIInv

\* Rank 0 reads the answer to its fetch.
LEMMA KeepsFetchResult ==
    ASSUME PagesAssumption, PagesIInv, FetchResult
    PROVE  PagesIInv'
  <1>1. /\ session' = session /\ appendSeq' = appendSeq /\ mask' = mask /\ warm' = warm
        /\ front' = front /\ at' = Idle /\ queue' = queue
        /\ bulk' = bulk /\ ctl' = ctl /\ ready' = ready /\ OwnersFixed
        /\ at.op = "fetchwait" /\ back[at.owner] # <<>>
        /\ back' = [back EXCEPT ![at.owner] = Tail(@)]
    BY DEF FetchResult, OwnersFixed, owners
  <1>2. PICK o : o = at.owner
    OBVIOUS
  <1>3. PICK f : f = Head(back[o])
    OBVIOUS
  <1>4. PICK valid : valid = (/\ f.kind = "result" /\ f.session = session
                              /\ f.seq = fetchSeq[o] /\ DOMAIN f.pages = at.left)
    OBVIOUS
  <1>5. /\ got' = IF valid THEN got \cup Received(o, f.pages) ELSE got
        /\ fetchSeq' = [fetchSeq EXCEPT ![o] = @ + (IF valid THEN 1 ELSE 0)]
        /\ transport' = IF valid /\ transport = "pending" THEN "ready" ELSE "poisoned"
    BY <1>2, <1>3, <1>4 DEF FetchResult
  <1>6. transport # "poisoned"
    BY <1>1 DEF PagesIInv, Globals, Between
  <1>7. /\ queue = <<>> /\ o \in Owners /\ fetchSeq[o] < MaxFetch /\ Fetching(o) /\ warm = 0
        /\ \A p \in Owners : p # o => Served(p)
    BY <1>1, <1>2, <1>6 DEF PagesIInv, HostOK
  <1>8. back[o] # <<>> /\ Len(back[o]) = 1 /\ back[o] \in Seq(PageFrames)
    BY <1>1, <1>2, <1>7 DEF Fetching, PagesIInv, WireTypes
  <1>9. Tail(back[o]) = <<>> /\ Tail(back[o]) \in Seq(PageFrames) /\ f = back[o][1] /\ 1 \in 1..Len(back[o])
    BY <1>3, <1>8, RestIs
  <1>10. /\ back' \in [Owners -> Seq(PageFrames)] /\ back'[o] = Tail(back[o])
         /\ \A p \in Owners : p # o => back'[p] = back[p]
    <2>1. back' = [back EXCEPT ![o] = Tail(back[o])] /\ back \in [Owners -> Seq(PageFrames)]
      BY <1>1, <1>2 DEF PagesIInv, WireTypes
    <2> QED
      BY <2>1, <1>7, <1>9, EntryIs
  <1>11. fetchSeq[o] \in Nat /\ MaxFetch \in Nat
    BY <1>7, KnownIs, Bounds DEF PagesIInv
  <1>12. PICK x : x = fetchSeq[o] + (IF valid THEN 1 ELSE 0)
    OBVIOUS
  <1>13. x \in 0..MaxFetch /\ (valid => x = fetchSeq[o] + 1)
    <2>1. CASE valid
      BY <2>1, <1>7, <1>11, <1>12
    <2>2. CASE ~valid
      BY <2>2, <1>7, <1>11, <1>12
    <2> QED
      BY <2>1, <2>2
  <1>14. /\ fetchSeq' \in [Owners -> 0..MaxFetch] /\ fetchSeq'[o] = x
         /\ \A p \in Owners : p # o => fetchSeq'[p] = fetchSeq[p]
    <2>1. fetchSeq' = [fetchSeq EXCEPT ![o] = x] /\ fetchSeq \in [Owners -> 0..MaxFetch]
      BY <1>5, <1>12 DEF PagesIInv, HostTypes
    <2> QED
      BY <2>1, <1>7, <1>13, EntryIs
  <1>15. at' \in [op : PageOps, owner : Nat, left : SUBSET Nat] /\ at'.op = "idle" /\ Between'
    BY <1>1, IdleType DEF Between
  <1>16. transport' \in {"ready", "poisoned"}
    BY <1>5
  <1>17. HostTypes'
    BY <1>1, <1>14, <1>15, <1>16 DEF PagesIInv, HostTypes
  <1>18. WireTypes'
    BY <1>1, <1>10 DEF PagesIInv, WireTypes
  <1>19. OwnerTypes'
    BY <1>1 DEF PagesIInv, OwnerTypes, OwnersFixed
  <1>20. \A p \in got' : p[3] = session
    <2>1. \A p \in got : p[3] = session
      BY DEF PagesIInv, Globals
    <2>2. CASE valid
      <3>1. f.kind = "result" /\ f.session = session
        BY <2>2, <1>4
      <3>2. \A b \in DOMAIN f.pages : f.pages[b] = session
        BY <3>1, <1>7, <1>9 DEF PagesIInv, OwnerOK, ResultsOK
      <3>3. \A p \in Received(o, f.pages) : p[3] = session
        BY <3>2 DEF Received
      <3> QED
        BY <2>1, <2>2, <3>3, <1>5
    <2>3. CASE ~valid
      BY <2>1, <2>3, <1>5
    <2> QED
      BY <2>2, <2>3
  <1>21. Globals'
    BY <1>1, <1>15, <1>20 DEF PagesIInv, Globals
  <1>22. \A p \in Owners : p # o => Same(p)
    BY <1>1, <1>10, <1>14 DEF Same, OwnerSame, WireSame, KnownSame, OwnersFixed
  <1>23. \A p \in Owners : p # o => OwnerOK(p)' /\ Served(p)'
    BY <1>7, <1>22, OwnerKept, HostKept DEF PagesIInv
  <1>24. OwnerOK(o)'
    <2>1. ResultsOK(o)'
      <3>1. back'[o] = <<>>
        BY <1>9, <1>10
      <3>2. Len(back'[o]) = 0
        BY <3>1
      <3> QED
        BY <3>2 DEF ResultsOK
    <2>2. ASSUME died[o] = "runs" PROVE RunsOK(o)'
      <3>1. RunsOK(o) /\ Streaming(o)
        BY <2>2, <1>7 DEF PagesIInv, OwnerOK, Fetching
      <3>2. Stream(bulk[o], queue, o, session, guard[o].append, guard[o].next, guard[o].fetch,
                   appendSeq[o], front)'
        BY <3>1, <1>1, <1>7, StreamSame DEF RunsOK, Streaming, OwnersFixed
      <3> QED
        BY <3>1, <3>2, <1>1, <1>7, StreamingSame, StreamingRuns
    <2> QED
      BY <2>1, <2>2, <1>1, <1>7, OwnerFixed
  <1>25. ASSUME transport' # "poisoned" PROVE HostOK'
    <2>1. valid
      BY <1>5, <1>25
    <2>2. ready[o] = <<>> /\ (died[o] = "runs" =>
             Streaming(o) /\ opc[o] = "poll" /\ guard[o].fetch = fetchSeq[o] + 1 /\ bulk[o] = <<>>)
      BY <1>7, <1>8 DEF Fetching
    <2>3. bulk[o] = <<>> => AllAppend(bulk[o])
      <3>1. bulk[o] = <<>> => Len(bulk[o]) = 0
        OBVIOUS
      <3> QED
        BY <3>1 DEF AllAppend
    <2>4. Served(o)'
      <3>1. Streaming(o) => Streaming(o)'
        BY <1>1, <1>7, StreamingSame
      <3>2. fetchSeq'[o] = fetchSeq[o] + 1 /\ back'[o] = <<>>
        BY <2>1, <1>9, <1>10, <1>13, <1>14
      <3> QED
        BY <2>2, <2>3, <3>1, <3>2, <1>1 DEF Served, OwnersFixed
    <2>5. warm' = 0
      BY <1>1, <1>7
    <2> QED
      BY <2>4, <2>5, <1>15, <1>23, HostBetween
  <1>26. \A p \in Owners : OwnerOK(p)'
    BY <1>23, <1>24
  <1> QED
    BY <1>17, <1>18, <1>19, <1>21, <1>25, <1>26 DEF PagesIInv

\* What is due after a step.
LEMMA DueNext ==
    ASSUME WireTypes', NEW o \in Owners
    PROVE  Due(o)' \in Nat
  <1>1. bulk'[o] \in Seq(PageFrames) /\ back'[o] \in Seq(PageFrames)
    BY DEF WireTypes
  <1>2. Len(bulk'[o]) \in Nat /\ Len(back'[o]) \in Nat
    BY <1>1
  <1>3. PICK m \in Nat, n \in Nat, x \in Nat :
          /\ m = Len(bulk'[o]) /\ n = Len(back'[o])
          /\ x = IF opc'[o] = "poll" THEN 0 ELSE 1
    BY <1>2
  <1>4. Due(o)' = m + x + n
    BY <1>3 DEF Due
  <1>5. m + x + n \in Nat
    OBVIOUS
  <1> QED
    BY <1>4, <1>5

\* One answer of an owner less: what is due of it goes down by one.
LEMMA DueLess ==
    ASSUME WireTypes, WireTypes', NEW o \in Owners, back[o] # <<>>, back'[o] = Tail(back[o]),
           bulk'[o] = bulk[o], opc'[o] = opc[o]
    PROVE  Due(o)' = Due(o) - 1
  <1>1. PICK x, y : x = Len(bulk[o]) + (IF opc[o] = "poll" THEN 0 ELSE 1) /\ y = Len(back[o])
    OBVIOUS
  <1>2. back[o] \in Seq(PageFrames) /\ bulk[o] \in Seq(PageFrames)
    BY DEF WireTypes
  <1>3. y \in Nat /\ Len(Tail(back[o])) = y - 1
    BY <1>1, <1>2, RestIs
  <1>4. Len(bulk[o]) \in Nat
    BY <1>2
  <1>5. x \in Nat
    <2>1. PICK m \in Nat, k \in Nat : m = Len(bulk[o]) /\ k = IF opc[o] = "poll" THEN 0 ELSE 1
      BY <1>4
    <2>2. x = m + k
      BY <2>1, <1>1
    <2> QED
      BY <2>2
  <1>6. Due(o) = x + y
    BY <1>1 DEF Due
  <1>7. Due(o)' = x + (y - 1)
    BY <1>1, <1>3 DEF Due
  <1> QED
    BY <1>3, <1>5, <1>6, <1>7

\* Rank 0 takes the answer to a warm fetch.
LEMMA KeepsWarmResult ==
    ASSUME PagesAssumption, PagesIInv, NEW o \in Owners, WarmResult(o)
    PROVE  PagesIInv'
  <1>1. /\ session' = session /\ appendSeq' = appendSeq /\ fetchSeq' = fetchSeq /\ mask' = mask
        /\ front' = front /\ at' = at /\ queue' = queue
        /\ bulk' = bulk /\ ctl' = ctl /\ ready' = ready /\ OwnersFixed
        /\ at.op \in {"ring", "warmdrain"} /\ back[o] # <<>>
        /\ back' = [back EXCEPT ![o] = Tail(@)]
    BY DEF WarmResult, OwnersFixed, owners
  <1>2. PICK f : f = Head(back[o])
    OBVIOUS
  <1>3. PICK mine : mine = (warm > 0 /\ f.session = session)
    OBVIOUS
  <1>4. /\ warm' = IF mine THEN warm - 1 ELSE warm
        /\ got' = IF mine THEN got \cup Received(o, f.pages) ELSE got
        /\ transport' = IF mine /\ transport = "pending" THEN "ready" ELSE transport
    BY <1>2, <1>3 DEF WarmResult
  <1>5. transport # "poisoned"
    BY <1>1 DEF PagesIInv, Globals, Between
  <1>6. /\ Ring /\ IsFiniteSet(Outstanding) /\ warm = Cardinality(Outstanding)
        /\ \A p \in Owners : Warming(p)
    BY <1>1, <1>5 DEF PagesIInv, HostOK
  <1>7. back[o] \in Seq(PageFrames) /\ back \in [Owners -> Seq(PageFrames)]
    BY DEF PagesIInv, WireTypes
  <1>8. PICK B : B = back[o]
    OBVIOUS
  <1>9. PICK D : D = Tail(B)
    OBVIOUS
  <1>10. /\ D \in Seq(PageFrames) /\ f = B[1] /\ 1 \in 1..Len(B)
         /\ \A i \in 1..Len(D) : i + 1 \in 1..Len(B) /\ D[i] = B[i + 1]
    BY <1>1, <1>2, <1>7, <1>8, <1>9, RestIs
  <1>11. back' \in [Owners -> Seq(PageFrames)] /\ back'[o] = D /\ \A p \in Owners : p # o => back'[p] = back[p]
    <2>1. back' = [back EXCEPT ![o] = D]
      BY <1>1, <1>8, <1>9
    <2> QED
      BY <2>1, <1>7, <1>10, EntryIs
  <1>12. WireTypes'
    BY <1>1, <1>11 DEF PagesIInv, WireTypes
  <1>13. OwnerTypes'
    BY <1>1 DEF PagesIInv, OwnerTypes, OwnersFixed
  <1>14. PICK d, e : d = [p \in Owners |-> Due(p)] /\ e = [p \in Owners |-> Due(p)']
    OBVIOUS
  <1>15. d \in [Owners -> Nat] /\ e \in [Owners -> Nat]
    <2>1. \A p \in Owners : Due(p) \in Nat
      BY DueType DEF PagesIInv
    <2>2. \A p \in Owners : Due(p)' \in Nat
      BY <1>12, DueNext
    <2> QED
      BY <2>1, <2>2, <1>14
  <1>16. Outstanding = Counted(d) /\ Outstanding' = Counted(e)
    BY <1>14 DEF Outstanding, Counted
  <1>17. d[o] # 0 /\ e[o] = d[o] - 1
    <2>1. Due(o) # 0
      BY <1>1, DueType DEF PagesIInv
    <2>2. Due(o)' = Due(o) - 1
      BY <1>1, <1>8, <1>9, <1>11, <1>12, DueLess DEF PagesIInv, OwnersFixed
    <2> QED
      BY <2>1, <2>2, <1>14
  <1>18. \A p \in Owners : p # o => e[p] = d[p]
    BY <1>1, <1>11, <1>14 DEF Due, OwnersFixed
  <1>19. /\ IsFiniteSet(Counted(e)) /\ Cardinality(Counted(e)) = Cardinality(Counted(d)) - 1
         /\ Cardinality(Counted(d)) # 0
    <2>1. IsFiniteSet(Counted(d))
      BY <1>6, <1>16
    <2> QED
      BY <2>1, <1>15, <1>17, <1>18, CountedLess
  <1>20. warm \in Nat /\ warm # 0
    <2>1. warm = Cardinality(Counted(d))
      BY <1>6, <1>16
    <2> QED
      BY <2>1, <1>19 DEF PagesIInv, HostTypes
  <1>21. f.kind = "result" /\ f.session = session
    BY <1>6, <1>8, <1>10 DEF Warming
  <1>22. mine
    <2>1. warm > 0
      BY <1>20
    <2> QED
      BY <2>1, <1>3, <1>21
  <1>23. warm' = warm - 1 /\ warm' \in Nat /\ warm' = Cardinality(Outstanding')
    <2>1. warm' = warm - 1
      BY <1>4, <1>22
    <2>2. warm = Cardinality(Counted(d))
      BY <1>6, <1>16
    <2>3. Cardinality(Outstanding') = warm - 1
      BY <2>2, <1>16, <1>19
    <2> QED
      BY <2>1, <2>3, <1>20
  <1>24. transport' \in {"ready", "pending", "poisoned"} /\ transport' # "poisoned"
    BY <1>4, <1>5 DEF PagesIInv, HostTypes
  <1>25. HostTypes'
    BY <1>1, <1>23, <1>24 DEF PagesIInv, HostTypes
  <1>26. \A p \in got' : p[3] = session
    <2>1. \A p \in got : p[3] = session
      BY DEF PagesIInv, Globals
    <2>2. \A b \in DOMAIN f.pages : f.pages[b] = session
      BY <1>8, <1>10, <1>21 DEF PagesIInv, OwnerOK, ResultsOK
    <2>3. \A p \in Received(o, f.pages) : p[3] = session
      BY <2>2 DEF Received
    <2> QED
      BY <2>1, <2>3, <1>4, <1>22
  <1>27. Globals'
    BY <1>1, <1>24, <1>26 DEF PagesIInv, Globals
  <1>28. \A p \in Owners : p # o => Same(p)
    BY <1>1, <1>11 DEF Same, OwnerSame, WireSame, KnownSame, OwnersFixed
  <1>29. \A p \in Owners : p # o => OwnerOK(p)' /\ Warming(p)'
    BY <1>6, <1>28, OwnerKept, HostKept DEF PagesIInv
  <1>30. OwnerOK(o)'
    <2>1. ResultsOK(o)'
      BY <1>8, <1>10, <1>11 DEF PagesIInv, OwnerOK, ResultsOK
    <2>2. ASSUME died[o] = "runs" PROVE RunsOK(o)'
      <3>1. RunsOK(o) /\ Streaming(o)
        BY <2>2, <1>6 DEF PagesIInv, OwnerOK, Warming
      <3>2. Stream(bulk[o], queue, o, session, guard[o].append, guard[o].next, guard[o].fetch,
                   appendSeq[o], front)'
        BY <3>1, <1>1, StreamSame DEF RunsOK, Streaming, OwnersFixed
      <3> QED
        BY <3>1, <3>2, <1>1, StreamingSame, StreamingRuns
    <2> QED
      BY <2>1, <2>2, <1>1, OwnerFixed
  <1>31. Warming(o)'
    <2>1. \A i \in 1..Len(back'[o]) : back'[o][i].kind = "result" /\ back'[o][i].session = session
      BY <1>6, <1>8, <1>10, <1>11 DEF Warming
    <2>2. Streaming(o) => Streaming(o)'
      BY <1>1, StreamingSame
    <2> QED
      BY <2>1, <2>2, <1>1, <1>6 DEF Warming, OwnersFixed
  <1>32. HostOK'
    <2>1. \A p \in Owners : Warming(p)'
      BY <1>29, <1>31
    <2>2. IsFiniteSet(Outstanding')
      BY <1>16, <1>19
    <2> QED
      BY <2>1, <2>2, <1>1, <1>6, <1>23 DEF HostOK, Between
  <1>33. \A p \in Owners : OwnerOK(p)'
    BY <1>29, <1>30
  <1> QED
    BY <1>12, <1>13, <1>25, <1>27, <1>32, <1>33 DEF PagesIInv

\* Before a ring chunk every owner warms the mirror, between two calls too.
LEMMA RingWarm ==
    ASSUME PagesAssumption, PagesIInv, Ring, Usable \/ at.op = "ring", transport # "poisoned",
           \A o \in Owners : died[o] = "runs"
    PROVE  /\ IsFiniteSet(Outstanding) /\ warm = Cardinality(Outstanding)
           /\ \A o \in Owners : Warming(o)
  <1>1. HostOK
    BY DEF PagesIInv
  <1>2. CASE at.op = "ring"
    BY <1>1, <1>2 DEF HostOK
  <1>3. CASE Usable
    <2>1. Between
      BY <1>3 DEF Usable, Between
    <2>2. warm = 0 /\ \A o \in Owners : Served(o)
      BY <2>1, UsableServed
    <2>3. ASSUME NEW o \in Owners PROVE bulk[o] = <<>> /\ Warming(o) /\ Due(o) = 0
      <3>1. RunsOK(o) /\ Streaming(o) /\ AllAppend(bulk[o]) /\ opc[o] = "poll" /\ fetchSeq[o] = guard[o].fetch
        BY <2>2 DEF PagesIInv, OwnerOK, Served
      <3>2. PICK B \in Seq(PageFrames) : B = bulk[o]
        BY DEF PagesIInv, WireTypes
      <3>3. Stream(B, queue, o, session, guard[o].append, guard[o].next, guard[o].fetch, appendSeq[o], front)
        BY <3>1, <3>2 DEF RunsOK, Streaming
      <3>4. \A i \in 1..Len(B) : B[i].kind = "fetch"
        BY <3>3 DEF Stream, Shape
      <3>5. \A i \in 1..Len(B) : B[i].kind = "append"
        BY <3>1, <3>2 DEF AllAppend
      <3>6. B = <<>>
        <4> SUFFICES ASSUME B # <<>> PROVE FALSE
          OBVIOUS
        <4>1. 1 \in 1..Len(B)
          BY RestIs
        <4>2. B[1].kind = "fetch" /\ B[1].kind = "append"
          BY <4>1, <3>4, <3>5
        <4> QED
          BY <4>2
      <3>7. Len(bulk[o]) = 0 /\ bulk[o] = <<>>
        BY <3>2, <3>6
      <3>8. back[o] = <<>> /\ ready[o] = <<>> /\ Len(back[o]) = 0
        BY <2>2 DEF Served
      <3>9. Due(o) = 0
        BY <3>1, <3>7, <3>8, DueType DEF PagesIInv
      <3>10. fetchSeq[o] = guard[o].fetch + Len(bulk[o])
        <4>1. guard[o].fetch \in Nat
          BY GuardIs DEF PagesIInv
        <4> QED
          BY <4>1, <3>1, <3>7
      <3> QED
        BY <3>1, <3>7, <3>8, <3>9, <3>10 DEF Warming
    <2>4. PICK d : d = [o \in Owners |-> Due(o)]
      OBVIOUS
    <2>5. d \in [Owners -> Nat] /\ \A o \in Owners : d[o] = 0
      BY <2>3, <2>4
    <2>6. Outstanding = Counted(d)
      BY <2>4 DEF Outstanding
    <2>7. IsFiniteSet(Counted(d)) /\ Cardinality(Counted(d)) = 0
      BY <2>5, CountedNone
    <2> QED
      BY <2>2, <2>3, <2>6, <2>7
  <1> QED
    BY <1>2, <1>3

\* One fetch more: what is due goes up by one.
LEMMA DueMore ==
    ASSUME WireTypes, NEW o \in Owners, NEW f \in PageFrames, bulk'[o] = Append(bulk[o], f),
           back'[o] = back[o], opc'[o] = opc[o]
    PROVE  Due(o)' = Due(o) + 1
  <1>1. bulk[o] \in Seq(PageFrames) /\ back[o] \in Seq(PageFrames)
    BY DEF WireTypes
  <1>2. Len(Append(bulk[o], f)) = Len(bulk[o]) + 1 /\ Len(bulk[o]) \in Nat /\ Len(back[o]) \in Nat
    BY <1>1, MoreIs
  <1>3. PICK m \in Nat, n \in Nat, x \in Nat :
          /\ m = Len(bulk[o]) /\ n = Len(back[o])
          /\ x = IF opc[o] = "poll" THEN 0 ELSE 1
    BY <1>2
  <1>4. Due(o) = m + x + n
    BY <1>3 DEF Due
  <1>5. Due(o)' = (m + 1) + x + n
    BY <1>2, <1>3 DEF Due
  <1> QED
    BY <1>4, <1>5

\* The owner's file after a ring chunk wrote page F of session s.
LEMMA StoredRing ==
    ASSUME PagesAssumption, NEW o \in Owners, OwnerTypes, Stored(o), wq[o] = <<>>,
           NEW F \in Nat, F < PageLimit, NEW s, guard[o].next = F, guard[o].nonce = s,
           file'[o] = [file[o] EXCEPT ![F] = s], guard'[o] = [guard[o] EXCEPT !.next = F + 1],
           wq'[o] = wq[o], wstat'[o] = wstat[o]
    PROVE  Stored(o)'
  <1>1. guard'[o].next = F + 1 /\ guard'[o].nonce = s /\ guard'[o].append = guard[o].append
    BY GuardIs DEF Guards
  <1>2. Len(wq[o]) = 0 /\ Len(wq'[o]) = 0
    OBVIOUS
  <1>3. file[o] \in [Blocks -> Nat] /\ F \in Blocks
    <2>1. file[o] \in [Blocks -> Nat]
      BY DEF OwnerTypes
    <2>2. PageLimit \in Nat
      BY Bounds
    <2>3. F \in Blocks
      BY <2>2 DEF Blocks
    <2> QED
      BY <2>1, <2>3
  <1>4. file'[o][F] = s /\ \A b \in Blocks : b # F => file'[o][b] = file[o][b]
    BY <1>3
  <1>5. ASSUME wstat[o] = "ok", NEW b \in 0..F PROVE file'[o][b] = s
    <2>1. CASE b = F
      BY <2>1, <1>4
    <2>2. CASE b # F
      <3>1. b \in 0..(F - 1) /\ b \in Blocks
        BY <2>2, Bounds DEF Blocks
      <3>2. file[o][b] = s
        BY <3>1, <1>2, <1>5 DEF Stored
      <3> QED
        BY <3>1, <3>2, <2>2, <1>4
    <2> QED
      BY <2>1, <2>2
  <1>6. 0..(guard'[o].next - 1) = 0..F
    BY <1>1
  <1> QED
    BY <1>1, <1>2, <1>5, <1>6 DEF Stored

\* A ring chunk: every owner writes its page and is asked for it.
LEMMA KeepsRingChunk ==
    ASSUME PagesAssumption, PagesIInv, RingChunk
    PROVE  PagesIInv'
  <1>1. /\ session' = session /\ appendSeq' = appendSeq /\ mask' = mask /\ got' = got /\ queue' = queue
        /\ back' = back /\ ctl' = ctl /\ ready' = ready /\ wq' = wq /\ writing' = writing /\ wstat' = wstat
        /\ opc' = opc /\ cur' = cur /\ died' = died
        /\ Ring /\ front < PageLimit /\ front' = front + 1 /\ warm' = warm + N /\ transport' = "pending"
        /\ at' = [op |-> "ring", owner |-> 0, left |-> Owners]
    BY DEF RingChunk
  <1>2. /\ \A o \in Owners : died[o] = "runs" /\ fetchSeq[o] < MaxFetch
        /\ file' = [o \in Owners |-> [file[o] EXCEPT ![front] = session]]
        /\ guard' = [o \in Owners |-> [guard[o] EXCEPT !.next = front + 1]]
        /\ fetchSeq' = [o \in Owners |-> fetchSeq[o] + 1]
        /\ bulk' = [o \in Owners |-> Append(bulk[o],
                      Frame("fetch", session, fetchSeq[o], [b \in {front} |-> 0]))]
    BY DEF RingChunk
  <1>3. /\ IsFiniteSet(Outstanding) /\ warm = Cardinality(Outstanding)
        /\ \A o \in Owners : Warming(o)
    <2>1. transport # "poisoned" /\ (Usable \/ at.op = "ring")
      BY DEF RingChunk, Usable
    <2> QED
      BY <2>1, <1>1, <1>2, RingWarm
  <1>4. PICK F \in Nat : F = front /\ F < PageLimit
    BY <1>1, KnownIs, Bounds DEF PagesIInv
  <1>5. PageLimit \in Nat /\ session \in Nat /\ MaxFetch \in Nat /\ queue = <<>> /\ mask = {}
    BY <1>1, KnownIs, Bounds DEF PagesIInv, Globals
  <1>6. PICK P : P = [b \in {front} |-> 0]
    OBVIOUS
  <1>7. P \in PageMaps /\ DOMAIN P = {F}
    <2>1. F \in Blocks
      BY <1>4, <1>5 DEF Blocks
    <2>2. P \in [{F} -> Nat] /\ {F} \subseteq Blocks
      BY <2>1, <1>4, <1>6
    <2> QED
      BY <2>2, MapType
  <1>8. PICK h : h = [o \in Owners |-> Frame("fetch", session, fetchSeq[o], P)]
    OBVIOUS
  <1>9. ASSUME NEW o \in Owners
        PROVE  /\ h[o] \in PageFrames /\ h[o].kind = "fetch" /\ h[o].session = session
               /\ h[o].seq = fetchSeq[o] /\ (\A b \in DOMAIN h[o].pages : b < F + 1)
               /\ fetchSeq[o] \in Nat
    <2>1. fetchSeq[o] \in Nat
      BY KnownIs DEF PagesIInv
    <2>2. h[o] = Frame("fetch", session, fetchSeq[o], P)
      BY <1>8
    <2>3. h[o] \in PageFrames
      BY <2>1, <2>2, <1>5, <1>7, FrameType
    <2>4. h[o].kind = "fetch" /\ h[o].session = session /\ h[o].seq = fetchSeq[o] /\ h[o].pages = P
      BY <2>2, FrameIs
    <2>5. F < F + 1
      OBVIOUS
    <2> QED
      BY <2>1, <2>3, <2>4, <2>5, <1>7
  <1>10. ASSUME NEW o \in Owners
         PROVE  /\ bulk[o] \in Seq(PageFrames) /\ bulk'[o] = Append(bulk[o], h[o])
                /\ bulk'[o] \in Seq(PageFrames) /\ fetchSeq'[o] = fetchSeq[o] + 1
                /\ Len(bulk[o]) \in Nat /\ Len(bulk'[o]) = Len(bulk[o]) + 1
    <2>1. bulk[o] \in Seq(PageFrames)
      BY DEF PagesIInv, WireTypes
    <2>2. bulk'[o] = Append(bulk[o], h[o]) /\ fetchSeq'[o] = fetchSeq[o] + 1
      BY <1>2, <1>6, <1>8
    <2>3. /\ Append(bulk[o], h[o]) \in Seq(PageFrames) /\ Len(bulk[o]) \in Nat
          /\ Len(Append(bulk[o], h[o])) = Len(bulk[o]) + 1
      BY <2>1, <1>9, MoreIs
    <2> QED
      BY <2>1, <2>2, <2>3
  <1>11. WireTypes'
    <2>1. bulk' \in [Owners -> Seq(PageFrames)]
      <3>1. bulk' = [o \in Owners |-> bulk'[o]]
        BY <1>2
      <3> QED
        BY <3>1, <1>10
    <2> QED
      BY <2>1, <1>1 DEF PagesIInv, WireTypes
  <1>12. ASSUME NEW o \in Owners
         PROVE  /\ guard'[o] = [guard[o] EXCEPT !.next = F + 1] /\ guard'[o] \in Guards
                /\ guard'[o].next = F + 1 /\ guard'[o].nonce = guard[o].nonce
                /\ guard'[o].append = guard[o].append /\ guard'[o].fetch = guard[o].fetch
                /\ file'[o] = [file[o] EXCEPT ![F] = session] /\ file'[o] \in [Blocks -> Nat]
    <2>1. guard'[o] = [guard[o] EXCEPT !.next = F + 1] /\ file'[o] = [file[o] EXCEPT ![F] = session]
      BY <1>2, <1>4
    <2>2. guard[o] \in Guards /\ file[o] \in [Blocks -> Nat]
      BY GuardIs DEF PagesIInv, OwnerTypes
    <2>3. F + 1 \in 0..PageLimit
      BY <1>4, <1>5
    <2>4. /\ guard'[o] \in Guards /\ guard'[o].next = F + 1 /\ guard'[o].nonce = guard[o].nonce
          /\ guard'[o].append = guard[o].append /\ guard'[o].fetch = guard[o].fetch
      BY <2>1, <2>2, <2>3 DEF Guards
    <2>5. file'[o] \in [Blocks -> Nat]
      BY <2>1, <2>2, <1>5
    <2> QED
      BY <2>1, <2>4, <2>5
  <1>13. OwnerTypes'
    <2>1. guard' = [o \in Owners |-> guard'[o]] /\ file' = [o \in Owners |-> file'[o]]
      BY <1>2
    <2>2. guard' \in [Owners -> Guards] /\ file' \in [Owners -> [Blocks -> Nat]]
      BY <2>1, <1>12
    <2> QED
      BY <2>2, <1>1 DEF PagesIInv, OwnerTypes
  <1>14. at'.op = "ring" /\ at' \in [op : PageOps, owner : Nat, left : SUBSET Nat]
    <2>1. "ring" \in PageOps /\ Owners \in SUBSET Nat /\ 0 \in Nat
      BY Bounds DEF PageOps
    <2> QED
      BY <2>1, <1>1, AtType
  <1>15. PICK d, e : d = [o \in Owners |-> Due(o)] /\ e = [o \in Owners |-> Due(o)']
    OBVIOUS
  <1>16. d \in [Owners -> Nat] /\ e \in [Owners -> Nat] /\ \A o \in Owners : e[o] = d[o] + 1
    <2>1. \A o \in Owners : Due(o) \in Nat
      BY DueType DEF PagesIInv
    <2>2. \A o \in Owners : Due(o)' \in Nat
      BY <1>11, DueNext
    <2>3. ASSUME NEW o \in Owners PROVE Due(o)' = Due(o) + 1
      BY <1>1, <1>9, <1>10, DueMore DEF PagesIInv
    <2> QED
      BY <2>1, <2>2, <2>3, <1>15
  <1>17. Outstanding = Counted(d) /\ Outstanding' = Counted(e)
    BY <1>15 DEF Outstanding, Counted
  <1>18. IsFiniteSet(Counted(e)) /\ Cardinality(Counted(e)) = Cardinality(Counted(d)) + N
    <2>1. IsFiniteSet(Counted(d))
      BY <1>3, <1>17
    <2> QED
      BY <2>1, <1>16, CountedMore
  <1>19. IsFiniteSet(Outstanding') /\ warm' = Cardinality(Outstanding') /\ warm' \in Nat
    <2>1. warm = Cardinality(Counted(d))
      BY <1>3, <1>17
    <2>2. Cardinality(Counted(e)) = warm + N
      BY <2>1, <1>18
    <2>3. warm \in Nat
      BY DEF PagesIInv, HostTypes
    <2>4. N \in Nat
      BY Bounds
    <2>5. warm + N \in Nat
      BY <2>3, <2>4
    <2> QED
      BY <2>2, <2>5, <1>1, <1>17, <1>18
  <1>20. fetchSeq' \in [Owners -> 0..MaxFetch]
    <2>1. ASSUME NEW o \in Owners PROVE fetchSeq[o] + 1 \in 0..MaxFetch
      BY <1>2, <1>5, <1>9
    <2> QED
      BY <2>1, <1>2
  <1>21. front' \in 0..PageLimit
    BY <1>1, <1>4, <1>5
  <1>22. HostTypes'
    BY <1>1, <1>14, <1>19, <1>20, <1>21 DEF PagesIInv, HostTypes
  <1>23. Globals'
    <2>1. ASSUME NEW o \in Owners PROVE appendSeq'[o] <= front'
      <3>1. appendSeq[o] <= front /\ appendSeq[o] \in Nat
        BY KnownIs DEF PagesIInv, Globals
      <3> QED
        BY <3>1, <1>1, <1>4
    <2> QED
      BY <2>1, <1>1, <1>14 DEF PagesIInv, Globals
  <1>24. ASSUME NEW o \in Owners PROVE OwnerOK(o)' /\ Warming(o)'
    <2>1. RunsOK(o) /\ Streaming(o) /\ WriterOK(o) /\ ResultsOK(o) /\ Stored(o) /\ Handling(o)
      BY <1>2, <1>3 DEF PagesIInv, OwnerOK, RunsOK, Warming
    <2>2. WriterOK(o)' /\ ResultsOK(o)'
      BY <2>1, <1>1, WriterSame, ResultsSame
    <2>3. PICK B \in Seq(PageFrames), s, a \in Nat, n \in Nat, g \in Nat, A \in Nat :
            /\ B = bulk[o] /\ s = session /\ a = guard[o].append /\ n = guard[o].next
            /\ g = guard[o].fetch /\ A = appendSeq[o]
      BY <1>10, GuardIs, KnownIs DEF PagesIInv
    <2>4. Stream(B, queue, o, s, a, n, g, A, F)
      BY <2>1, <2>3, <1>4 DEF RunsOK, Streaming
    <2>5. NoneQueued(queue, o)
      <3>1. Len(queue) = 0
        BY <1>5
      <3> QED
        BY <3>1 DEF NoneQueued
    <2>6. fetchSeq[o] = g + Len(B)
      BY <2>3, <1>2, <1>3 DEF Warming
    <2>7. PICK f : f = h[o]
      OBVIOUS
    <2>8. /\ f \in PageFrames /\ f.kind = "fetch" /\ f.session = s /\ f.seq = g + Len(B)
          /\ \A b \in DOMAIN f.pages : b < F + 1
      BY <2>3, <2>6, <2>7, <1>9
    <2>9. n = F /\ Stream(Append(B, f), queue, o, s, a, F + 1, g, A, F + 1)
      BY <2>4, <2>5, <2>8, <1>1, StreamRing
    <2>10. Stream(bulk[o], queue, o, session, guard[o].append, guard[o].next, guard[o].fetch,
                  appendSeq[o], front)'
      BY <2>3, <2>7, <2>9, <1>1, <1>4, <1>10, <1>12
    <2>11. Streaming(o)'
      BY <2>1, <1>1, <1>12 DEF Streaming
    <2>12. Stored(o)'
      <3>1. wq[o] = <<>>
        BY <2>1, <1>1 DEF WriterOK
      <3>2. guard[o].next = F /\ guard[o].nonce = session
        BY <2>1, <2>3, <2>9 DEF Streaming
      <3>3. wq'[o] = wq[o] /\ wstat'[o] = wstat[o]
        BY <1>1
      <3>4. PICK t : t = session
        OBVIOUS
      <3>5. /\ guard[o].nonce = t /\ file'[o] = [file[o] EXCEPT ![F] = t]
            /\ guard'[o] = [guard[o] EXCEPT !.next = F + 1] /\ Stored(o) /\ OwnerTypes /\ F < PageLimit
        BY <3>2, <3>4, <2>1, <1>4, <1>12 DEF PagesIInv
      <3>6. guard[o].next = F
        BY <3>2
      <3> QED
        BY <3>1, <3>3, <3>5, <3>6, StoredRing
    <2>13. Handling(o)'
      <3>1. ASSUME opc[o] # "poll", cur[o].kind = "fetch", NEW b \in DOMAIN cur[o].pages PROVE b < F + 1
        <4>1. b < F
          BY <3>1, <2>1, <2>3, <2>9 DEF Handling
        <4>2. b \in Nat
          BY PagesAre, Bounds DEF PagesIInv, OwnerTypes
        <4> QED
          BY <4>1, <4>2
      <3> QED
        BY <3>1, <2>1, <1>1, <1>12 DEF Handling
    <2>14. OwnerOK(o)'
      BY <2>2, <2>10, <2>11, <2>12, <2>13 DEF OwnerOK, RunsOK
    <2>15. fetchSeq'[o] = guard'[o].fetch + Len(bulk'[o])
      <3>1. Len(B) \in Nat
        BY <2>3, <1>10
      <3>2. fetchSeq'[o] = g + Len(B) + 1 /\ guard'[o].fetch = g /\ Len(bulk'[o]) = Len(B) + 1
        BY <2>3, <2>6, <1>10, <1>12
      <3> QED
        BY <3>1, <3>2
    <2>16. Warming(o)'
      BY <2>11, <2>15, <1>1, <1>2, <1>3 DEF Warming
    <2> QED
      BY <2>14, <2>16
  <1>25. HostOK'
    BY <1>1, <1>14, <1>19, <1>24 DEF HostOK, Between
  <1> QED
    BY <1>11, <1>13, <1>22, <1>23, <1>24, <1>25 DEF PagesIInv

\* Nothing was appended in this session: nothing is left of it at the owner.
LEMMA NothingSent ==
    ASSUME PagesAssumption, PagesIInv, NEW o \in Owners, died[o] = "runs", Served(o), appendSeq[o] = 0,
           queue = <<>>
    PROVE  Emptied(o)
  <1>1. RunsOK(o) /\ Streaming(o) /\ AllAppend(bulk[o]) /\ Stored(o)
    BY DEF PagesIInv, OwnerOK, Served, RunsOK
  <1>2. PICK B \in Seq(PageFrames), a \in Nat : B = bulk[o] /\ a = guard[o].append
    BY GuardIs DEF PagesIInv, WireTypes
  <1>3. Stream(B, queue, o, session, a, guard[o].next, guard[o].fetch, 0, front)
    BY <1>1, <1>2 DEF RunsOK, Streaming
  <1>4. a <= 0 /\ \A f \in AppendsIn(B) : Batch(f, session) /\ f.seq < 0
    BY <1>3 DEF Stream, Continues
  <1>5. B = <<>>
    <2> SUFFICES ASSUME B # <<>> PROVE FALSE
      OBVIOUS
    <2>1. 1 \in 1..Len(B)
      BY RestIs
    <2>2. B[1].kind = "append"
      BY <2>1, <1>1, <1>2 DEF AllAppend
    <2>3. B[1] \in AppendsIn(B)
      BY <2>1, <2>2 DEF AppendsIn
    <2>4. PICK f : f = B[1]
      OBVIOUS
    <2>5. f \in PageFrames /\ f.seq < 0
      BY <2>3, <2>4, <1>4 DEF Batch
    <2>6. f.seq \in Nat
      BY <2>5, PagesAre
    <2> QED
      BY <2>5, <2>6
  <1>6. wq[o] = <<>>
    <2>1. ~(a > 0)
      BY <1>4
    <2> QED
      BY <2>1, <1>1, <1>2 DEF Stored
  <1>7. NoneQueued(queue, o)
    <2>1. Len(queue) = 0
      OBVIOUS
    <2> QED
      BY <2>1 DEF NoneQueued
  <1> QED
    BY <1>2, <1>5, <1>6, <1>7 DEF Emptied

\* Rank 0 sends its barriers, or goes on to the begin when there is nothing to wait for.
LEMMA KeepsBarrierSend ==
    ASSUME PagesAssumption, PagesIInv, BarrierSend
    PROVE  PagesIInv'
  <1>1. /\ session' = session /\ appendSeq' = appendSeq /\ fetchSeq' = fetchSeq /\ mask' = mask /\ warm' = warm
        /\ front' = front /\ got' = got /\ queue' = queue
        /\ back' = back /\ ctl' = ctl /\ ready' = ready /\ OwnersFixed
        /\ at.op = "barrier" /\ transport # "poisoned" /\ queue = <<>>
        /\ \A o \in mask : died[o] = "runs"
    BY DEF BarrierSend, BarrierOwners, Drained, OwnersFixed, owners
  <1>2. bulk' = [o \in Owners |-> IF o \in mask
         THEN Append(bulk[o], Frame("barrier", session, appendSeq[o], None))
         ELSE bulk[o]]
    BY DEF BarrierSend, BarrierOwners
  <1>3. IF mask = {} THEN at' = [at EXCEPT !.op = "begin"] /\ transport' = transport
        ELSE /\ at' = [op |-> "barrierwait", owner |-> Min(mask), left |-> mask]
             /\ transport' = "pending"
    BY DEF BarrierSend, BarrierOwners
  <1>4. Between
    BY <1>1 DEF Between
  <1>5. warm = 0 /\ \A o \in Owners : Served(o)
    BY <1>1, <1>4, UsableServed
  <1>6. session < MaxSession /\ mask \in {{}, Owners}
    BY <1>1 DEF PagesIInv, Globals, HostTypes
  <1>7. bulk \in [Owners -> Seq(PageFrames)]
    BY DEF PagesIInv, WireTypes
  <1>8. CASE mask = {}
    <2>1. bulk' = bulk
      BY <1>2, <1>7, <1>8
    <2>2. Untouched
      BY <2>1, <1>1 DEF Untouched, OwnersFixed
    <2>3. at'.op = "begin" /\ at' \in [op : PageOps, owner : Nat, left : SUBSET Nat]
      <3>1. at \in [op : PageOps, owner : Nat, left : SUBSET Nat] /\ "begin" \in PageOps
        BY DEF PagesIInv, HostTypes, PageOps
      <3> QED
        BY <3>1, <1>3, <1>8
    <2>4. ASSUME NEW o \in Owners PROVE Rested(o)'
      <3>1. Rested(o)
        <4>1. died[o] = "runs" => Emptied(o)
          BY <1>1, <1>5, <1>8, NothingSent DEF PagesIInv, Globals
        <4> QED
          BY <4>1, <1>5 DEF Served, Rested
      <3> QED
        BY <3>1, <2>2, UntouchedSame, HostKept
    <2>5. HostOK'
      BY <2>3, <2>4, <1>1, <1>5 DEF HostOK, Between
    <2>6. transport' \in {"ready", "pending", "poisoned"} /\ transport' # "poisoned"
      BY <1>1, <1>3, <1>8 DEF PagesIInv, HostTypes
    <2> QED
      BY <2>2, <2>3, <2>5, <2>6, <1>1, <1>6, HostStep
  <1>9. CASE mask # {}
    <2>1. mask = Owners /\ ~Ring
      BY <1>6, <1>9 DEF PagesIInv, Globals
    <2>2. PICK k : k = Min(Owners)
      OBVIOUS
    <2>3. k \in Owners /\ Owners \subseteq Nat
      BY <2>2, MinIsIn, Bounds
    <2>4. /\ at' \in [op : PageOps, owner : Nat, left : SUBSET Nat]
          /\ at'.op = "barrierwait" /\ at'.owner = k /\ at'.left = Owners
      <3>1. at' = [op |-> "barrierwait", owner |-> k, left |-> Owners]
        BY <2>1, <2>2, <1>3, <1>9
      <3>2. "barrierwait" \in PageOps
        BY DEF PageOps
      <3> QED
        BY <3>1, <3>2, <2>3, AtType
    <2>5. PICK h : h = [o \in Owners |-> Frame("barrier", session, appendSeq[o], None)]
      OBVIOUS
    <2>6. ASSUME NEW o \in Owners
          PROVE  /\ h[o] \in PageFrames /\ h[o].kind = "barrier" /\ h[o].session = session
                 /\ h[o].seq = appendSeq[o]
                 /\ bulk'[o] = Append(bulk[o], h[o]) /\ bulk'[o] \in Seq(PageFrames)
      <3>1. h[o] = Frame("barrier", session, appendSeq[o], None)
        BY <2>5
      <3>2. session \in Nat /\ appendSeq[o] \in Nat /\ None \in PageMaps
        BY KnownIs, NoneType DEF PagesIInv
      <3>3. h[o] \in PageFrames
        BY <3>1, <3>2, FrameType
      <3>4. h[o].kind = "barrier" /\ h[o].session = session /\ h[o].seq = appendSeq[o]
        BY <3>1, FrameIs
      <3>5. bulk'[o] = Append(bulk[o], h[o])
        BY <3>1, <2>1, <1>2
      <3>6. bulk[o] \in Seq(PageFrames)
        BY <1>7
      <3>7. Append(bulk[o], h[o]) \in Seq(PageFrames)
        BY <3>3, <3>6, MoreIs
      <3> QED
        BY <3>3, <3>4, <3>5, <3>7
    <2>7. WireTypes'
      <3>1. bulk' = [o \in Owners |-> bulk'[o]]
        BY <1>2
      <3>2. bulk' \in [Owners -> Seq(PageFrames)]
        BY <3>1, <2>6
      <3> QED
        BY <3>2, <1>1 DEF PagesIInv, WireTypes
    <2>8. OwnerTypes'
      BY <1>1 DEF PagesIInv, OwnerTypes, OwnersFixed
    <2>9. transport' = "pending"
      BY <1>3, <1>9
    <2>10. HostTypes'
      BY <2>4, <2>9, <1>1 DEF PagesIInv, HostTypes
    <2>11. Globals'
      BY <2>4, <2>9, <1>1, <1>6 DEF PagesIInv, Globals
    <2>12. ASSUME NEW o \in Owners PROVE OwnerOK(o)' /\ Barring(o)'
      <3>1. died[o] = "runs"
        BY <2>1, <1>1
      <3>2. /\ RunsOK(o) /\ Streaming(o) /\ ResultsOK(o) /\ AllAppend(bulk[o]) /\ opc[o] = "poll"
            /\ back[o] = <<>> /\ ready[o] = <<>>
        BY <3>1, <1>5 DEF PagesIInv, OwnerOK, Served
      <3>3. Streaming(o)' /\ ResultsOK(o)'
        BY <3>2, <1>1, StreamingSame, ResultsSame
      <3>4. PICK B, f, s, a, n, g, A, F :
              /\ B = bulk[o] /\ s = session /\ a = guard[o].append /\ n = guard[o].next
              /\ g = guard[o].fetch /\ A = appendSeq[o] /\ F = front /\ f = h[o]
        OBVIOUS
      <3>5. Stream(B, queue, o, s, a, n, g, A, F) /\ AllAppend(B) /\ B \in Seq(PageFrames)
        BY <3>2, <3>4, <1>7 DEF RunsOK, Streaming
      <3>6. NoneQueued(queue, o)
        <4>1. Len(queue) = 0
          BY <1>1
        <4> QED
          BY <4>1 DEF NoneQueued
      <3>7. f \in PageFrames /\ f.kind = "barrier" /\ f.session = s /\ f.seq = A
        BY <3>4, <2>6
      <3>8. Stream(Append(B, f), queue, o, s, a, n, g, A, F)
        BY <3>5, <3>6, <3>7, <2>1, StreamBarrier
      <3>9. EndsWith(Append(B, f), "barrier")
        BY <3>5, <3>7, EndsAppend
      <3>10. Stream(bulk[o], queue, o, session, guard[o].append, guard[o].next, guard[o].fetch,
                    appendSeq[o], front)'
        BY <3>4, <3>8, <2>6, <1>1 DEF OwnersFixed
      <3>11. RunsOK(o)'
        BY <3>2, <3>3, <3>10, <1>1, StreamingRuns
      <3>12. OwnerOK(o)'
        BY <3>3, <3>11, <1>1, OwnerFixed
      <3>13. EndsWith(bulk'[o], "barrier")
        BY <3>4, <3>9, <2>6
      <3>14. Barring(o)'
        BY <3>2, <3>3, <3>13, <1>1 DEF Barring, OwnersFixed
      <3> QED
        BY <3>12, <3>14
    <2>13. HostOK'
      BY <2>1, <2>3, <2>4, <2>12, <1>1, <1>5 DEF HostOK, Between
    <2> QED
      BY <2>7, <2>8, <2>10, <2>11, <2>12, <2>13 DEF PagesIInv
  <1> QED
    BY <1>8, <1>9

\* Rank 0 reads the next acknowledgement.
LEMMA KeepsBarrierAck ==
    ASSUME PagesAssumption, PagesIInv, BarrierAck
    PROVE  PagesIInv'
  <1>1. /\ session' = session /\ appendSeq' = appendSeq /\ fetchSeq' = fetchSeq /\ mask' = mask /\ warm' = warm
        /\ front' = front /\ got' = got /\ queue' = queue
        /\ bulk' = bulk /\ ctl' = ctl /\ ready' = ready /\ OwnersFixed
        /\ at.op = "barrierwait" /\ back[at.owner] # <<>>
        /\ back' = [back EXCEPT ![at.owner] = Tail(@)]
    BY DEF BarrierAck, OwnersFixed, owners
  <1>2. transport # "poisoned"
    BY <1>1 DEF PagesIInv, Globals, Between
  <1>3. /\ queue = <<>> /\ ~Ring /\ at.left \subseteq Owners /\ at.owner \in at.left /\ warm = 0
        /\ \A o \in Owners : IF o \in at.left THEN Barring(o) ELSE Rested(o)
    BY <1>1, <1>2 DEF PagesIInv, HostOK
  <1>4. PICK o, left, rest : o = at.owner /\ left = at.left /\ rest = left \ {o}
    OBVIOUS
  <1>5. o \in Owners /\ o \in left /\ left \subseteq Owners /\ Barring(o) /\ back[o] # <<>> /\ rest \subseteq Owners
    BY <1>1, <1>3, <1>4
  <1>6. /\ Len(back[o]) = 1 /\ back[o][1].kind = "ack" /\ ready[o] = <<>>
        /\ died[o] = "runs" => Streaming(o) /\ opc[o] = "poll" /\ Emptied(o)
    BY <1>5 DEF Barring
  <1>7. PICK f : f = Head(back[o])
    OBVIOUS
  <1>8. f.kind = "ack" /\ Tail(back[o]) = <<>> /\ Tail(back[o]) \in Seq(PageFrames)
    BY <1>5, <1>6, <1>7, RestIs DEF PagesIInv, WireTypes
  <1>9. PICK valid \in BOOLEAN : valid = (f.kind = "ack" /\ f.session = session /\ f.seq = appendSeq[o])
    OBVIOUS
  <1>10. \/ ~valid /\ at' = Idle /\ transport' = "poisoned"
         \/ valid /\ rest # {} /\ at' = [at EXCEPT !.owner = Min(rest), !.left = rest] /\ transport' = transport
         \/ /\ valid /\ rest = {} /\ at' = [op |-> "begin", owner |-> 0, left |-> {}]
            /\ transport' = IF transport = "pending" THEN "ready" ELSE transport
    <2>1. CASE f.kind # "result" /\ ~valid
      BY <2>1, <1>4, <1>7, <1>8, <1>9 DEF BarrierAck, Poison
    <2>2. CASE valid /\ rest # {}
      BY <2>2, <1>4, <1>7, <1>8, <1>9 DEF BarrierAck
    <2>3. CASE valid /\ rest = {}
      BY <2>3, <1>4, <1>7, <1>8, <1>9 DEF BarrierAck
    <2> QED
      BY <2>1, <2>2, <2>3, <1>8
  <1>11. /\ back' \in [Owners -> Seq(PageFrames)] /\ back'[o] = <<>>
         /\ \A p \in Owners : p # o => back'[p] = back[p]
    <2>1. back' = [back EXCEPT ![o] = Tail(back[o])] /\ back \in [Owners -> Seq(PageFrames)]
      BY <1>1, <1>4 DEF PagesIInv, WireTypes
    <2>2. /\ back' \in [Owners -> Seq(PageFrames)] /\ back'[o] = Tail(back[o])
          /\ \A p \in Owners : p # o => back'[p] = back[p]
      BY <2>1, <1>5, <1>8, EntryIs
    <2> QED
      BY <2>2, <1>8
  <1>12. WireTypes'
    BY <1>1, <1>11 DEF PagesIInv, WireTypes
  <1>13. OwnerTypes'
    BY <1>1 DEF PagesIInv, OwnerTypes, OwnersFixed
  <1>14. \A p \in Owners : p # o => Same(p)
    BY <1>1, <1>11 DEF Same, OwnerSame, WireSame, KnownSame, OwnersFixed
  <1>15. \A p \in Owners : p # o => OwnerOK(p)' /\ (Barring(p) => Barring(p)') /\ (Rested(p) => Rested(p)')
    BY <1>14, OwnerKept, HostKept DEF PagesIInv
  <1>16. OwnerOK(o)'
    <2>1. ResultsOK(o)'
      <3>1. back'[o] = <<>>
        BY <1>11
      <3>2. Len(back'[o]) = 0
        BY <3>1
      <3> QED
        BY <3>2 DEF ResultsOK
    <2>2. ASSUME died[o] = "runs" PROVE RunsOK(o)'
      <3>1. RunsOK(o) /\ Streaming(o)
        BY <2>2, <1>5, <1>6 DEF PagesIInv, OwnerOK
      <3>2. Stream(bulk[o], queue, o, session, guard[o].append, guard[o].next, guard[o].fetch,
                   appendSeq[o], front)'
        BY <3>1, <1>1, <1>5, StreamSame DEF RunsOK, Streaming, OwnersFixed
      <3> QED
        BY <3>1, <3>2, <1>1, <1>5, StreamingSame, StreamingRuns
    <2> QED
      BY <2>1, <2>2, <1>1, <1>5, OwnerFixed
  <1>17. Rested(o)'
    <2>1. Streaming(o) => Streaming(o)'
      BY <1>1, <1>5, StreamingSame
    <2>2. Emptied(o) => Emptied(o)'
      BY <1>1 DEF Emptied, OwnersFixed
    <2> QED
      BY <2>1, <2>2, <1>1, <1>6, <1>11 DEF Rested, OwnersFixed
  <1>18. \A p \in Owners : OwnerOK(p)'
    BY <1>15, <1>16
  <1>19. \A p \in Owners : IF p \in rest THEN Barring(p)' ELSE Rested(p)'
    BY <1>3, <1>4, <1>15, <1>17
  <1>20. session < MaxSession
    BY <1>1 DEF PagesIInv, Globals
  <1>21. \A p \in got : p[3] = session
    BY DEF PagesIInv, Globals
  <1>22. CASE ~valid
    <2>1. at' = Idle /\ transport' = "poisoned"
      BY <1>10, <1>22
    <2>2. at' \in [op : PageOps, owner : Nat, left : SUBSET Nat] /\ at'.op = "idle" /\ Between'
      BY <2>1, IdleType DEF Between
    <2>3. HostTypes'
      BY <2>1, <2>2, <1>1 DEF PagesIInv, HostTypes
    <2>4. Globals'
      BY <2>2, <1>1 DEF PagesIInv, Globals
    <2> QED
      BY <2>1, <2>3, <2>4, <1>12, <1>13, <1>18 DEF PagesIInv
  <1>23. CASE valid /\ rest # {}
    <2>1. at' = [at EXCEPT !.owner = Min(rest), !.left = rest] /\ transport' = transport
      BY <1>10, <1>23
    <2>2. PICK k : k = Min(rest)
      OBVIOUS
    <2>3. k \in rest /\ rest \subseteq Nat /\ k \in Nat
      BY <2>2, <1>5, <1>23, MinIsIn, Bounds
    <2>4. /\ at' \in [op : PageOps, owner : Nat, left : SUBSET Nat]
          /\ at'.op = "barrierwait" /\ at'.owner = k /\ at'.left = rest
      BY <2>1, <2>2, <2>3, <1>1 DEF PagesIInv, HostTypes
    <2>5. HostTypes'
      BY <2>1, <2>4, <1>1 DEF PagesIInv, HostTypes
    <2>6. Globals'
      BY <2>1, <2>4, <1>1, <1>2, <1>20 DEF PagesIInv, Globals
    <2>7. HostOK'
      BY <2>3, <2>4, <1>1, <1>3, <1>5, <1>19 DEF HostOK, Between
    <2> QED
      BY <2>5, <2>6, <2>7, <1>12, <1>13, <1>18 DEF PagesIInv
  <1>24. CASE valid /\ rest = {}
    <2>1. /\ at' = [op |-> "begin", owner |-> 0, left |-> {}]
          /\ transport' = IF transport = "pending" THEN "ready" ELSE transport
      BY <1>10, <1>24
    <2>2. at' \in [op : PageOps, owner : Nat, left : SUBSET Nat] /\ at'.op = "begin"
      <3>1. "begin" \in PageOps /\ 0 \in Nat /\ {} \in SUBSET Nat
        BY DEF PageOps
      <3> QED
        BY <3>1, <2>1, AtType
    <2>3. transport' \in {"ready", "pending", "poisoned"} /\ transport' # "poisoned"
      BY <2>1, <1>2 DEF PagesIInv, HostTypes
    <2>4. HostTypes'
      BY <2>2, <2>3, <1>1 DEF PagesIInv, HostTypes
    <2>5. Globals'
      BY <2>2, <2>3, <1>1, <1>20 DEF PagesIInv, Globals
    <2>6. HostOK'
      BY <2>2, <1>1, <1>3, <1>19, <1>24 DEF HostOK, Between
    <2> QED
      BY <2>4, <2>5, <2>6, <1>12, <1>13, <1>18 DEF PagesIInv
  <1> QED
    BY <1>22, <1>23, <1>24

\* Rank 0 asks every owner to begin the next session.
LEMMA KeepsBeginSend ==
    ASSUME PagesAssumption, PagesIInv, BeginSend
    PROVE  PagesIInv'
  <1>1. /\ session' = session /\ appendSeq' = appendSeq /\ fetchSeq' = fetchSeq /\ mask' = mask /\ warm' = warm
        /\ front' = front /\ got' = got /\ queue' = queue
        /\ bulk' = bulk /\ back' = back /\ ready' = ready /\ OwnersFixed /\ at.op = "begin"
    BY DEF BeginSend, OwnersFixed, owners
  <1>2. transport # "poisoned" /\ session < MaxSession
    BY <1>1 DEF PagesIInv, Globals, Between
  <1>3. queue = <<>> /\ warm = 0 /\ \A o \in Owners : Rested(o)
    BY <1>1, <1>2 DEF PagesIInv, HostOK
  <1>4. CASE ~(\A o \in Owners : died[o] = "runs")
    <2>1. at' = Idle /\ transport' = "poisoned" /\ ctl' = ctl
      BY <1>4 DEF BeginSend, Poison
    <2>2. Untouched
      BY <2>1, <1>1 DEF Untouched, OwnersFixed
    <2>3. at' \in [op : PageOps, owner : Nat, left : SUBSET Nat] /\ at'.op = "idle" /\ Between'
      BY <2>1, IdleType DEF Between
    <2> QED
      BY <2>1, <2>2, <2>3, <1>1, <1>2, HostStep
  <1>5. CASE \A o \in Owners : died[o] = "runs"
    <2>1. /\ ctl' = [o \in Owners |-> Append(ctl[o], Frame("begin", session + 1, 0, None))]
          /\ at' = [op |-> "beginwait", owner |-> 0, left |-> Owners]
          /\ transport' = IF transport = "ready" THEN "pending" ELSE transport
      BY <1>5 DEF BeginSend
    <2>2. transport' \in {"ready", "pending", "poisoned"} /\ transport' # "poisoned"
      BY <2>1, <1>2 DEF PagesIInv, HostTypes
    <2>3. /\ at' \in [op : PageOps, owner : Nat, left : SUBSET Nat]
          /\ at'.op = "beginwait" /\ at'.left = Owners
      <3>1. "beginwait" \in PageOps /\ 0 \in Nat /\ Owners \in SUBSET Nat
        BY Bounds DEF PageOps
      <3> QED
        BY <3>1, <2>1, AtType
    <2>4. PICK f : f = BeginFrame
      OBVIOUS
    <2>5. f \in PageFrames /\ BeginFrame' = f
      <3>1. session + 1 \in Nat /\ 0 \in Nat /\ None \in PageMaps
        BY NoneType DEF PagesIInv, HostTypes
      <3>2. Frame("begin", session + 1, 0, None) \in PageFrames
        BY <3>1, FrameType
      <3> QED
        BY <3>2, <2>4, <1>1 DEF BeginFrame
    <2>6. ASSUME NEW o \in Owners PROVE ctl[o] = <<>> /\ ctl'[o] = <<f>> /\ Streaming(o) /\ opc[o] = "poll" /\ Emptied(o)
      <3>1. Streaming(o) /\ opc[o] = "poll" /\ Emptied(o)
        BY <1>3, <1>5 DEF Rested
      <3>2. ctl[o] = <<>>
        BY <3>1 DEF Streaming
      <3>3. ctl'[o] = Append(ctl[o], f)
        BY <2>1, <2>4 DEF BeginFrame
      <3>4. Append(<<>>, f) = <<f>>
        OBVIOUS
      <3> QED
        BY <3>1, <3>2, <3>3, <3>4
    <2>7. WireTypes'
      <3>1. <<f>> \in Seq(PageFrames)
        BY <2>5
      <3>2. ctl' = [o \in Owners |-> ctl'[o]]
        BY <2>1
      <3>3. ctl' \in [Owners -> Seq(PageFrames)]
        BY <3>1, <3>2, <2>6
      <3> QED
        BY <3>3, <1>1 DEF PagesIInv, WireTypes
    <2>8. OwnerTypes'
      BY <1>1 DEF PagesIInv, OwnerTypes, OwnersFixed
    <2>9. HostTypes'
      BY <2>2, <2>3, <1>1 DEF PagesIInv, HostTypes
    <2>10. Globals'
      BY <2>2, <2>3, <1>1, <1>2 DEF PagesIInv, Globals
    <2>11. ASSUME NEW o \in Owners PROVE OwnerOK(o)' /\ Joining(o)'
      <3>1. RunsOK(o) /\ Stored(o) /\ Handling(o) /\ ResultsOK(o)
        BY <1>5 DEF PagesIInv, OwnerOK, RunsOK
      <3>2. Emptied(o)'
        BY <2>6, <1>1 DEF Emptied, OwnersFixed
      <3>3. Asked(o)'
        BY <3>2, <2>5, <2>6, <1>1 DEF Asked, Streaming, OwnersFixed
      <3>4. Stored(o)' /\ Handling(o)' /\ ResultsOK(o)'
        BY <3>1, <1>1, StoredSame, HandlingSame, ResultsSame DEF OwnersFixed
      <3>5. Stream(bulk[o], queue, o, session, guard[o].append, guard[o].next, guard[o].fetch,
                   appendSeq[o], front)'
        BY <3>1, <2>6, <1>1, StreamSame DEF RunsOK, Streaming, OwnersFixed
      <3>6. RunsOK(o)'
        BY <3>3, <3>4, <3>5 DEF RunsOK
      <3>7. OwnerOK(o)'
        BY <3>4, <3>6, <1>1, OwnerFixed
      <3>8. Joining(o)'
        BY <3>3, <1>1, <1>3 DEF Joining, Rested
      <3> QED
        BY <3>7, <3>8
    <2>12. HostOK'
      BY <2>3, <2>11, <1>1, <1>3 DEF HostOK, Between
    <2> QED
      BY <2>7, <2>8, <2>9, <2>10, <2>11, <2>12 DEF PagesIInv
  <1> QED
    BY <1>4, <1>5

\* An owner of which only the answer to a begin changed.
LEMMA ReadyOnly ==
    ASSUME PagesIInv, OwnersFixed, NEW o \in Owners, bulk' = bulk, back' = back, ctl' = ctl, queue' = queue,
           session' = session, appendSeq' = appendSeq, fetchSeq' = fetchSeq, front' = front
    PROVE  OwnerOK(o)' /\ (Fresh(o) => Fresh(o)')
  <1>1. Emptied(o) => Emptied(o)'
    BY DEF Emptied, OwnersFixed
  <1>2. OwnerOK(o)
    BY DEF PagesIInv
  <1>3. ResultsOK(o)'
    BY <1>2, ResultsSame DEF OwnerOK
  <1>4. ASSUME died[o] = "runs" PROVE RunsOK(o)'
    <2>1. RunsOK(o) /\ Stored(o) /\ Handling(o) /\ (Streaming(o) \/ Asked(o) \/ Beginning(o) \/ Fresh(o))
      BY <1>2, <1>4 DEF OwnerOK, RunsOK
    <2>2. Stored(o)' /\ Handling(o)'
      BY <2>1, StoredSame, HandlingSame DEF OwnersFixed
    <2>3. Streaming(o)' \/ Asked(o)' \/ Beginning(o)' \/ Fresh(o)'
      BY <2>1, <1>1, PlaceSame DEF OwnersFixed
    <2>4. guard'[o].nonce = session' =>
            Stream(bulk[o], queue, o, session, guard[o].append, guard[o].next, guard[o].fetch,
                   appendSeq[o], front)'
      BY <2>1, StreamSame DEF RunsOK, OwnersFixed
    <2> QED
      BY <2>2, <2>3, <2>4 DEF RunsOK
  <1> QED
    BY <1>1, <1>3, <1>4, OwnerFixed, PlaceSame DEF OwnersFixed

\* Rank 0 takes an owner's answer to the begin.
LEMMA KeepsBeginReady ==
    ASSUME PagesAssumption, PagesIInv, NEW o \in Owners, BeginReady(o)
    PROVE  PagesIInv'
  <1>1. /\ queue' = queue /\ bulk' = bulk /\ back' = back /\ ctl' = ctl /\ OwnersFixed
        /\ at.op = "beginwait" /\ ready[o] # <<>> /\ ready' = [ready EXCEPT ![o] = Tail(@)]
    BY DEF BeginReady, OwnersFixed, owners
  <1>2. transport # "poisoned" /\ session < MaxSession
    BY <1>1 DEF PagesIInv, Globals, Between
  <1>3. PICK left, rest : left = at.left /\ rest = left \ {o}
    OBVIOUS
  <1>4. /\ queue = <<>> /\ warm = 0
        /\ \A p \in Owners : IF p \in left THEN Joining(p) ELSE Joined(p)
    BY <1>1, <1>2, <1>3 DEF PagesIInv, HostOK
  <1>5. o \in left /\ Joining(o)
    BY <1>1, <1>4 DEF Joined
  <1>6. Len(ready[o]) = 1 /\ back[o] = <<>> /\ (died[o] = "runs" => Fresh(o))
    BY <1>1, <1>5 DEF Joining
  <1>7. ready[o] \in Seq(PageFrames) /\ ready \in [Owners -> Seq(PageFrames)]
    BY DEF PagesIInv, WireTypes
  <1>8. Tail(ready[o]) = <<>> /\ Tail(ready[o]) \in Seq(PageFrames)
    BY <1>1, <1>6, <1>7, RestIs
  <1>9. /\ ready' \in [Owners -> Seq(PageFrames)] /\ ready'[o] = <<>>
        /\ \A p \in Owners : p # o => ready'[p] = ready[p]
    <2>1. ready' = [ready EXCEPT ![o] = Tail(ready[o])]
      BY <1>1
    <2>2. /\ ready' \in [Owners -> Seq(PageFrames)] /\ ready'[o] = Tail(ready[o])
          /\ \A p \in Owners : p # o => ready'[p] = ready[p]
      BY <2>1, <1>7, <1>8, EntryIs
    <2> QED
      BY <2>2, <1>8
  <1>10. WireTypes'
    BY <1>1, <1>9 DEF PagesIInv, WireTypes
  <1>11. OwnerTypes'
    BY <1>1 DEF PagesIInv, OwnerTypes, OwnersFixed
  <1>12. PICK valid \in BOOLEAN : valid = (o \in left /\ Head(ready[o]).session = session + 1)
    OBVIOUS
  <1>13. CASE ~valid
    <2>1. /\ at' = Idle /\ transport' = "poisoned" /\ session' = session /\ appendSeq' = appendSeq
          /\ fetchSeq' = fetchSeq /\ mask' = mask /\ warm' = warm /\ front' = front /\ got' = got
      BY <1>3, <1>12, <1>13 DEF BeginReady, Poison
    <2>2. at' \in [op : PageOps, owner : Nat, left : SUBSET Nat] /\ at'.op = "idle" /\ Between'
      BY <2>1, IdleType DEF Between
    <2>3. HostTypes'
      BY <2>1, <2>2, <1>1 DEF PagesIInv, HostTypes
    <2>4. Globals'
      BY <2>1, <2>2, <1>1 DEF PagesIInv, Globals
    <2>5. \A p \in Owners : OwnerOK(p)'
      BY <2>1, <1>1, ReadyOnly
    <2> QED
      BY <2>1, <2>3, <2>4, <2>5, <1>10, <1>11 DEF PagesIInv
  <1>14. CASE valid /\ rest # {}
    <2>1. /\ at' = [at EXCEPT !.left = rest] /\ transport' = transport /\ session' = session
          /\ appendSeq' = appendSeq /\ fetchSeq' = fetchSeq /\ mask' = mask /\ warm' = warm
          /\ front' = front /\ got' = got
      BY <1>3, <1>12, <1>14 DEF BeginReady
    <2>2. /\ at' \in [op : PageOps, owner : Nat, left : SUBSET Nat]
          /\ at'.op = "beginwait" /\ at'.left = rest
      <3>1. at \in [op : PageOps, owner : Nat, left : SUBSET Nat]
        BY DEF PagesIInv, HostTypes
      <3>2. rest \in SUBSET Nat
        BY <3>1, <1>3
      <3> QED
        BY <3>1, <3>2, <2>1, <1>1
    <2>3. HostTypes'
      BY <2>1, <2>2, <1>1 DEF PagesIInv, HostTypes
    <2>4. Globals'
      BY <2>1, <2>2, <1>1, <1>2 DEF PagesIInv, Globals
    <2>5. \A p \in Owners : OwnerOK(p)' /\ (Fresh(p) => Fresh(p)')
      BY <2>1, <1>1, ReadyOnly
    <2>6. \A p \in Owners : p # o => Same(p)
      BY <2>1, <1>1, <1>9 DEF Same, OwnerSame, WireSame, KnownSame, OwnersFixed
    <2>7. \A p \in Owners : p # o => (Joining(p) => Joining(p)') /\ (Joined(p) => Joined(p)')
      BY <2>6, HostKept
    <2>8. Joined(o)'
      BY <2>5, <1>1, <1>6, <1>9 DEF Joined, OwnersFixed
    <2>9. \A p \in Owners : IF p \in rest THEN Joining(p)' ELSE Joined(p)'
      BY <2>7, <2>8, <1>3, <1>4
    <2>10. HostOK'
      BY <2>1, <2>2, <2>9, <1>1, <1>4 DEF HostOK, Between
    <2> QED
      BY <2>3, <2>4, <2>5, <2>10, <1>10, <1>11 DEF PagesIInv
  <1>15. CASE valid /\ rest = {}
    <2>1. /\ at' = Idle /\ session' = session + 1
          /\ appendSeq' = [p \in Owners |-> 0] /\ fetchSeq' = [p \in Owners |-> 0]
          /\ mask' = {} /\ warm' = 0 /\ front' = 0 /\ got' = {}
          /\ transport' = IF transport = "pending" THEN "ready" ELSE transport
      BY <1>3, <1>12, <1>15 DEF BeginReady
    <2>2. at' \in [op : PageOps, owner : Nat, left : SUBSET Nat] /\ at'.op = "idle" /\ Between'
      BY <2>1, IdleType DEF Between
    <2>3. transport' \in {"ready", "pending", "poisoned"} /\ transport' # "poisoned"
      BY <2>1, <1>2 DEF PagesIInv, HostTypes
    <2>4. /\ PageLimit \in Nat /\ MaxSession \in Nat /\ MaxFetch \in Nat
          /\ session \in Nat /\ session >= 1
      BY KnownIs, Bounds DEF PagesIInv
    <2>5. HostTypes'
      <3>1. session' \in 1..MaxSession
        BY <2>1, <2>4, <1>2
      <3>2. front' \in 0..PageLimit /\ warm' \in Nat
        BY <2>1, <2>4
      <3>3. 0 \in 0..PageLimit /\ 0 \in 0..MaxFetch
        BY <2>4
      <3>4. appendSeq' \in [Owners -> 0..PageLimit] /\ fetchSeq' \in [Owners -> 0..MaxFetch]
        BY <3>3, <2>1
      <3> QED
        BY <3>1, <3>2, <3>4, <2>1, <2>2, <2>3, <1>1 DEF PagesIInv, HostTypes
    <2>6. Globals'
      <3>1. \A p \in Owners : appendSeq'[p] = 0 /\ appendSeq'[p] <= front'
        BY <2>1
      <3>2. \A p \in got' : p[3] = session'
        BY <2>1
      <3> QED
        BY <3>1, <3>2, <2>1, <2>2, <1>1, <1>4 DEF Globals
    <2>7. ASSUME NEW p \in Owners PROVE OwnerOK(p)' /\ Served(p)'
      <3>1. back[p] = <<>> /\ ready'[p] = <<>> /\ (died[p] = "runs" => Fresh(p))
        <4>1. CASE p = o
          BY <4>1, <1>6, <1>9
        <4>2. CASE p # o
          <5>1. p \notin left
            BY <4>2, <1>3, <1>15
          <5>2. Joined(p)
            BY <5>1, <1>4
          <5> QED
            BY <5>2, <4>2, <1>9 DEF Joined
        <4> QED
          BY <4>1, <4>2
      <3>2. ResultsOK(p)'
        BY <1>1, ResultsSame DEF PagesIInv, OwnerOK
      <3>3. ASSUME died[p] = "runs" PROVE RunsOK(p)' /\ Served(p)'
        <4>1. Fresh(p) /\ Stored(p) /\ Handling(p)
          BY <3>1, <3>3 DEF PagesIInv, OwnerOK, RunsOK
        <4>2. /\ guard[p].nonce = session + 1 /\ guard[p].append = 0 /\ guard[p].next = 0
              /\ guard[p].fetch = 0 /\ ctl[p] = <<>> /\ opc[p] = "poll" /\ bulk[p] = <<>>
          BY <4>1 DEF Fresh, NewGuard, Emptied
        <4>3. Streaming(p)'
          BY <4>2, <2>1, <1>1 DEF Streaming, OwnersFixed
        <4>4. Stored(p)' /\ Handling(p)'
          BY <4>1, <1>1, StoredSame, HandlingSame DEF OwnersFixed
        <4>5. Stream(<<>>, <<>>, p, session', 0, 0, 0, 0, 0)
          <5>1. PICK Q, s : Q = <<>> /\ s = session'
            OBVIOUS
          <5>2. Len(Q) = 0
            BY <5>1
          <5>3. NoneQueued(Q, p)
            BY <5>2 DEF NoneQueued
          <5>4. Stream(<<>>, Q, p, s, 0, 0, 0, 0, 0)
            BY <5>3, StreamEmpty
          <5> QED
            BY <5>1, <5>4
        <4>6. /\ guard'[p].append = 0 /\ guard'[p].next = 0 /\ guard'[p].fetch = 0
              /\ bulk'[p] = <<>> /\ queue' = <<>> /\ appendSeq'[p] = 0 /\ front' = 0 /\ fetchSeq'[p] = 0
          BY <4>2, <2>1, <1>1, <1>4 DEF OwnersFixed
        <4>7. Stream(bulk[p], queue, p, session, guard[p].append, guard[p].next, guard[p].fetch,
                     appendSeq[p], front)'
          BY <4>5, <4>6
        <4>8. RunsOK(p)'
          BY <4>3, <4>4, <4>7 DEF RunsOK
        <4>9. AllAppend(bulk'[p])
          <5>1. Len(bulk'[p]) = 0
            BY <4>6
          <5> QED
            BY <5>1 DEF AllAppend
        <4>10. Served(p)'
          BY <4>2, <4>3, <4>6, <4>9, <3>1, <1>1 DEF Served, OwnersFixed
        <4> QED
          BY <4>8, <4>10
      <3>4. OwnerOK(p)'
        BY <3>2, <3>3, <1>1, OwnerFixed
      <3>5. Served(p)'
        BY <3>1, <3>3, <1>1 DEF Served, OwnersFixed
      <3> QED
        BY <3>4, <3>5
    <2>8. HostOK'
      BY <2>1, <2>2, <2>7, HostBetween
    <2> QED
      BY <2>5, <2>6, <2>7, <2>8, <1>10, <1>11 DEF PagesIInv
  <1> QED
    BY <1>13, <1>14, <1>15

\* The first session has begun everywhere and nothing was sent.
LEMMA PagesStart ==
    ASSUME PagesAssumption, PagesInit
    PROVE  PagesIInv
  <1>1. /\ PageLimit \in Nat \ {0} /\ MaxSession \in Nat \ {0} /\ MaxFetch \in Nat /\ WriteDepth \in Nat
        /\ Owners \subseteq Nat
    BY Bounds
  <1>2. /\ session = 1 /\ mask = {} /\ warm = 0 /\ transport = "ready" /\ front = 0
        /\ at = Idle /\ got = {} /\ queue = <<>>
        /\ appendSeq = [o \in Owners |-> 0] /\ fetchSeq = [o \in Owners |-> 0]
    BY DEF PagesInit
  <1>3. /\ bulk = [o \in Owners |-> <<>>] /\ back = [o \in Owners |-> <<>>]
        /\ ctl = [o \in Owners |-> <<>>] /\ ready = [o \in Owners |-> <<>>]
    BY DEF PagesInit
  <1>4. /\ guard = [o \in Owners |-> NewGuard(1)] /\ file = [o \in Owners |-> Empty]
        /\ wq = [o \in Owners |-> <<>>] /\ writing = [o \in Owners |-> FALSE]
        /\ wstat = [o \in Owners |-> "ok"] /\ opc = [o \in Owners |-> "poll"]
        /\ cur = [o \in Owners |-> Frame("none", 0, 0, None)] /\ died = [o \in Owners |-> "runs"]
    BY DEF PagesInit
  <1>5. at.op = "idle" /\ at \in [op : PageOps, owner : Nat, left : SUBSET Nat] /\ Between
    BY <1>2, IdleType DEF Between
  <1>6. HostTypes
    <2>1. session \in 1..MaxSession /\ front \in 0..PageLimit /\ warm \in Nat
      BY <1>1, <1>2
    <2>2. 0 \in 0..PageLimit /\ 0 \in 0..MaxFetch
      BY <1>1
    <2>3. appendSeq \in [Owners -> 0..PageLimit] /\ fetchSeq \in [Owners -> 0..MaxFetch]
      BY <2>2, <1>2
    <2>4. queue \in Seq([owner : Owners, frame : PageFrames])
      BY <1>2
    <2> QED
      BY <2>1, <2>3, <2>4, <1>2, <1>5 DEF HostTypes
  <1>7. WireTypes
    <2>1. <<>> \in Seq(PageFrames)
      OBVIOUS
    <2> QED
      BY <2>1, <1>3 DEF WireTypes
  <1>8. OwnerTypes
    <2>1. NewGuard(1) \in Guards
      BY <1>1 DEF NewGuard, Guards
    <2>2. Empty \in [Blocks -> Nat]
      BY DEF Empty
    <2>3. Frame("none", 0, 0, None) \in PageFrames
      BY NoneType, FrameType
    <2>4. <<>> \in Seq(PageMaps)
      OBVIOUS
    <2>5. guard \in [Owners -> Guards] /\ file \in [Owners -> [Blocks -> Nat]]
      BY <2>1, <2>2, <1>4
    <2>6. wq \in [Owners -> Seq(PageMaps)] /\ cur \in [Owners -> PageFrames]
      BY <2>3, <2>4, <1>4
    <2>7. /\ writing \in [Owners -> BOOLEAN] /\ wstat \in [Owners -> {"ok", "failed"}]
          /\ opc \in [Owners -> {"poll", "drain", "read"}] /\ died \in [Owners -> Deaths]
      BY <1>4 DEF Deaths
    <2> QED
      BY <2>5, <2>6, <2>7 DEF OwnerTypes
  <1>9. Globals
    BY <1>2, <1>5 DEF Globals
  <1>10. ASSUME NEW o \in Owners PROVE OwnerOK(o) /\ Served(o)
    <2>1. /\ guard[o].nonce = 1 /\ guard[o].next = 0 /\ guard[o].append = 0 /\ guard[o].fetch = 0
          /\ ctl[o] = <<>> /\ opc[o] = "poll" /\ bulk[o] = <<>> /\ wq[o] = <<>> /\ back[o] = <<>>
          /\ ready[o] = <<>> /\ ~writing[o] /\ appendSeq[o] = 0 /\ fetchSeq[o] = 0
      BY <1>2, <1>3, <1>4 DEF NewGuard
    <2>2. Len(wq[o]) = 0 /\ Len(back[o]) = 0 /\ Len(bulk[o]) = 0 /\ Len(queue) = 0
      BY <2>1, <1>2
    <2>3. WriterOK(o)
      BY <2>1, <2>2, <1>1 DEF WriterOK
    <2>4. ResultsOK(o)
      BY <2>2 DEF ResultsOK
    <2>5. Stored(o)
      <3>1. 0..(guard[o].next - 1) = {}
        BY <2>1
      <3> QED
        BY <3>1, <2>1, <2>2 DEF Stored
    <2>6. Handling(o)
      BY <2>1 DEF Handling
    <2>7. Streaming(o)
      BY <2>1, <1>2 DEF Streaming
    <2>8. NoneQueued(queue, o)
      BY <2>2 DEF NoneQueued
    <2>9. Stream(<<>>, queue, o, session, 0, 0, 0, 0, 0)
      <3>1. PICK Q, s : Q = queue /\ s = session
        OBVIOUS
      <3>2. Stream(<<>>, Q, o, s, 0, 0, 0, 0, 0)
        BY <3>1, <2>8, StreamEmpty
      <3> QED
        BY <3>1, <3>2
    <2>10. Stream(bulk[o], queue, o, session, guard[o].append, guard[o].next, guard[o].fetch,
                  appendSeq[o], front)
      BY <2>1, <2>9, <1>2
    <2>11. AllAppend(bulk[o])
      BY <2>2 DEF AllAppend
    <2>12. RunsOK(o)
      BY <2>5, <2>6, <2>7, <2>10 DEF RunsOK
    <2> QED
      BY <2>1, <2>3, <2>4, <2>7, <2>11, <2>12 DEF OwnerOK, Served
  <1>11. HostOK
    BY <1>2, <1>5, <1>10 DEF HostOK, Between
  <1> QED
    BY <1>6, <1>7, <1>8, <1>9, <1>10, <1>11 DEF PagesIInv

\* Nothing that was published is lost.
LEMMA PagesKept ==
    ASSUME PagesAssumption, PagesIInv
    PROVE  PublishedNotLost
  <1> SUFFICES ASSUME NEW o \in Owners, died[o] = "runs", wstat[o] = "ok", guard[o].nonce = session,
                      NEW b \in 0..(front - 1)
               PROVE  file[o][b] = session \/ b \in InFlight(o)
    BY DEF PublishedNotLost
  <1>1. /\ Stored(o)
        /\ Stream(bulk[o], queue, o, session, guard[o].append, guard[o].next, guard[o].fetch,
                  appendSeq[o], front)
    BY DEF PagesIInv, OwnerOK, RunsOK
  <1>2. PICK n \in Nat, F \in Nat : n = guard[o].next /\ F = front
    BY GuardIs, KnownIs DEF PagesIInv
  <1>3. CASE b < n
    <2>1. b \in 0..(n - 1)
      BY <1>2, <1>3
    <2>2. CASE \E i \in 1..Len(wq[o]) : b \in DOMAIN wq[o][i]
      <3>1. PICK i \in 1..Len(wq[o]) : b \in DOMAIN wq[o][i]
        BY <2>2
      <3>2. PICK W : W = {wq[o][j] : j \in 1..Len(wq[o])}
        OBVIOUS
      <3>3. PICK U : U = UNION {DOMAIN w : w \in W}
        OBVIOUS
      <3>4. wq[o][i] \in W
        BY <3>1, <3>2
      <3>5. b \in U
        BY <3>1, <3>3, <3>4
      <3>6. U \subseteq InFlight(o)
        BY <3>2, <3>3 DEF InFlight
      <3> QED
        BY <3>5, <3>6
    <2>3. file[o][b] = session \/ \E i \in 1..Len(wq[o]) : b \in DOMAIN wq[o][i]
      BY <2>1, <1>1, <1>2 DEF Stored
    <2> QED
      BY <2>2, <2>3
  <1>4. CASE ~(b < n)
    <2>1. b \in n..(F - 1)
      BY <1>2, <1>4
    <2>2. PICK f \in AppendsIn(bulk[o]) \cup QueuedFor(queue, o) : b \in DOMAIN f.pages
      BY <2>1, <1>1, <1>2 DEF Stream, Continues
    <2> QED
      BY <2>2 DEF InFlight, AppendsIn, QueuedFor
  <1> QED
    BY <1>3, <1>4

\* The inductive invariant implies the one the runs check.
LEMMA PagesImplied ==
    ASSUME PagesAssumption, PagesIInv
    PROVE  PagesInv
  <1>1. PagesTypeOK
    <2>1. /\ session \in 1..MaxSession /\ front \in 0..PageLimit
          /\ transport \in {"ready", "pending", "poisoned"} /\ warm \in Nat /\ mask \subseteq Owners
      BY DEF PagesIInv, HostTypes
    <2>2. \A o \in Owners : appendSeq[o] \in 0..PageLimit /\ fetchSeq[o] \in 0..MaxFetch
      BY DEF PagesIInv, HostTypes
    <2>3. \A o \in Owners : Len(wq[o]) <= WriteDepth /\ (writing[o] => wq[o] # <<>>)
      BY DEF PagesIInv, OwnerOK, WriterOK
    <2>4. \A o \in Owners : opc[o] \in {"poll", "drain", "read"}
      BY DEF PagesIInv, OwnerTypes
    <2> QED
      BY <2>1, <2>2, <2>3, <2>4 DEF PagesTypeOK
  <1>2. FetchedIsCurrent
    BY DEF PagesIInv, Globals, FetchedIsCurrent
  <1>3. ScratchExclusive
    BY DEF PagesIInv, OwnerOK, WriterOK, ScratchExclusive
  <1>4. NoStaleRejection
    BY DEF PagesIInv, OwnerTypes, Deaths, NoStaleRejection
  <1> QED
    BY <1>1, <1>2, <1>3, <1>4, PagesKept DEF PagesInv

\* A step that leaves every owner in its session.
SessionsStay == \A o \in Owners : guard'[o].nonce = guard[o].nonce

\* Such a step begins no session.
LEMMA StayQuiet ==
    ASSUME SessionsStay
    PROVE  BeginQuiet
  BY DEF SessionsStay, BeginQuiet

\* Nor does one that leaves the guards alone.
LEMMA GuardStays ==
    ASSUME guard' = guard
    PROVE  BeginQuiet
  BY DEF BeginQuiet

\* Nothing happens.
LEMMA KeepsStutter ==
    ASSUME PagesAssumption, PagesIInv, UNCHANGED pagesVars
    PROVE  PagesIInv' /\ BeginQuiet
  <1>1. HostFixed /\ Untouched
    BY DEF pagesVars, host, wires, owners, HostFixed, Untouched
  <1>2. WireTypes' /\ OwnerTypes'
    BY <1>1 DEF PagesIInv, WireTypes, OwnerTypes, Untouched
  <1>3. \A o \in Owners : Same(o)
    BY <1>1, UntouchedSame
  <1>4. 1 \in Owners
    BY Bounds
  <1>5. OwnerOK(1)' /\ HostKeeps(1)
    BY <1>3, <1>4, OwnerKept, SameLooks, LooksHost DEF PagesIInv
  <1>6. PagesIInv'
    BY <1>1, <1>2, <1>3, <1>4, <1>5, OwnerStep
  <1>7. BeginQuiet
    BY <1>1, GuardStays DEF Untouched
  <1> QED
    BY <1>6, <1>7

\* No frame of the BULK stream changes a session.
LEMMA BulkStays ==
    ASSUME PagesAssumption, PagesIInv, NEW o \in Owners, TakeBulk(o)
    PROVE  BeginQuiet
  <1>1. guard \in [Owners -> Guards] /\ \A p \in Owners : guard[p] \in Guards
    BY DEF PagesIInv, OwnerTypes
  <1>2. PICK f : f = Head(bulk[o])
    OBVIOUS
  <1>3. CASE guard' = guard
    BY <1>3, GuardStays
  <1>4. ASSUME NEW g, guard' = [guard EXCEPT ![o] = g], g.nonce = guard[o].nonce
        PROVE  BeginQuiet
    <2>1. SessionsStay
      BY <1>1, <1>4 DEF SessionsStay
    <2> QED
      BY <2>1, StayQuiet
  <1>5. CASE HandleAppend(o, f)
    <2>1. PICK x, y : x = guard[o].append + 1 /\ y = guard[o].next + Cardinality(DOMAIN f.pages)
      OBVIOUS
    <2>2. PICK g : g = [guard[o] EXCEPT !.append = x, !.next = y]
      OBVIOUS
    <2>3. guard' = guard \/ guard' = [guard EXCEPT ![o] = g]
      BY <2>1, <2>2, <1>5 DEF HandleAppend, Ends, Enqueue
    <2>4. g.nonce = guard[o].nonce
      BY <2>2, <1>1 DEF Guards
    <2> QED
      BY <2>3, <2>4, <1>3, <1>4
  <1>6. CASE HandleFetch(o, f)
    <2>1. PICK x : x = guard[o].fetch + 1
      OBVIOUS
    <2>2. PICK g : g = [guard[o] EXCEPT !.fetch = x]
      OBVIOUS
    <2>3. guard' = guard \/ guard' = [guard EXCEPT ![o] = g]
      BY <2>1, <2>2, <1>6 DEF HandleFetch, Ends
    <2>4. g.nonce = guard[o].nonce
      BY <2>2, <1>1 DEF Guards
    <2> QED
      BY <2>3, <2>4, <1>3, <1>4
  <1>7. CASE HandleBarrier(o, f)
    BY <1>3, <1>7 DEF HandleBarrier, Ends
  <1> QED
    BY <1>2, <1>5, <1>6, <1>7 DEF TakeBulk

\* The steps of rank 0.
LEMMA KeepsHost ==
    ASSUME PagesAssumption, PagesIInv, HostSteps
    PROVE  PagesIInv' /\ BeginQuiet
  <1>1. CASE PeerLost \/ DrainFails \/ FetchSendFails \/ BarrierSendFails
    <2>1. GiveUp
      BY <1>1 DEF PeerLost, DrainFails, FetchSendFails, BarrierSendFails
    <2>2. guard' = guard
      BY <2>1 DEF GiveUp, owners
    <2> QED
      BY <2>1, <2>2, KeepsGiveUp, GuardStays
  <1>2. CASE FetchSend
    BY <1>2, KeepsFetchSend, GuardStays DEF FetchSend, owners
  <1>3. CASE FetchResult
    BY <1>3, KeepsFetchResult, GuardStays DEF FetchResult, owners
  <1>4. CASE WarmDrained
    BY <1>4, KeepsWarmDrained, GuardStays DEF WarmDrained, owners
  <1>5. CASE BarrierSend
    BY <1>5, KeepsBarrierSend, GuardStays DEF BarrierSend, owners
  <1>6. CASE BarrierAck
    BY <1>6, KeepsBarrierAck, GuardStays DEF BarrierAck, owners
  <1>7. CASE BeginSend
    BY <1>7, KeepsBeginSend, GuardStays DEF BeginSend, owners
  <1>8. ASSUME NEW o \in Owners, WarmResult(o) PROVE PagesIInv' /\ BeginQuiet
    BY <1>8, KeepsWarmResult, GuardStays DEF WarmResult, owners
  <1>9. ASSUME NEW o \in Owners, BeginReady(o) PROVE PagesIInv' /\ BeginQuiet
    BY <1>9, KeepsBeginReady, GuardStays DEF BeginReady, owners
  <1> QED
    BY <1>1, <1>2, <1>3, <1>4, <1>5, <1>6, <1>7, <1>8, <1>9 DEF HostSteps

\* The steps of an owner's worker.
LEMMA KeepsWorker ==
    ASSUME PagesAssumption, PagesIInv, NEW o \in Owners, WorkerSteps(o)
    PROVE  PagesIInv' /\ BeginQuiet
  <1>1. CASE TakeBulk(o)
    BY <1>1, KeepsTakeBulk, BulkStays
  <1>2. CASE TakeBegin(o)
    <2>1. guard' = guard
      BY <1>2 DEF TakeBegin, Ends
    <2> QED
      BY <2>1, <1>2, KeepsTakeBegin, GuardStays
  <1>3. CASE WriterDrained(o)
    <2>1. /\ PagesIInv' /\ (guard'[o].nonce # guard[o].nonce => Emptied(o))
          /\ \A p \in Owners : p # o => guard'[p] = guard[p]
      BY <1>3, KeepsWriterDrained
    <2>2. BeginQuiet
      BY <2>1 DEF BeginQuiet, Emptied, NoneQueued
    <2> QED
      BY <2>1, <2>2
  <1>4. CASE ReadReply(o)
    <2>1. guard' = guard
      BY <1>4 DEF ReadReply, Ends
    <2> QED
      BY <2>1, <1>4, KeepsReadReply, GuardStays
  <1> QED
    BY <1>1, <1>2, <1>3, <1>4 DEF WorkerSteps

\* Every step keeps the inductive invariant, and begins a session quietly.
LEMMA KeepsPages ==
    ASSUME PagesAssumption, PagesIInv, [PagesNext]_pagesVars
    PROVE  PagesIInv' /\ BeginQuiet
  <1>1. ASSUME NEW n \in 1..2, Publish(n) PROVE PagesIInv' /\ BeginQuiet
    BY <1>1, KeepsPublish, GuardStays DEF Publish, owners
  <1>2. CASE PublishRefused
    BY <1>2, KeepsPublishRefused, GuardStays DEF PublishRefused, owners
  <1>3. CASE SenderSends
    BY <1>3, KeepsSenderSends, GuardStays DEF SenderSends, owners
  <1>4. CASE SenderFails
    BY <1>4, KeepsSenderFails, GuardStays DEF SenderFails, owners
  <1>5. ASSUME NEW o \in Owners, NEW blocks \in SUBSET Blocks, Fetch(o, blocks)
        PROVE  PagesIInv' /\ BeginQuiet
    BY <1>5, KeepsFetch, GuardStays DEF Fetch, owners
  <1>6. CASE RingChunk
    <2>1. SessionsStay
      <3>1. guard' = [o \in Owners |-> [guard[o] EXCEPT !.next = front + 1]]
        BY <1>6 DEF RingChunk
      <3>2. \A o \in Owners : guard[o] \in Guards
        BY DEF PagesIInv, OwnerTypes
      <3> QED
        BY <3>1, <3>2 DEF SessionsStay, Guards
    <2> QED
      BY <2>1, <1>6, KeepsRingChunk, StayQuiet
  <1>7. CASE WarmDrain
    BY <1>7, KeepsWarmDrain, GuardStays DEF WarmDrain, owners
  <1>8. CASE Reset
    BY <1>8, KeepsReset, GuardStays DEF Reset, owners
  <1>9. CASE HostSteps
    BY <1>9, KeepsHost
  <1>10. ASSUME NEW o \in Owners, WorkerSteps(o) PROVE PagesIInv' /\ BeginQuiet
    BY <1>10, KeepsWorker
  <1>11. ASSUME NEW o \in Owners, WriterSteps(o) PROVE PagesIInv' /\ BeginQuiet
    <2>1. PagesIInv'
      BY <1>11, KeepsWriterTakes, KeepsWriterDone, KeepsWriterFails DEF WriterSteps
    <2>2. guard' = guard
      BY <1>11 DEF WriterSteps, WriterTakes, WriterDone, WriterFails
    <2> QED
      BY <2>1, <2>2, GuardStays
  <1>12. ASSUME NEW o \in Owners, Crash(o) PROVE PagesIInv' /\ BeginQuiet
    BY <1>12, KeepsCrash, GuardStays DEF Crash
  <1>13. CASE UNCHANGED pagesVars
    BY <1>13, KeepsStutter
  <1> QED
    BY <1>1, <1>2, <1>3, <1>4, <1>5, <1>6, <1>7, <1>8, <1>9, <1>10, <1>11, <1>12, <1>13 DEF PagesNext

\* The page service, for every number of owners, depth of the queues, context
\* limit, and number of sessions, fetches and faults, with and without a ring:
\* what rank 0 fetches is current, a fetch and the writer never share the scratch
\* buffers, no worker rejects a frame sent in good order, nothing published is
\* lost, and a session begins only when nothing of the one before is left.
THEOREM PagesAreSafe ==
    ASSUME PagesAssumption
    PROVE  PagesSpec => PagesSafe
  <1>1. PagesInit => PagesIInv
    BY PagesStart
  <1>2. PagesIInv /\ [PagesNext]_pagesVars => PagesIInv' /\ BeginQuiet
    BY KeepsPages
  <1>3. PagesIInv => PagesInv
    BY PagesImplied
  <1> QED
    BY <1>1, <1>2, <1>3, PTL DEF PagesSpec, PagesSafe, BeginsQuiet
=============================================================================

----------------------------- MODULE QsaReplica -----------------------------
(***************************************************************************)
(* The asynchronous QSA page replica (src/src/qsa_replica.c): a ring of    *)
(* payload slots between the coordinator thread, which reserves slots,     *)
(* encodes pages into them and commits or cancels, and a sender thread     *)
(* that reads the head slot with the mutex released.                       *)
(*                                                                         *)
(* An action is one critical section of the mutex or one step outside it.  *)
(* A page batch is a serial number; `item' holds the number the queue      *)
(* believes a slot carries, `payload' the number its bytes carry.  Both    *)
(* condition variables are explicit: a waiter leaves its wait only when it *)
(* is signalled.                                                           *)
(***************************************************************************)
EXTENDS Integers, Sequences

CONSTANTS
    SlotCount,  \* FG_QSA_REPLICA_DEPTH
    GroupMax,   \* owners a publish can address, FG_RANK_COUNT - 1
    MaxSerial   \* bound: batches ever encoded

ASSUME ReplicaAssumption ==
    /\ SlotCount \in Nat \ {0}
    /\ GroupMax \in Nat \ {0}
    /\ MaxSerial \in Nat

VARIABLES
    head, count, reserved,  \* the ring's indices
    status,                 \* replica->status: "ok" or "failed", sticky
    stop,                   \* replica->stop
    item, payload,          \* per slot: committed descriptor, bytes
    sender,                 \* sender thread: "top", "wait", "send", "exit"
    flying,                 \* the descriptor the sender copied before unlocking
    client,                 \* coordinator thread: "idle", "fill", "drain",
                            \* "drainwait", "join", "gone"
    buffers, group,         \* its reserved slots and what it encoded into them
    serial,                 \* batches encoded so far
    log, sent               \* history: batches committed, batches on the wire

ring    == <<head, count, reserved, status, stop, item, payload>>
threads == <<sender, flying, client, buffers, group, serial>>
vars    == <<ring, threads, log, sent>>

Slots   == 0..(SlotCount - 1)
Serials == 1..MaxSerial

Init ==
    /\ head = 0 /\ count = 0 /\ reserved = 0
    /\ status = "ok"
    /\ stop = FALSE
    /\ item = [s \in Slots |-> 0]
    /\ payload = [s \in Slots |-> 0]
    /\ sender = "top"
    /\ flying = 0
    /\ client = "idle"
    /\ buffers = <<>> /\ group = <<>>
    /\ serial = 0
    /\ log = <<>> /\ sent = <<>>

\* The slot i places behind the head.
Slot(i) == (head + i) % SlotCount

\* pthread_cond_signal(&ready): a waiting sender re-tests its loop.
WakeSender == sender' = IF sender = "wait" THEN "top" ELSE sender

\* Mutant: the wake-up of a drain is forgotten.
WakeDrainLost == UNCHANGED client

\* pthread_cond_broadcast(&drained): a waiting drain re-tests its loop.
WakeDrain == client' = IF client = "drainwait" THEN "drain" ELSE client
-----------------------------------------------------------------------------
(* The coordinator thread. *)

Room(n) == reserved = 0 /\ count + n <= SlotCount

\* All the slots of a publish are reserved, or none: a full queue refuses.
Reserve(n) ==
    /\ client = "idle"
    /\ status = "ok"
    /\ Room(n)
    /\ serial + n <= MaxSerial
    /\ reserved' = n
    /\ buffers' = [i \in 1..n |-> Slot(count + i - 1)]
    /\ group' = <<>>
    /\ client' = "fill"
    /\ UNCHANGED <<head, count, status, stop, item, payload, sender, flying,
                   serial, log, sent>>

\* The next batch is encoded into its reserved buffer, without the mutex.
Encode ==
    /\ client = "fill"
    /\ Len(group) < Len(buffers)
    /\ serial' = serial + 1
    /\ payload' = [payload EXCEPT ![buffers[Len(group) + 1]] = serial + 1]
    /\ group' = Append(group, serial + 1)
    /\ UNCHANGED <<head, count, reserved, status, stop, item, sender, flying,
                   client, buffers, log, sent>>

\* An encoding failed: the reservation is given back.
Cancel ==
    /\ client = "fill"
    /\ Len(group) < Len(buffers)
    /\ reserved' = 0
    /\ client' = "idle"
    /\ buffers' = <<>> /\ group' = <<>>
    /\ UNCHANGED <<head, count, status, stop, item, payload, sender, flying,
                   serial, log, sent>>

\* Mutant: the descriptors go to the slots after the head, not after the tail.
CommittedAtHead(s, i) == Slot(i - 1) = s

\* The i-th descriptor of the group is stored in slot s.
CommittedAt(s, i) == Slot(count + i - 1) = s

Commit ==
    /\ client = "fill"
    /\ Len(group) = Len(buffers)
    /\ status = "ok"
    /\ reserved = Len(group)
    /\ item' = [s \in Slots |->
         IF \E i \in 1..Len(group) : CommittedAt(s, i)
         THEN group[CHOOSE i \in 1..Len(group) : CommittedAt(s, i)]
         ELSE item[s]]
    /\ count' = count + Len(group)
    /\ reserved' = 0
    /\ WakeSender
    /\ client' = "idle"
    /\ buffers' = <<>> /\ group' = <<>>
    /\ log' = log \o group
    /\ UNCHANGED <<head, status, stop, payload, flying, serial, sent>>

\* The sender failed while the batches were encoded: nothing is queued.
CommitRefused ==
    /\ client = "fill"
    /\ Len(group) = Len(buffers)
    /\ status # "ok"
    /\ reserved' = 0
    /\ client' = "idle"
    /\ buffers' = <<>> /\ group' = <<>>
    /\ UNCHANGED <<head, count, status, stop, item, payload, sender, flying,
                   serial, log, sent>>

DrainCall ==
    /\ client = "idle"
    /\ client' = "drain"
    /\ UNCHANGED <<ring, sender, flying, buffers, group, serial, log, sent>>

\* Mutant: the drain tests the reservation only.
MustWaitReserved == reserved > 0 /\ status = "ok"

MustWait == (count > 0 \/ reserved > 0) /\ status = "ok"

DrainWait ==
    /\ client = "drain"
    /\ MustWait
    /\ client' = "drainwait"
    /\ UNCHANGED <<ring, sender, flying, buffers, group, serial, log, sent>>

DrainReturn ==
    /\ client = "drain"
    /\ ~MustWait
    /\ client' = "idle"
    /\ UNCHANGED <<ring, sender, flying, buffers, group, serial, log, sent>>

\* Destroy: the sender is told to stop and joined.
Destroy ==
    /\ client = "idle"
    /\ stop' = TRUE
    /\ WakeSender
    /\ client' = "join"
    /\ UNCHANGED <<head, count, reserved, status, item, payload, flying,
                   buffers, group, serial, log, sent>>

Join ==
    /\ client = "join"
    /\ sender = "exit"
    /\ client' = "gone"
    /\ UNCHANGED <<ring, sender, flying, buffers, group, serial, log, sent>>
-----------------------------------------------------------------------------
(* The sender thread. *)

LoopEnds == stop /\ count = 0

\* One test of the loop: leave, wait, or copy the head descriptor and unlock.
SenderLoop ==
    /\ sender = "top"
    /\ \/ /\ LoopEnds
          /\ sender' = "exit"
          /\ UNCHANGED flying
       \/ /\ ~LoopEnds
          /\ count = 0
          /\ sender' = "wait"
          /\ UNCHANGED flying
       \/ /\ ~LoopEnds
          /\ count > 0
          /\ sender' = "send"
          /\ flying' = item[head]
    /\ UNCHANGED <<ring, client, buffers, group, serial, log, sent>>

\* The frame is out: the slot is released and a drain is woken.
SendOk ==
    /\ sender = "send"
    /\ sent' = Append(sent, [item |-> flying, body |-> payload[head]])
    /\ head' = (head + 1) % SlotCount
    /\ count' = count - 1
    /\ sender' = "top"
    /\ WakeDrain
    /\ UNCHANGED <<reserved, status, stop, item, payload, flying, buffers, group,
                   serial, log>>

\* Mutant: a failed batch is dropped and the stream goes on.
AfterFailureGoesOn == status' = "ok" /\ count' = 0

\* The failure is sticky and everything queued is dropped.
AfterFailure == status' = "failed" /\ count' = 0

SendFails ==
    /\ sender = "send"
    /\ AfterFailure
    /\ sender' = "top"
    /\ WakeDrain
    /\ UNCHANGED <<head, reserved, stop, item, payload, flying, buffers, group,
                   serial, log, sent>>
-----------------------------------------------------------------------------
Client ==
    \/ \E n \in 1..GroupMax : Reserve(n)
    \/ Encode
    \/ Cancel
    \/ Commit
    \/ CommitRefused
    \/ DrainCall
    \/ DrainWait
    \/ DrainReturn
    \/ Destroy
    \/ Join

Sender == SenderLoop \/ SendOk \/ SendFails

Next == Client \/ Sender

Spec == Init /\ [][Next]_vars

\* The sender runs and its send returns (a socket deadline bounds it); a client
\* that is inside drain or destroy keeps running.
Fairness ==
    /\ WF_vars(SenderLoop)
    /\ WF_vars(SendOk \/ SendFails)
    /\ WF_vars(DrainWait \/ DrainReturn)
    /\ WF_vars(Join)

FairSpec == Spec /\ Fairness
-----------------------------------------------------------------------------
(* Properties. *)

\* Every index and every field of fg_qsa_replica keeps its type.
TypeOK ==
    /\ head \in Slots
    /\ count \in 0..SlotCount
    /\ reserved \in 0..SlotCount
    /\ status \in {"ok", "failed"}
    /\ stop \in BOOLEAN
    /\ item \in [Slots -> Nat]
    /\ payload \in [Slots -> Nat]
    /\ sender \in {"top", "wait", "send", "exit"}
    /\ flying \in Nat
    /\ client \in {"idle", "fill", "drain", "drainwait", "join", "gone"}
    /\ buffers \in Seq(Slots)
    /\ group \in Seq(Serials)
    /\ serial \in 0..MaxSerial
    /\ log \in Seq(Serials)
    /\ sent \in Seq([item : Nat, body : Nat])

\* A buffer the coordinator is encoding into is never a slot that is queued or on
\* the wire, although both threads move without the mutex meanwhile
\* (fg_qsa_replica_reserve hands out raw slot pointers).
NoOverlap ==
    client = "fill" /\ status = "ok" =>
        \A i \in 1..Len(buffers) : \A j \in 0..(count - 1) : buffers[i] # Slot(j)

\* What went out is a prefix of what was committed, in order, once each, and every
\* frame carries the bytes its descriptor names.
SentInOrder ==
    /\ Len(sent) <= Len(log)
    /\ \A k \in 1..Len(sent) : sent[k] = [item |-> log[k], body |-> log[k]]

\* The parts of the inductive invariant behind the two above.

\* Queued slots and reserved slots fit the ring side by side.
RingFits == count + reserved <= SlotCount

\* While the coordinator encodes, its buffers are the slots right behind the tail,
\* wherever the sender has moved the head, and hold what was encoded.
BuffersFollowTail ==
    IF client = "fill"
    THEN /\ Len(buffers) = reserved
         /\ Len(group) <= reserved
         /\ reserved \in 1..GroupMax
         /\ serial + (Len(buffers) - Len(group)) <= MaxSerial
         /\ status = "ok" =>
              /\ \A i \in 1..Len(buffers) : buffers[i] = Slot(count + i - 1)
              /\ \A i \in 1..Len(group) : payload[buffers[i]] = group[i]
    ELSE reserved = 0

\* The queued slots hold the unsent suffix of the log, descriptor and bytes.
QueueHoldsSuffix ==
    IF status = "ok"
    THEN /\ Len(log) = Len(sent) + count
         /\ \A i \in 0..(count - 1) :
              /\ item[Slot(i)] = log[Len(sent) + 1 + i]
              /\ payload[Slot(i)] = log[Len(sent) + 1 + i]
    ELSE count = 0

\* The slot on the wire is the head, still queued, and the failure is not yet known.
FlyingIsHead ==
    sender = "send" => count > 0 /\ status = "ok" /\ flying = item[head]

\* The inductive invariant: the slots, the two threads' local copies and the history
\* stay consistent through every unlock (fg_qsa_replica_reserve, _commit, replica_main).
RingInv ==
    /\ TypeOK
    /\ RingFits
    /\ BuffersFollowTail
    /\ QueueHoldsSuffix
    /\ FlyingIsHead
    /\ SentInOrder

\* A drain that returns without an error leaves nothing behind: every committed
\* batch is on the wire (the fetch and barrier of src/src/runtime.c rely on it).
DrainIsComplete ==
    [][client = "drain" /\ client' = "idle" /\ status = "ok" =>
         Len(sent) = Len(log)]_vars

\* Everything committed is sent, or the sender failed, also across destroy.
CommittedIsSent ==
    \A k \in Serials : Len(log) >= k ~> Len(sent) >= k \/ status = "failed"

\* A drain always returns: the sender's broadcast is never lost, whatever state the
\* queue was in when the wait began (fg_qsa_replica_drain).
DrainReturns == client = "drain" ~> client = "idle"

\* A destroy joins its sender: the stop flag reaches a sender that sleeps, sends or
\* still has batches queued (replica_cleanup).
DestroyReturns == client = "join" ~> client = "gone"

Queue == INSTANCE ReplicaQueue WITH
    Capacity <- SlotCount, Batches <- Serials, failed <- (status = "failed")

\* The two threads over the slot ring implement the queue the publisher reasons
\* with: groups enter whole, leave once and in order, and a failure is final.
ImplementsQueue == Queue!Spec

\* Nobody waits for ever: a committed batch is sent or the replica has failed, a
\* drain and a destroy return.
EverythingReturns ==
    /\ CommittedIsSent
    /\ DrainReturns
    /\ DestroyReturns
=============================================================================

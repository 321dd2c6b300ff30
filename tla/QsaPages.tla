------------------------------- MODULE QsaPages -------------------------------
(***************************************************************************)
(* The QSA page service between rank 0 and the page owners (runtime.c,     *)
(* qsa_owner.c): complete pages are appended to their owners through the   *)
(* replica queue, cold pages are fetched back, a barrier proves every      *)
(* append was written, and a new session begins only after that barrier.   *)
(* An owner is a worker thread, which drains its page-writer thread before *)
(* it reads a file or answers; both use the same scratch buffers.  Session *)
(* frames travel on CONTROL and page frames on BULK, so a begin can        *)
(* overtake an append.                                                     *)
(*                                                                         *)
(* A page's records are abstracted to the session that computed them; an   *)
(* owner owns one QSA layer.  With Ring the owners compute their own pages *)
(* and rank 0 only warms its mirror with fire-and-forget fetches.          *)
(***************************************************************************)
EXTENDS Integers, Sequences, FiniteSets, FiniteSetsExt

CONSTANTS
    N,           \* page owners are ranks 1..N
    Ring,        \* coordinator->ring_prefill (with rank-0 decode)
    QueueDepth,  \* FG_QSA_REPLICA_DEPTH
    WriteDepth,  \* FG_QSA_OWNER_WRITE_DEPTH
    PageLimit,   \* context limit in pages
    MaxSession,  \* bound: sessions begun
    MaxFetch,    \* bound: fetch batches per owner and session
    MaxFaults    \* bound: failed sends, failed writes and crashes

\* What the constants of every instance satisfy.
PagesAssumption ==
    /\ {N, QueueDepth, WriteDepth, PageLimit, MaxSession} \subseteq Nat \ {0}
    /\ {MaxFetch, MaxFaults} \subseteq Nat
    /\ Ring \in BOOLEAN

Owners == 1..N
Blocks == 0..(PageLimit - 1)

VARIABLES
    session, appendSeq, fetchSeq, mask,  \* rank 0: qsa_page_transport
    warm,                                \* warm_outstanding
    transport,                           \* "ready", "pending", "poisoned"
    front,                               \* complete pages rank 0 has published
    at,                                  \* what rank 0 is waiting for
    got,                                 \* pages rank 0 received: <<owner, block, content>>
    queue,                               \* the replica's queue of append frames
    bulk, back,                          \* BULK streams to and from each owner
    ctl, ready,                          \* CONTROL streams to and from each owner
    guard,                               \* the owner's guard
    file,                                \* its state file: block -> session, 0 is absent
    wq, writing, wstat,                  \* its write queue, writer busy, sticky status
    opc, cur,                            \* its worker thread and the frame it handles
    died,                                \* why its worker ended, "runs" until it does
    faults

host   == <<session, appendSeq, fetchSeq, mask, warm, transport, front, at, got, queue>>
wires  == <<bulk, back, ctl, ready>>
owners == <<guard, file, wq, writing, wstat, opc, cur, died>>
pagesVars == <<host, wires, owners, faults>>

\* The pages one frame carries: nothing, blocks asked for, or their contents.
None == [b \in {} |-> 0]
Frame(kind, s, q, pages) == [kind |-> kind, session |-> s, seq |-> q, pages |-> pages]
Idle == [op |-> "idle", owner |-> 0, left |-> {}]
NewGuard(s) == [nonce |-> s, next |-> 0, append |-> 0, fetch |-> 0]
Empty == [b \in Blocks |-> 0]

\* The ring is open and its first session has begun everywhere.
PagesInit ==
    /\ session = 1
    /\ appendSeq = [o \in Owners |-> 0] /\ fetchSeq = [o \in Owners |-> 0]
    /\ mask = {} /\ warm = 0 /\ transport = "ready" /\ front = 0
    /\ at = Idle /\ got = {} /\ queue = <<>>
    /\ bulk = [o \in Owners |-> <<>>] /\ back = [o \in Owners |-> <<>>]
    /\ ctl = [o \in Owners |-> <<>>] /\ ready = [o \in Owners |-> <<>>]
    /\ guard = [o \in Owners |-> NewGuard(1)]
    /\ file = [o \in Owners |-> Empty]
    /\ wq = [o \in Owners |-> <<>>]
    /\ writing = [o \in Owners |-> FALSE]
    /\ wstat = [o \in Owners |-> "ok"]
    /\ opc = [o \in Owners |-> "poll"]
    /\ cur = [o \in Owners |-> Frame("none", 0, 0, None)]
    /\ died = [o \in Owners |-> "runs"]
    /\ faults = 0
-----------------------------------------------------------------------------
(* Rank 0: publishing. *)

Poison == transport' = "poisoned"
Usable == at.op = "idle" /\ transport = "ready"

\* A chunk completes n pages of every owner's layer.  Slots for all owners are
\* reserved, or none: a full queue fails the request, which leaves the session.
Publish(n) ==
    /\ Usable /\ ~Ring
    /\ front + n <= PageLimit
    /\ Len(queue) + N <= QueueDepth
    /\ queue' = queue \o [o \in 1..N |->
         [owner |-> o,
          frame |-> Frame("append", session, appendSeq[o],
                          [b \in front..(front + n - 1) |-> session])]]
    /\ appendSeq' = [o \in Owners |-> appendSeq[o] + 1]
    /\ mask' = Owners
    /\ front' = front + n
    /\ UNCHANGED <<session, fetchSeq, warm, transport, at, got, wires, owners, faults>>

\* Not enough free slots: the request fails and only a reset leads on.
PublishRefused ==
    /\ Usable /\ ~Ring
    /\ front < PageLimit
    /\ Len(queue) + N > QueueDepth
    /\ at' = [Idle EXCEPT !.op = "failed"]
    /\ UNCHANGED <<session, appendSeq, fetchSeq, mask, warm, transport, front,
                   got, queue, wires, owners, faults>>

\* The replica's sender thread puts the head batch on the wire.
SenderSends ==
    /\ queue # <<>> /\ transport # "poisoned"
    /\ LET item == Head(queue) IN
         /\ died[item.owner] = "runs"
         /\ bulk' = [bulk EXCEPT ![item.owner] = Append(@, item.frame)]
    /\ queue' = Tail(queue)
    /\ UNCHANGED <<session, appendSeq, fetchSeq, mask, warm, transport, front,
                   at, got, back, ctl, ready, owners, faults>>

\* A send to an owner that has gone poisons the transport.
SenderFails ==
    /\ queue # <<>> /\ transport # "poisoned"
    /\ died[Head(queue).owner] # "runs"
    /\ Poison
    /\ UNCHANGED <<session, appendSeq, fetchSeq, mask, warm, front, at, got,
                   queue, wires, owners, faults>>

\* A drain of the replica returns: everything published is on the wire.
Drained == queue = <<>>

\* Rank 0 gives up what it was waiting for: the transport is not reusable.
GiveUp ==
    /\ Poison
    /\ at' = Idle
    /\ UNCHANGED <<session, appendSeq, fetchSeq, mask, warm, front, got, queue,
                   wires, owners, faults>>

\* Mutant: a closed stream goes unnoticed while a session begins.
WaitedForOne == IF at.op \in {"fetchwait", "barrierwait"} THEN {at.owner} ELSE {}

\* The owners whose closed stream ends rank 0's wait.
Waited == CASE at.op \in {"fetchwait", "barrierwait"} -> {at.owner}
            [] at.op \in {"beginwait", "ring", "warmdrain"} -> at.left
            [] OTHER -> {}
PeerLost ==
    /\ transport # "poisoned"
    /\ \E o \in Waited : died[o] # "runs" /\ back[o] = <<>> /\ ready[o] = <<>>
    /\ GiveUp
DrainFails ==
    /\ at.op \in {"fetch", "barrier"}
    /\ transport = "poisoned"
    /\ GiveUp
-----------------------------------------------------------------------------
(* Rank 0: fetching a cold page. *)

Fetch(o, blocks) ==
    /\ Usable
    /\ blocks # {} /\ \A b \in blocks : b < front
    /\ fetchSeq[o] < MaxFetch
    /\ at' = [op |-> "fetch", owner |-> o, left |-> blocks]
    /\ UNCHANGED <<session, appendSeq, fetchSeq, mask, warm, transport, front,
                   got, queue, wires, owners, faults>>

\* The fetch waits for the replica, so that it cannot overtake an append.
FetchReady == Drained

FetchSend ==
    /\ at.op = "fetch" /\ transport # "poisoned" /\ FetchReady
    /\ LET o == at.owner IN
         /\ died[o] = "runs"
         /\ bulk' = [bulk EXCEPT ![o] = Append(@, Frame("fetch", session, fetchSeq[o],
                                                [b \in at.left |-> 0]))]
    /\ transport' = "pending"
    /\ at' = [at EXCEPT !.op = "fetchwait"]
    /\ UNCHANGED <<session, appendSeq, fetchSeq, mask, warm, front, got, queue,
                   back, ctl, ready, owners, faults>>

FetchSendFails ==
    /\ at.op = "fetch" /\ transport # "poisoned" /\ FetchReady
    /\ died[at.owner] # "runs"
    /\ GiveUp

Received(o, pages) == {<<o, b, pages[b]>> : b \in DOMAIN pages}

FetchResult ==
    /\ at.op = "fetchwait" /\ back[at.owner] # <<>>
    /\ LET o == at.owner
           f == Head(back[o])
           valid == /\ f.kind = "result" /\ f.session = session
                    /\ f.seq = fetchSeq[o] /\ DOMAIN f.pages = at.left
       IN /\ back' = [back EXCEPT ![o] = Tail(@)]
          /\ got' = IF valid THEN got \cup Received(o, f.pages) ELSE got
          /\ fetchSeq' = [fetchSeq EXCEPT ![o] = @ + (IF valid THEN 1 ELSE 0)]
          /\ transport' = IF valid /\ transport = "pending" THEN "ready" ELSE "poisoned"
    /\ at' = Idle
    /\ UNCHANGED <<session, appendSeq, mask, warm, front, queue, bulk, ctl,
                   ready, owners, faults>>
-----------------------------------------------------------------------------
(* Rank 0: warming the mirror while ring chunks retire. *)

\* A ring chunk: every owner computed its own page and moved its guard's frontier
\* (worker_publish_qsa_pages), then rank 0 asks for the page without waiting.
RingChunk ==
    /\ Ring /\ (Usable \/ (at.op = "ring" /\ transport # "poisoned"))
    /\ front < PageLimit
    /\ \A o \in Owners : died[o] = "runs" /\ fetchSeq[o] < MaxFetch
    /\ file' = [o \in Owners |-> [file[o] EXCEPT ![front] = session]]
    /\ guard' = [o \in Owners |-> [guard[o] EXCEPT !.next = front + 1]]
    /\ front' = front + 1
    /\ bulk' = [o \in Owners |-> Append(bulk[o],
                  Frame("fetch", session, fetchSeq[o], [b \in {front} |-> 0]))]
    /\ fetchSeq' = [o \in Owners |-> fetchSeq[o] + 1]
    /\ warm' = warm + N
    /\ transport' = "pending"
    /\ at' = [op |-> "ring", owner |-> 0, left |-> Owners]
    /\ UNCHANGED <<session, appendSeq, mask, got, queue, back, ctl, ready, wq,
                   writing, wstat, opc, cur, died, faults>>

\* A result arriving in the ring's receive loop or in the drain.  One nobody
\* waits for, or of another session, is dropped.
WarmResult(o) ==
    /\ at.op \in {"ring", "warmdrain"} /\ back[o] # <<>>
    /\ back' = [back EXCEPT ![o] = Tail(@)]
    /\ LET f == Head(back[o])
           mine == warm > 0 /\ f.session = session
       IN /\ warm' = IF mine THEN warm - 1 ELSE warm
          /\ got' = IF mine THEN got \cup Received(o, f.pages) ELSE got
          /\ transport' = IF mine /\ transport = "pending" THEN "ready" ELSE transport
    /\ UNCHANGED <<session, appendSeq, fetchSeq, mask, front, at, queue, bulk,
                   ctl, ready, owners, faults>>

WarmCollected == warm = 0

\* The end of a ring prefill collects every warm fetch.
WarmDrain ==
    /\ at.op = "ring" /\ transport # "poisoned"
    /\ at' = [at EXCEPT !.op = "warmdrain"]
    /\ UNCHANGED <<session, appendSeq, fetchSeq, mask, warm, transport, front,
                   got, queue, wires, owners, faults>>
WarmDrained ==
    /\ at.op = "warmdrain" /\ WarmCollected
    /\ at' = Idle
    /\ transport' = IF transport = "pending" THEN "ready" ELSE transport
    /\ UNCHANGED <<session, appendSeq, fetchSeq, mask, warm, front, got, queue,
                   wires, owners, faults>>
-----------------------------------------------------------------------------
(* Rank 0: the barrier and the beginning of a session. *)

\* Mutant: the mask of owners that hold unacknowledged appends is not set up.
BarrierNobody == {}

BarrierOwners == mask

Reset ==
    /\ at.op \in {"idle", "failed"} /\ transport = "ready"
    /\ session < MaxSession
    /\ at' = [op |-> "barrier", owner |-> 0, left |-> {}]
    /\ UNCHANGED <<session, appendSeq, fetchSeq, mask, warm, transport, front,
                   got, queue, wires, owners, faults>>

\* Every owner that was sent an append is sent a barrier naming the last one.
BarrierSend ==
    /\ at.op = "barrier" /\ transport # "poisoned" /\ Drained
    /\ \A o \in BarrierOwners : died[o] = "runs"
    /\ bulk' = [o \in Owners |-> IF o \in BarrierOwners
         THEN Append(bulk[o], Frame("barrier", session, appendSeq[o], None))
         ELSE bulk[o]]
    /\ IF BarrierOwners = {} THEN at' = [at EXCEPT !.op = "begin"] /\ UNCHANGED transport
       ELSE /\ at' = [op |-> "barrierwait", owner |-> Min(BarrierOwners), left |-> BarrierOwners]
            /\ transport' = "pending"
    /\ UNCHANGED <<session, appendSeq, fetchSeq, mask, warm, front, got, queue,
                   back, ctl, ready, owners, faults>>

BarrierSendFails ==
    /\ at.op = "barrier" /\ transport # "poisoned" /\ Drained
    /\ \E o \in BarrierOwners : died[o] # "runs"
    /\ GiveUp

\* The acknowledgements are read in rank order; stale results are skipped.
BarrierAck ==
    /\ at.op = "barrierwait" /\ back[at.owner] # <<>>
    /\ LET o == at.owner
           f == Head(back[o])
           rest == at.left \ {o}
           valid == f.kind = "ack" /\ f.session = session /\ f.seq = appendSeq[o]
       IN /\ back' = [back EXCEPT ![o] = Tail(@)]
          /\ CASE f.kind = "result" -> UNCHANGED <<at, transport>>
               [] f.kind # "result" /\ ~valid -> at' = Idle /\ Poison
               [] valid /\ rest # {} ->
                    at' = [at EXCEPT !.owner = Min(rest), !.left = rest] /\ UNCHANGED transport
               [] OTHER -> /\ at' = [op |-> "begin", owner |-> 0, left |-> {}]
                           /\ transport' = IF transport = "pending" THEN "ready" ELSE transport
    /\ UNCHANGED <<session, appendSeq, fetchSeq, mask, warm, front, got, queue,
                   bulk, ctl, ready, owners, faults>>

\* SESSION_BEGIN goes to every owner on CONTROL, with a nonce above the last.
BeginSend ==
    /\ at.op = "begin"
    /\ IF \A o \in Owners : died[o] = "runs"
       THEN /\ ctl' = [o \in Owners |-> Append(ctl[o], Frame("begin", session + 1, 0, None))]
            /\ at' = [op |-> "beginwait", owner |-> 0, left |-> Owners]
            /\ transport' = IF transport = "ready" THEN "pending" ELSE transport
       ELSE at' = Idle /\ Poison /\ UNCHANGED ctl
    /\ UNCHANGED <<session, appendSeq, fetchSeq, mask, warm, front, got, queue,
                   bulk, back, ready, owners, faults>>

\* SESSION_READY is accepted once from each owner, in any order; the last one
\* makes the session current and forgets the old one's sequences.
BeginReady(o) ==
    /\ at.op = "beginwait" /\ ready[o] # <<>>
    /\ ready' = [ready EXCEPT ![o] = Tail(@)]
    /\ LET valid == o \in at.left /\ Head(ready[o]).session = session + 1
           rest == at.left \ {o}
       IN CASE ~valid -> /\ at' = Idle /\ Poison
                         /\ UNCHANGED <<session, appendSeq, fetchSeq, mask, warm, front, got>>
            [] valid /\ rest # {} ->
                 /\ at' = [at EXCEPT !.left = rest]
                 /\ UNCHANGED <<session, appendSeq, fetchSeq, mask, warm, front, got, transport>>
            [] OTHER ->
                 /\ at' = Idle
                 /\ session' = session + 1
                 /\ appendSeq' = [p \in Owners |-> 0] /\ fetchSeq' = [p \in Owners |-> 0]
                 /\ mask' = {} /\ warm' = 0 /\ front' = 0 /\ got' = {}
                 /\ transport' = IF transport = "pending" THEN "ready" ELSE transport
    /\ UNCHANGED <<queue, bulk, back, ctl, owners, faults>>
-----------------------------------------------------------------------------
(* The owner's worker thread. *)

\* A handler that fails ends the worker: its streams close.
Ends(o, why) ==
    /\ died' = [died EXCEPT ![o] = why]
    /\ UNCHANGED <<guard, wq, opc, cur>>

\* validate_page_route and the sequence number of an append, fetch or barrier.
RouteOk(o, f, expected) == f.session = guard[o].nonce /\ f.seq = expected

\* A full writer queue does not wait: the worker ends.
Enqueue(o, f, next) ==
    IF Len(wq[o]) = WriteDepth
    THEN died' = [died EXCEPT ![o] = "full"] /\ UNCHANGED <<wq, guard>>
    ELSE /\ wq' = [wq EXCEPT ![o] = Append(@, f.pages)]
         /\ guard' = [guard EXCEPT ![o] = next]
         /\ UNCHANGED died

\* An append must continue the layer's frontier; the guard moves only when the
\* batch is in the writer's queue.
HandleAppend(o, f) ==
    LET first == Min(DOMAIN f.pages)
        ok == /\ RouteOk(o, f, guard[o].append) /\ first = guard[o].next
              /\ first + Cardinality(DOMAIN f.pages) <= PageLimit
    IN IF ~ok THEN Ends(o, "stale")
       ELSE IF wstat[o] # "ok" THEN Ends(o, "disk")
       ELSE /\ Enqueue(o, f, [guard[o] EXCEPT !.append = @ + 1,
                                              !.next = @ + Cardinality(DOMAIN f.pages)])
            /\ UNCHANGED <<opc, cur>>

\* A fetch moves its sequence before anything can fail.
HandleFetch(o, f) ==
    IF RouteOk(o, f, guard[o].fetch) /\ \A b \in DOMAIN f.pages : b < guard[o].next
    THEN /\ guard' = [guard EXCEPT ![o].fetch = @ + 1]
         /\ opc' = [opc EXCEPT ![o] = "drain"] /\ cur' = [cur EXCEPT ![o] = f]
         /\ UNCHANGED <<wq, died>>
    ELSE Ends(o, "stale")

HandleBarrier(o, f) ==
    IF RouteOk(o, f, guard[o].append)
    THEN /\ opc' = [opc EXCEPT ![o] = "drain"] /\ cur' = [cur EXCEPT ![o] = f]
         /\ UNCHANGED <<guard, wq, died>>
    ELSE Ends(o, "stale")

\* The worker takes the next BULK frame and runs its handler up to the drain.
TakeBulk(o) ==
    /\ died[o] = "runs" /\ opc[o] = "poll" /\ bulk[o] # <<>>
    /\ bulk' = [bulk EXCEPT ![o] = Tail(@)]
    /\ LET f == Head(bulk[o]) IN
         \/ f.kind = "append" /\ HandleAppend(o, f)
         \/ f.kind = "fetch" /\ HandleFetch(o, f)
         \/ f.kind = "barrier" /\ HandleBarrier(o, f)
    /\ UNCHANGED <<host, back, ctl, ready, file, writing, wstat, faults>>

\* A session begin must carry a newer nonce.
TakeBegin(o) ==
    /\ died[o] = "runs" /\ opc[o] = "poll" /\ ctl[o] # <<>>
    /\ ctl' = [ctl EXCEPT ![o] = Tail(@)]
    /\ LET f == Head(ctl[o]) IN
         IF f.session > guard[o].nonce
         THEN /\ opc' = [opc EXCEPT ![o] = "drain"] /\ cur' = [cur EXCEPT ![o] = f]
              /\ UNCHANGED <<guard, wq, died>>
         ELSE Ends(o, "stale")
    /\ UNCHANGED <<host, bulk, back, ready, file, writing, wstat, faults>>

WriterIdle(o) == wq[o] = <<>>

\* The drain returned: a barrier is acknowledged, a session opened over an empty
\* file, a fetch goes on to read.  The writer's error is sticky and ends the
\* worker, the begin of a new session included.
WriterDrained(o) ==
    /\ died[o] = "runs" /\ opc[o] = "drain" /\ WriterIdle(o)
    /\ LET f == cur[o] IN
       IF wstat[o] # "ok"
       THEN Ends(o, "disk") /\ UNCHANGED <<back, ready, file>>
       ELSE /\ opc' = [opc EXCEPT ![o] = IF f.kind = "fetch" THEN "read" ELSE "poll"]
            /\ back' = [back EXCEPT ![o] = IF f.kind = "barrier"
                 THEN Append(@, [f EXCEPT !.kind = "ack"]) ELSE @]
            /\ ready' = [ready EXCEPT ![o] = IF f.kind = "begin"
                 THEN Append(@, [f EXCEPT !.kind = "ready"]) ELSE @]
            /\ file' = [file EXCEPT ![o] = IF f.kind = "begin" THEN Empty ELSE @]
            /\ guard' = [guard EXCEPT ![o] = IF f.kind = "begin" THEN NewGuard(f.session) ELSE @]
            /\ UNCHANGED <<wq, cur, died>>
    /\ UNCHANGED <<host, bulk, ctl, writing, wstat, faults>>

\* The blocks are read into the scratch buffers; an incomplete page is an error.
ReadReply(o) ==
    /\ died[o] = "runs" /\ opc[o] = "read"
    /\ LET f == cur[o] IN
       IF \E b \in DOMAIN f.pages : file[o][b] = 0
       THEN Ends(o, "incomplete") /\ UNCHANGED back
       ELSE /\ back' = [back EXCEPT ![o] = Append(@,
                 Frame("result", f.session, f.seq, [b \in DOMAIN f.pages |-> file[o][b]]))]
            /\ opc' = [opc EXCEPT ![o] = "poll"]
            /\ UNCHANGED <<guard, wq, cur, died>>
    /\ UNCHANGED <<host, bulk, ctl, ready, file, writing, wstat, faults>>

\* The writer thread copies the head batch to scratch without the mutex.
WriterTakes(o) ==
    /\ wq[o] # <<>> /\ ~writing[o]
    /\ writing' = [writing EXCEPT ![o] = TRUE]
    /\ UNCHANGED <<host, wires, guard, file, wq, wstat, opc, cur, died, faults>>

WriterDone(o) ==
    /\ writing[o]
    /\ writing' = [writing EXCEPT ![o] = FALSE]
    /\ file' = [file EXCEPT ![o] = [b \in Blocks |->
         IF b \in DOMAIN Head(wq[o]) THEN Head(wq[o])[b] ELSE @[b]]]
    /\ wq' = [wq EXCEPT ![o] = Tail(@)]
    /\ UNCHANGED <<host, wires, guard, wstat, opc, cur, died, faults>>

\* A failed write discards the queue and is remembered.
WriterFails(o) ==
    /\ writing[o] /\ faults < MaxFaults
    /\ writing' = [writing EXCEPT ![o] = FALSE]
    /\ wstat' = [wstat EXCEPT ![o] = "failed"]
    /\ wq' = [wq EXCEPT ![o] = <<>>]
    /\ faults' = faults + 1
    /\ UNCHANGED <<host, wires, guard, file, opc, cur, died>>

Crash(o) ==
    /\ died[o] = "runs" /\ faults < MaxFaults
    /\ died' = [died EXCEPT ![o] = "crash"]
    /\ faults' = faults + 1
    /\ UNCHANGED <<host, wires, guard, file, wq, writing, wstat, opc, cur>>
-----------------------------------------------------------------------------
HostSteps ==
    \/ PeerLost \/ DrainFails
    \/ FetchSend \/ FetchSendFails \/ FetchResult
    \/ WarmDrained
    \/ BarrierSend \/ BarrierSendFails \/ BarrierAck
    \/ BeginSend
    \/ \E o \in Owners : WarmResult(o) \/ BeginReady(o)
WorkerSteps(o) == TakeBulk(o) \/ TakeBegin(o) \/ WriterDrained(o) \/ ReadReply(o)
WriterSteps(o) == WriterTakes(o) \/ WriterDone(o) \/ WriterFails(o)

PagesNext ==
    \/ \E n \in 1..2 : Publish(n)
    \/ PublishRefused
    \/ SenderSends \/ SenderFails
    \/ \E o \in Owners : \E blocks \in SUBSET Blocks : Fetch(o, blocks)
    \/ RingChunk \/ WarmDrain \/ Reset
    \/ HostSteps
    \/ \E o \in Owners : WorkerSteps(o) \/ WriterSteps(o) \/ Crash(o)

PagesSpec == PagesInit /\ [][PagesNext]_pagesVars

\* Threads that can run do run; the client's calls and the faults are not fair.
PagesFairness ==
    /\ WF_pagesVars(SenderSends \/ SenderFails) /\ WF_pagesVars(HostSteps)
    /\ \A o \in Owners : WF_pagesVars(WorkerSteps(o)) /\ WF_pagesVars(WriterTakes(o) \/ WriterDone(o))
PagesFairSpec == PagesSpec /\ PagesFairness
-----------------------------------------------------------------------------
\* Every variable keeps its type; the writer works only on a queued batch.
PagesTypeOK ==
    /\ session \in 1..MaxSession /\ front \in 0..PageLimit
    /\ transport \in {"ready", "pending", "poisoned"}
    /\ mask \subseteq Owners /\ warm \in Nat
    /\ \A o \in Owners :
         /\ appendSeq[o] \in 0..PageLimit /\ fetchSeq[o] \in 0..MaxFetch
         /\ Len(wq[o]) <= WriteDepth
         /\ writing[o] => wq[o] # <<>>
         /\ opc[o] \in {"poll", "drain", "read"}

\* A page rank 0 received, by a fetch or a warm, is the one this session
\* computed: never an old session's and never one still to be written.
FetchedIsCurrent == \A p \in got : p[3] = session

\* While the worker fills the scratch buffers for a fetch the writer thread,
\* which copies its batch into the same buffers, is idle.
ScratchExclusive == \A o \in Owners : died[o] = "runs" /\ opc[o] = "read" => ~writing[o]

\* No frame of one session meets the guard of another and no sequence slips: a
\* worker ends for a full queue, a failed disk or a crash, never for a frame
\* rank 0 sent in good order, although CONTROL can overtake BULK.
NoStaleRejection == \A o \in Owners : died[o] \notin {"stale", "incomplete"}

\* Every page published in this session is in the owner's file with this
\* session's records, or still on its way through queue, wire or writer.
InFlight(o) ==
    LET queued  == {queue[i].frame : i \in {j \in 1..Len(queue) : queue[j].owner = o}}
        onWire  == {bulk[o][i] : i \in {j \in 1..Len(bulk[o]) : bulk[o][j].kind = "append"}}
        written == {wq[o][i] : i \in 1..Len(wq[o])}
    IN (UNION {DOMAIN f.pages : f \in queued \cup onWire}) \cup (UNION {DOMAIN w : w \in written})
PublishedNotLost ==
    \A o \in Owners : (died[o] = "runs" /\ wstat[o] = "ok" /\ guard[o].nonce = session) =>
        \A b \in 0..(front - 1) : file[o][b] = session \/ b \in InFlight(o)

\* A new session's begin is accepted only when nothing of the old one is left
\* on the owner's BULK stream or in its writer, so its file starts empty.
BeginQuiet ==
    \A o \in Owners : guard'[o].nonce # guard[o].nonce =>
        /\ bulk[o] = <<>> /\ wq[o] = <<>>
        /\ \A i \in 1..Len(queue) : queue[i].owner # o
BeginsQuiet == [][BeginQuiet]_pagesVars

\* A fetch, a reset or a warm drain ends: with its answer or a poisoned transport.
Called == at.op \notin {"idle", "failed", "ring"}
Returned == at.op \in {"idle", "failed"}
CallsReturn == Called ~> Returned

\* Pages between rank 0 and the owners: what is fetched is current, scratch has
\* one user, no frame meets the guard of another session, nothing published is
\* lost.
PagesInv ==
    /\ PagesTypeOK
    /\ FetchedIsCurrent
    /\ ScratchExclusive
    /\ NoStaleRejection
    /\ PublishedNotLost

\* Those of every reachable state, and a session that begins finds nothing of
\* the one before: what the page service promises.
PagesSafe == []PagesInv /\ BeginsQuiet
=============================================================================

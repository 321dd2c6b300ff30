------------------------------ MODULE RingBlocks ------------------------------
(***************************************************************************)
(* Layer-ring prefill and decode (runtime.c).  The layers are split into   *)
(* contiguous blocks; rank 0 embeds a chunk and sends it to the owner of   *)
(* the first block, every owner runs its block and forwards the hidden     *)
(* state, and the last owner answers rank 0, which runs its own block when *)
(* the chain reaches it.  Prefill keeps up to Frames chunks in flight;     *)
(* decode moves one token at a time.  Sends block while the link is full,  *)
(* and no rank reads while it sends.                                       *)
(*                                                                         *)
(* A block's recurrent state is abstracted to its frontier, the number of  *)
(* tokens it has absorbed.  The QSA page traffic of the same calls is in   *)
(* QsaPages, the split output stage in OutputSplit.                        *)
(***************************************************************************)
EXTENDS Integers, Sequences, FiniteSets, FiniteSetsExt

CONSTANTS
    BlockOwner,  \* the block owners in layer order, e.g. <<1, 0, 2>>
    Frames,      \* FG_PREFILL_FRAMES
    Window,      \* the largest window of chunks in flight the budget allows
    Micro,       \* manifest->prefill_microbatch
    LinkCap,     \* frames a link buffers before a send blocks
    MaxTokens,   \* bound: context tokens
    MaxSession,  \* bound: sessions begun
    MaxFaults    \* bound: workers that end

\* What the constants of every instance satisfy.
RingAssumption ==
    /\ BlockOwner \in Seq(Nat) /\ BlockOwner # <<>>
    /\ BlockOwner[1] # 0 /\ BlockOwner[Len(BlockOwner)] # 0
    /\ \A i \in 1..(Len(BlockOwner) - 1) : BlockOwner[i] # BlockOwner[i + 1]
    /\ {Frames, Window, Micro, LinkCap, MaxTokens, MaxSession} \subseteq Nat \ {0}
    /\ Window <= Frames /\ MaxFaults \in Nat

Blocks    == 1..Len(BlockOwner)
RingRanks == {BlockOwner[b] : b \in Blocks} \cup {0}
Workers   == RingRanks \ {0}
Links     == {l \in RingRanks \X RingRanks : l[1] # l[2]}

VARIABLES
    call,      \* the call rank 0 is in: op, first token, token count, issued, aborted
    slot,      \* slots[FG_PREFILL_FRAMES] of the ring prefill
    chunk,     \* next_chunk
    prefilled, \* tokens of the call whose chain has completed
    pos,       \* state_frontier: tokens the session holds
    session,   \* coordinator->session_id
    transport, \* "ready", "pending", "poisoned"
    out,       \* rank 0's send under way
    ringDecode, \* coordinator->ring_decode, fixed when the runtime opens
    mirror,    \* rank 0's imported copy of each remote block's state
    frontier,  \* tokens each block's owner has absorbed
    link,      \* BULK stream of each ordered pair
    wsession,  \* sessions[] of each worker
    wout,      \* a worker's send under way
    died,      \* why a worker ended, "runs" until it does
    faults

rank0 == <<call, slot, chunk, prefilled, pos, session, transport, out, mirror,
          ringDecode>>
owners == <<frontier, link, wsession, wout, died, faults>>
blocksVars == <<rank0, owners>>

NoCall == [op |-> "idle", first |-> 0, count |-> 0, issued |-> 0, aborted |-> FALSE,
           left |-> {}]
Empty  == [active |-> FALSE, first |-> 0, count |-> 0]
Frame(kind, b, first, count) ==
    [kind |-> kind, block |-> b, first |-> first, count |-> count, session |-> session]

RingInit ==
    /\ call = NoCall /\ slot = [f \in 0..(Frames - 1) |-> Empty]
    /\ chunk = 0 /\ prefilled = 0 /\ pos = 0 /\ session = 1
    /\ transport = "ready" /\ out = <<>> /\ ringDecode \in BOOLEAN
    /\ mirror = [b \in Blocks |-> 0]
    /\ frontier = [b \in Blocks |-> 0]
    /\ link = [l \in Links |-> <<>>]
    /\ wsession = [r \in Workers |-> 1]
    /\ wout = [r \in Workers |-> <<>>]
    /\ died = [r \in Workers |-> "runs"]
    /\ faults = 0
-----------------------------------------------------------------------------
(* Rank 0. *)

InFlight == Cardinality({f \in DOMAIN slot : slot[f].active})
Free == out = <<>>
\* Rank 0 starts a send; it does nothing else until the link took the frame.
Sends(to, frame) == out' = <<to, frame>>

HostSent ==
    /\ out # <<>>
    /\ out[1] \in Workers => died[out[1]] = "runs"
    /\ LET l == <<0, out[1]>> IN
         /\ Len(link[l]) < LinkCap
         /\ link' = [link EXCEPT ![l] = Append(@, out[2])]
    /\ out' = <<>>
    /\ UNCHANGED <<call, slot, chunk, prefilled, pos, session, transport, mirror,
                   frontier, wsession, wout, died, faults, ringDecode>>

\* The call fails.  A pending transport stays unusable; a decode that never
\* marked it pending leads to the reset of a failed generation.
Fails(poison) ==
    /\ transport' = IF poison THEN "poisoned" ELSE transport
    /\ call' = [NoCall EXCEPT !.op = IF transport' = "ready" THEN "failed" ELSE "dead"]
    /\ out' = <<>>
    /\ UNCHANGED <<slot, chunk, prefilled, pos, session, mirror, owners, ringDecode>>

\* A request extends the session only if the owners hold its whole state.
Resumable == ringDecode \/ pos = 0

Prefill(n) ==
    /\ call.op = "idle" /\ Resumable
    /\ pos + n <= MaxTokens
    /\ call' = [NoCall EXCEPT !.op = "prefill", !.first = pos, !.count = n]
    /\ slot' = [f \in DOMAIN slot |-> Empty] /\ chunk' = 0 /\ prefilled' = 0
    /\ UNCHANGED <<pos, session, transport, out, mirror, owners, ringDecode>>

InPrefill == call.op = "prefill" /\ Free /\ prefilled < call.count
\* There is more to issue and the window is not full.
MayIssue(frames) == call.issued < call.count /\ InFlight < frames

\* The client has gone: nothing more is issued.
Interrupt ==
    /\ InPrefill /\ ~call.aborted /\ MayIssue(Window)
    /\ call' = [call EXCEPT !.aborted = TRUE]
    /\ UNCHANGED <<slot, chunk, prefilled, pos, session, transport, out, mirror,
                   owners, ringDecode>>

\* The slot the next chunk takes.
SlotOfChunk == chunk % Frames

\* The call ends on a frame or a slot that cannot be there.
Mismatch ==
    /\ call' = [NoCall EXCEPT !.op = "mismatch"]
    /\ UNCHANGED <<slot, chunk, prefilled, pos, session, transport, out, mirror,
                   owners, ringDecode>>

\* The next chunk enters the ring, unless its slot is still active.  The window
\* and the chunk shrink while the other session is active
\* (fg_pipeline_prefill_budget).
Issue(frames, tokens) ==
    /\ InPrefill /\ ~call.aborted /\ MayIssue(frames)
    /\ LET first == call.first + call.issued
           n == Min({tokens, call.count - call.issued})
           f == SlotOfChunk IN
         IF slot[f].active THEN Mismatch
         ELSE /\ slot' = [slot EXCEPT ![f] = [active |-> TRUE, first |-> first, count |-> n]]
              /\ Sends(BlockOwner[1], Frame("work", 1, first, n))
              /\ call' = [call EXCEPT !.issued = @ + n]
              /\ chunk' = chunk + 1
              /\ transport' = IF transport = "ready" THEN "pending" ELSE transport
              /\ UNCHANGED <<prefilled, pos, session, mirror, owners, ringDecode>>

\* Rank 0 reads instead of issuing: the window is full, all is issued, or the
\* request was aborted with chunks still in the ring.
Receiving == InPrefill /\ (InFlight > 0 \/ call.issued = call.count)

Arrived(p) == link[<<p, 0>>] # <<>>
Got(p) == Head(link[<<p, 0>>])
Take(p) == link' = [link EXCEPT ![<<p, 0>>] = Tail(@)]
Matching(m) == {f \in DOMAIN slot : slot[f].active /\ slot[f].first = m.first
                                                   /\ slot[f].count = m.count}

\* ring_slot_finish takes chunks in the order they were issued.
InOrder(m) == m.first = call.first + prefilled

\* Rank 0 runs its own block inline and forwards the chunk; a result of the
\* last owner completes the chunk; anything else fails the prefill.
ChainFrame(p) ==
    /\ Receiving /\ Arrived(p)
    /\ LET m == Got(p) IN
         CASE m.kind = "work" /\ m.session = session /\ Matching(m) # {} ->
                /\ frontier' = [frontier EXCEPT ![m.block] = m.first + m.count]
                /\ Sends(BlockOwner[m.block + 1], [m EXCEPT !.block = @ + 1])
                /\ Take(p)
                /\ UNCHANGED <<call, slot, chunk, prefilled, pos, session, transport,
                               mirror, wsession, wout, died, faults, ringDecode>>
           [] m.kind = "result" /\ m.session = session /\ p = BlockOwner[Len(BlockOwner)]
              /\ Matching(m) # {} /\ InOrder(m) ->
                /\ \E f \in Matching(m) : slot' = [slot EXCEPT ![f].active = FALSE]
                /\ prefilled' = prefilled + m.count
                /\ Take(p)
                /\ UNCHANGED <<call, chunk, pos, session, transport, out, mirror,
                               frontier, wsession, wout, died, faults, ringDecode>>
           [] OTHER -> Mismatch

\* Mutant: an aborted prefill returns with chunks still in the ring.
DrainedAnyway == call.aborted

\* An aborted prefill returns once nothing is in flight.
Drained == call.aborted /\ InFlight = 0

\* The prefill returns, complete or interrupted; a rank 0 that decodes alone
\* then imports the owners' states.
PrefillEnds ==
    /\ call.op = "prefill" /\ Free
    /\ (prefilled = call.count) \/ Drained
    /\ transport' = IF transport = "pending" THEN "ready" ELSE transport
    /\ pos' = call.first + prefilled
    /\ call' = [NoCall EXCEPT !.op = IF prefilled = call.count /\ ~ringDecode
                                     THEN "sync" ELSE "idle",
                            !.left = Blocks]
    /\ UNCHANGED <<slot, chunk, prefilled, session, out, mirror, owners, ringDecode>>

\* The blocks whose state rank 0 imports.
Remote == {b \in Blocks : BlockOwner[b] # 0}

\* coordinator_sync_gdn_state: one fetch per remote stateful layer, then the
\* results in arrival order.
SyncSend ==
    /\ call.op = "sync" /\ Free /\ call.left \cap Remote # {}
    /\ LET b == Min(call.left \cap Remote) IN
         /\ Sends(BlockOwner[b], Frame("fetch", b, pos, 0))
         /\ call' = [call EXCEPT !.left = @ \ {b}, !.issued = @ + 1]
    /\ UNCHANGED <<slot, chunk, prefilled, pos, session, transport, mirror, owners, ringDecode>>

SyncResult(p) ==
    /\ call.op = "sync" /\ Free /\ call.left \cap Remote = {} /\ Arrived(p)
    /\ LET m == Got(p) IN
         IF m.kind = "state" /\ m.session = session /\ m.first = pos
         THEN /\ mirror' = [mirror EXCEPT ![m.block] = m.count]
              /\ call' = IF call.issued = 1 THEN NoCall ELSE [call EXCEPT !.issued = @ - 1]
              /\ Take(p)
              /\ UNCHANGED <<slot, chunk, prefilled, pos, session, transport, out,
                             frontier, wsession, wout, died, faults, ringDecode>>
         ELSE Mismatch

\* Decode on rank 0 runs all layers on the mirror.
DecodeLocal ==
    /\ call.op = "idle" /\ ~ringDecode /\ pos > 0 /\ pos < MaxTokens
    /\ \A b \in Remote : mirror[b] = pos
    /\ mirror' = [b \in Blocks |-> IF b \in Remote THEN pos + 1 ELSE 0]
    /\ pos' = pos + 1
    /\ UNCHANGED <<call, slot, chunk, prefilled, session, transport, out, owners, ringDecode>>

\* coordinator_decode_token_ring
Decode ==
    /\ call.op = "idle" /\ ringDecode /\ pos > 0 /\ pos < MaxTokens
    /\ Sends(BlockOwner[1], Frame("decode", 1, pos, 1))
    /\ call' = [NoCall EXCEPT !.op = "decode", !.first = pos, !.count = 1]
    /\ UNCHANGED <<slot, chunk, prefilled, pos, session, transport, mirror, owners, ringDecode>>

\* The token comes to rank 0's own block, or its result does.
DecodeFrame(p) ==
    /\ call.op = "decode" /\ Free /\ Arrived(p)
    /\ LET m == Got(p)
           ours == m.session = session /\ m.first = call.first IN
         CASE ours /\ m.kind = "decode" ->
                /\ frontier' = [frontier EXCEPT ![m.block] = m.first + 1]
                /\ Sends(BlockOwner[m.block + 1], [m EXCEPT !.block = @ + 1])
                /\ Take(p)
                /\ UNCHANGED <<call, slot, chunk, prefilled, pos, session, transport,
                               mirror, wsession, wout, died, faults, ringDecode>>
           [] ours /\ m.kind = "token" ->
                /\ pos' = pos + 1
                /\ call' = NoCall
                /\ Take(p)
                /\ UNCHANGED <<slot, chunk, prefilled, session, transport, out, mirror,
                               frontier, wsession, wout, died, faults, ringDecode>>
           [] OTHER -> Mismatch

\* Rank 0's own block computed a non-finite hidden state: it is not forwarded.
DecodeNotFinite(p) ==
    /\ call.op = "decode" /\ Free /\ Arrived(p) /\ Got(p).kind = "decode"
    /\ faults < MaxFaults
    /\ faults' = faults + 1
    /\ call' = [NoCall EXCEPT !.op = "failed"]
    /\ Take(p)
    /\ UNCHANGED <<slot, chunk, prefilled, pos, session, transport, out, mirror,
                   frontier, wsession, wout, died, ringDecode>>

\* A new session.  Begin frames travel on CONTROL and may overtake BULK; a
\* worker takes one whenever it polls, and rank 0 waits for every answer.
Reset ==
    /\ call.op \in {"idle", "failed"} /\ transport = "ready" /\ session < MaxSession
    /\ pos > 0 \/ call.op = "failed"
    /\ session' = session + 1 /\ pos' = 0
    /\ mirror' = [b \in Blocks |-> 0]
    /\ frontier' = [b \in Blocks |-> IF BlockOwner[b] = 0 THEN 0 ELSE frontier[b]]
    /\ call' = [NoCall EXCEPT !.op = "begin", !.left = Workers]
    /\ UNCHANGED <<slot, chunk, prefilled, transport, out, link, wsession, wout,
                   died, faults, ringDecode>>

Begun ==
    /\ call.op = "begin" /\ call.left = {}
    /\ call' = NoCall
    /\ UNCHANGED <<slot, chunk, prefilled, pos, session, transport, out, mirror,
                   owners, ringDecode>>

\* Mutant: a peer that ends while rank 0 waits is not noticed.
LostNone == FALSE

\* A stream of a peer rank 0 needs has closed: its send or its read fails.
Lost == \E r \in Workers :
          /\ died[r] # "runs"
          /\ (out # <<>> /\ out[1] = r)
             \/ (out = <<>> /\ link[<<r, 0>>] = <<>>)
PeerLost ==
    /\ call.op \in {"prefill", "decode", "sync", "begin"} /\ Lost
    /\ call.op = "prefill" => out # <<>> \/ Receiving
    /\ Fails(call.op \in {"prefill", "begin"})

\* fg_pipeline_failed: a ring recovery takes the prefill down.
RingRecovery ==
    /\ InPrefill /\ faults < MaxFaults
    /\ faults' = faults + 1
    /\ transport' = "poisoned" /\ call' = [NoCall EXCEPT !.op = "dead"]
    /\ UNCHANGED <<slot, chunk, prefilled, pos, session, out, mirror,
                   frontier, link, wsession, wout, died, ringDecode>>
-----------------------------------------------------------------------------
(* Workers. *)

Polling(r) == died[r] = "runs" /\ wout[r] = <<>>
Ends(r, why) == died' = [died EXCEPT ![r] = why]
Next2(m) == IF m.block < Len(BlockOwner)
              THEN <<BlockOwner[m.block + 1], [m EXCEPT !.block = @ + 1]>>
              ELSE <<0, [m EXCEPT !.kind = IF @ = "work" THEN "result" ELSE "token"]>>

\* Layer work must be of the session, start one of the rank's blocks and
\* continue where that block's state ends.
Admits(r, m) ==
    m.session = wsession[r] /\ BlockOwner[m.block] = r /\ m.first = frontier[m.block]

\* handle_prefill_layer_work, handle_decode_layer_work: the whole block runs,
\* then the hidden state is sent on.
LayerWork(r, p) ==
    /\ Polling(r) /\ link[<<p, r>>] # <<>>
    /\ LET m == Head(link[<<p, r>>]) IN
         /\ m.kind \in {"work", "decode"} /\ Admits(r, m)
         /\ frontier' = [frontier EXCEPT ![m.block] = m.first + m.count]
         /\ wout' = [wout EXCEPT ![r] = Next2(m)]
    /\ link' = [link EXCEPT ![<<p, r>>] = Tail(@)]
    /\ UNCHANGED <<rank0, wsession, died, faults>>

\* Work it must not run ends the worker.
RefusesWork(r, p) ==
    /\ Polling(r) /\ link[<<p, r>>] # <<>>
    /\ LET m == Head(link[<<p, r>>]) IN
         \/ m.kind \in {"work", "decode"} /\ ~Admits(r, m)
         \/ m.kind = "fetch" /\ m.session # wsession[r]
    /\ Ends(r, "stale")
    /\ UNCHANGED <<rank0, frontier, link, wsession, wout, faults>>

\* handle_gdn_state_fetch answers with the state as it is; the frontier in the
\* answer is the one of the request.
StateFetch(r, p) ==
    /\ Polling(r) /\ link[<<p, r>>] # <<>>
    /\ LET m == Head(link[<<p, r>>]) IN
         /\ m.kind = "fetch" /\ m.session = wsession[r]
         /\ wout' = [wout EXCEPT ![r] =
              <<0, [m EXCEPT !.kind = "state", !.count = frontier[m.block]]>>]
    /\ link' = [link EXCEPT ![<<p, r>>] = Tail(@)]
    /\ UNCHANGED <<rank0, frontier, wsession, died, faults>>

WorkerSent(r) ==
    /\ died[r] = "runs" /\ wout[r] # <<>>
    /\ LET l == <<r, wout[r][1]>> IN
         /\ Len(link[l]) < LinkCap
         /\ l[2] \in Workers => died[l[2]] = "runs"
         /\ link' = [link EXCEPT ![l] = Append(@, wout[r][2])]
    /\ wout' = [wout EXCEPT ![r] = <<>>]
    /\ UNCHANGED <<rank0, frontier, wsession, died, faults>>

BeginAt(r) ==
    /\ Polling(r) /\ call.op = "begin" /\ r \in call.left
    /\ wsession' = [wsession EXCEPT ![r] = session]
    /\ frontier' = [b \in Blocks |-> IF BlockOwner[b] = r THEN 0 ELSE frontier[b]]
    /\ call' = [call EXCEPT !.left = @ \ {r}]
    /\ UNCHANGED <<slot, chunk, prefilled, pos, session, transport, out, mirror,
                   link, wout, died, faults, ringDecode>>

\* The worker crashes, or its block's output is not finite.
Crash(r) ==
    /\ died[r] = "runs" /\ faults < MaxFaults
    /\ faults' = faults + 1
    /\ Ends(r, "crash")
    /\ UNCHANGED <<rank0, frontier, link, wsession, wout>>

\* A peer's closed stream ends the worker, whether it polls or sends.
WorkerPeerLost(r) ==
    /\ died[r] = "runs"
    /\ \E q \in Workers \ {r} :
         /\ died[q] # "runs"
         /\ IF wout[r] = <<>> THEN link[<<q, r>>] = <<>> ELSE wout[r][1] = q
    /\ Ends(r, "peer")
    /\ UNCHANGED <<rank0, frontier, link, wsession, wout, faults>>
-----------------------------------------------------------------------------
\* Nothing more can be asked: the runtime must be reopened, a rank has ended, or
\* the bounds are reached.
RingOver ==
    /\ \/ call.op \in {"dead", "mismatch"} \/ \E r \in Workers : died[r] # "runs"
       \/ /\ call.op \in {"idle", "failed"}
          /\ transport # "ready" \/ session = MaxSession
    /\ UNCHANGED blocksVars

HostStep ==
    \/ HostSent \/ PrefillEnds \/ SyncSend \/ Begun \/ PeerLost
    \/ \E k \in 1..Window, t \in 1..Micro : Issue(k, t)
    \/ \E p \in Workers : ChainFrame(p) \/ SyncResult(p) \/ DecodeFrame(p)
WorkerStep(r) ==
    \/ WorkerSent(r) \/ BeginAt(r) \/ WorkerPeerLost(r)
    \/ \E p \in RingRanks \ {r} : LayerWork(r, p) \/ RefusesWork(r, p) \/ StateFetch(r, p)
Environment ==
    \/ \E n \in 1..MaxTokens : Prefill(n)
    \/ Decode \/ DecodeLocal \/ Reset \/ Interrupt \/ RingRecovery \/ RingOver
    \/ \E r \in Workers : Crash(r)
    \/ \E p \in Workers : DecodeNotFinite(p)

RingNext == HostStep \/ (\E r \in Workers : WorkerStep(r)) \/ Environment

\* Every rank's thread runs; the kernel delivers what was sent.
RingFairness == WF_blocksVars(HostStep) /\ \A r \in Workers : WF_blocksVars(WorkerStep(r))
RingSpec == RingInit /\ [][RingNext]_blocksVars
RingFairSpec == RingSpec /\ RingFairness
-----------------------------------------------------------------------------
(* Properties. *)

\* Types of the state, and rank 0 never has more chunks in the ring than the window.
RingTypeOK ==
    /\ call.op \in {"idle", "prefill", "decode", "sync", "begin", "failed", "dead", "mismatch"}
    /\ pos \in 0..MaxTokens /\ prefilled \in 0..MaxTokens
    /\ frontier \in [Blocks -> 0..MaxTokens] /\ mirror \in [Blocks -> 0..MaxTokens]
    /\ transport \in {"ready", "pending", "poisoned"}
    /\ \A l \in Links : Len(link[l]) <= LinkCap
    /\ InFlight <= Window

\* Between calls rank 0 and the owners hold the same tokens: after a complete
\* or an interrupted prefill, a decoded token or a new session, the frontier of
\* every block is the runtime's state_frontier (a rank 0 that decodes alone
\* keeps it in its mirror instead).
BlocksAgree ==
    call.op = "idle" /\ transport = "ready" =>
        \A b \in Blocks :
            IF ringDecode THEN frontier[b] = pos
            ELSE BlockOwner[b] # 0 =>
                   mirror[b] \in {0, pos} /\ (mirror[b] = 0 => frontier[b] = pos)

\* Between calls nothing is under way: no frame of a finished, interrupted or
\* failed call can reach the next one or the next session of a whole ring.
NothingLeft ==
    /\ call.op \in {"idle", "begin", "failed"} /\ transport = "ready"
    /\ \A r \in Workers : died[r] = "runs"
    => /\ \A l \in Links : link[l] = <<>>
       /\ \A r \in Workers : wout[r] = <<>>

\* No order of sends, window sizes, interrupts and resets makes a frame arrive
\* where its checks refuse it ("stale or misrouted ...", "out-of-order ring
\* completion", "ring slot is still active"), unless a rank of the ring has
\* crashed and the runtime must be reopened anyway.
NeverMisrouted ==
    call.op = "mismatch" \/ (\E r \in Workers : died[r] = "stale") =>
        \E r \in Workers : died[r] = "crash"

\* Between calls rank 0 and the owners hold the same tokens and nothing is under
\* way, and no order of sends, windows, interrupts and resets makes a frame
\* arrive where its checks refuse it.
BlocksInv == RingTypeOK /\ BlocksAgree /\ NothingLeft /\ NeverMisrouted

\* Rank 0 and a worker are never blocked sending to each other: with the
\* window within what the links and the worker between them hold, every send
\* of rank 0 finds a reader.
NoMutualBlock ==
    ~ \E r \in Workers :
        /\ out # <<>> /\ out[1] = r /\ Len(link[<<0, r>>]) = LinkCap
        /\ died[r] = "runs" /\ wout[r] # <<>> /\ wout[r][1] = 0 /\ Len(link[<<r, 0>>]) = LinkCap

\* Every call returns, with a result or an error, whoever fails meanwhile.
Called == call.op \in {"prefill", "decode", "sync", "begin"}
RingCallsReturn == Called ~> ~ Called
=============================================================================

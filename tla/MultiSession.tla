---------------------------- MODULE MultiSession ----------------------------
(***************************************************************************)
(* Two sessions through one ring: the cooperative pipeline                 *)
(* (src/src/pipeline.c), the engine loop that drives it and recovers the   *)
(* ring (api_pipeline_engine in src/src/api.c), and of the runtime what a  *)
(* job does between two yields: it issues prefill frames, waits for        *)
(* results, decodes, and keeps its transport state                         *)
(* (src/src/runtime.c).                                                    *)
(*                                                                         *)
(* Jobs are coroutines on one thread, so a turn is one action.  The ring   *)
(* is the FIFO of results the coordinator has asked for; the first         *)
(* `arrived' of them are in its socket.  A frame names its slot and, to    *)
(* tell incarnations apart, the request it was sent for.                   *)
(***************************************************************************)
EXTENDS Integers, Sequences, FiniteSets

CONSTANTS
    Requests,    \* bound: chat requests ever made, numbered 1..Requests
    Capacity,    \* FG_API_ENGINE_QUEUE_CAPACITY
    Chunks,      \* bound: prefill chunks of a request
    Tokens,      \* bound: decode steps of a request
    Alone, Both, Mixed,  \* prefill windows: FG_PREFILL_FRAMES for a single job,
                         \* prefill_only_frames, prefill_frames
    MaxOutages   \* bound: faults and disconnects that may happen

\* What the constants of every instance satisfy.
MultiSessionAssumption ==
    /\ {Requests, Capacity, Chunks, Tokens, Alone, Both, Mixed} \subseteq Nat \ {0}
    /\ MaxOutages \in Nat

VARIABLES
    request,      \* per request: "new", "queued", "running", "done", "refused"
    queue,        \* admission queue, oldest first
    slots,        \* pipeline->slots, with the job each runs
    next,         \* pipeline->next
    failed,       \* pipeline->failed
    transport,    \* per slot: "ready", "pending", "poisoned"
    wire, arrived, up,  \* the ring as the coordinator sees it
    recovering, epoch,  \* queue->recovering, queue->recovery_epoch
    rings,        \* rings connected so far after the first (history)
    stop,         \* api_stop_requested
    epc           \* engine: "turn", "admit", "ended" (as "admit", after a turn
                  \* that ended a job), "done"

pipeline == <<slots, next, failed, transport>>
ring     == <<wire, arrived, up>>
health   == <<recovering, epoch, rings>>
vars     == <<request, queue, pipeline, ring, health, stop, epc>>

Sessions == {0, 1}
Other(i) == 1 - i
Ids      == 1..Requests
NoId     == 0

\* A slot no job runs in.
Vacant ==
    [active |-> FALSE, waiting |-> FALSE, result |-> "ok", phase |-> "prefill",
     streaming |-> FALSE, id |-> NoId, ring |-> 0, todo |-> 0, flight |-> 0,
     left |-> 0, aborted |-> FALSE]

Init ==
    /\ request = [r \in Ids |-> "new"]
    /\ queue = <<>>
    /\ slots = [i \in Sessions |-> Vacant]
    /\ next = 0 /\ failed = FALSE
    /\ transport = [i \in Sessions |-> "ready"]
    /\ wire = <<>> /\ arrived = 0 /\ up = TRUE
    /\ recovering = FALSE /\ epoch = 0 /\ rings = 0
    /\ stop = FALSE
    /\ epc = "turn"
-----------------------------------------------------------------------------
(* The environment: clients, the workers, the link and the signal. *)

\* api_frontend_dispatch of a chat request: 503 while recovering, 429 when as
\* many requests are outstanding as the queue may hold, else admitted.
Submit(r) ==
    /\ epc # "done"
    /\ request[r] = "new" /\ (r > 1 => request[r - 1] # "new")
    /\ LET outstanding == Cardinality({q \in Ids : request[q] \in {"queued", "running"}})
           admitted == ~recovering /\ outstanding < Capacity
       IN  /\ request' = [request EXCEPT ![r] = IF admitted THEN "queued" ELSE "refused"]
           /\ queue' = IF admitted THEN Append(queue, r) ELSE queue
    /\ UNCHANGED <<pipeline, ring, health, stop, epc>>

\* The next result reaches the coordinator's socket.
Deliver ==
    /\ up /\ arrived < Len(wire)
    /\ arrived' = arrived + 1
    /\ UNCHANGED <<request, queue, pipeline, wire, up, health, stop, epc>>

\* A worker or a link is lost; results that arrived before can still be read.
Disconnect ==
    /\ up /\ epoch < MaxOutages /\ epc # "done"
    /\ up' = FALSE
    /\ wire' = SubSeq(wire, 1, arrived)
    /\ UNCHANGED <<request, queue, pipeline, arrived, health, stop, epc>>

Signal ==
    /\ ~stop
    /\ stop' = TRUE
    /\ UNCHANGED <<request, queue, pipeline, ring, health, epc>>
-----------------------------------------------------------------------------
(* The pipeline. *)

\* Mutant: a lost peer looks like an idle one.
PolledIdle(i) == IF arrived > 0 /\ Head(wire).slot = i THEN "frame" ELSE "none"

\* fg_fabric_poll_slot: only the frame at the head of the channel is seen.
Polled(i) ==
    IF arrived > 0 THEN IF Head(wire).slot = i THEN "frame" ELSE "none"
    ELSE IF up THEN "none" ELSE "error"

\* pipeline_ready.
Ready(i) == slots[i].active /\ (slots[i].waiting => Polled(i) # "none")

\* pipeline_ready leaves the slot resumable: a frame is consumed or the
\* receive has failed.
Consumes(i) == slots[i].waiting /\ Polled(i) = "frame"

Resumed(i) ==
    LET s == slots[i]
    IN  IF Consumes(i) THEN [s EXCEPT !.waiting = FALSE, !.result = "ok",
                                      !.flight = @ - 1]
        ELSE IF s.waiting THEN [s EXCEPT !.waiting = FALSE, !.result = "fault"]
        ELSE s

WireLeft(i) == IF Consumes(i) THEN Tail(wire) ELSE wire

\* Streaming decode, decode, prefill.
Level(i) == IF slots[i].phase = "decode" THEN IF slots[i].streaming THEN 0 ELSE 1
            ELSE 2

\* fg_pipeline_pick: by level, then from `next' on.
Rank(i) == 2 * Level(i) + (IF i = next THEN 0 ELSE 1)

Picked(i) ==
    /\ Ready(i) /\ Level(i) <= 2
    /\ \A j \in Sessions : Ready(j) => Rank(i) <= Rank(j)

\* fg_pipeline_prefill_budget, its window of frames.
Budget(i) ==
    IF ~slots[Other(i)].active THEN Alone
    ELSE IF slots[Other(i)].phase = "prefill" THEN IF Both < Alone THEN Both ELSE Alone
    ELSE IF Mixed < Alone THEN Mixed ELSE Alone

\* fg_pipeline_abort on a slot: a waiting receive returns the failure.
Aborted(s) ==
    IF s.active /\ s.waiting THEN [s EXCEPT !.waiting = FALSE, !.result = "fault"]
    ELSE s

\* The job of slot i leaves its turn as `s' with transport state `t', having
\* sent the frames `sent'.
Yields(i, s, t, sent) ==
    /\ slots' = [slots EXCEPT ![i] = s]
    /\ transport' = [transport EXCEPT ![i] = t]
    /\ wire' = WireLeft(i) \o sent
    /\ arrived' = IF Consumes(i) THEN arrived - 1 ELSE arrived
    /\ next' = Other(i)
    /\ epc' = "admit"

Frame(i) == [slot |-> i, id |-> slots[i].id]

\* The recovery epoch advances once per outage.
Outages == IF failed THEN epoch ELSE epoch + 1

\* Mutant: the state of the ended job's transport is not looked at.
StatusOnly(faulted, t) == faulted

\* What api_pipeline_engine takes for a fault: a failed job, or a transaction
\* on the ring that did not complete.
Incomplete(faulted, t) == faulted \/ t # "ready"

\* The job of slot i ends.  A fault aborts the pipeline.
Ends(i, faulted, t) ==
    /\ request' = [request EXCEPT ![slots[i].id] = "done"]
    /\ transport' = [transport EXCEPT ![i] = t]
    /\ wire' = WireLeft(i)
    /\ arrived' = IF Consumes(i) THEN arrived - 1 ELSE arrived
    /\ next' = Other(i)
    /\ epc' = "ended"
    /\ IF Incomplete(faulted, t)
       THEN /\ epoch' = Outages
            /\ recovering' = TRUE
            /\ failed' = TRUE
            /\ slots' = [j \in Sessions |->
                           IF j = i THEN Vacant
                           ELSE IF failed THEN slots[j] ELSE Aborted(slots[j])]
       ELSE /\ slots' = [slots EXCEPT ![i] = Vacant]
            /\ UNCHANGED <<failed, recovering, epoch>>
-----------------------------------------------------------------------------
(* The turns of a job. *)

Turn(i) == epc = "turn" /\ Picked(i)

\* The job goes on: its receive succeeded and the pipeline has not failed.
GoesOn(i) == Turn(i) /\ Resumed(i).result = "ok" /\ ~failed

Prefilling(i) == Resumed(i).phase = "prefill"

MayIssue(i) == Prefilling(i) /\ Resumed(i).todo > 0 /\ Resumed(i).flight < Budget(i)

\* The ring prefill issues a chunk and yields at the checkpoint.
JobIssue(i) ==
    /\ GoesOn(i) /\ MayIssue(i) /\ ~Resumed(i).aborted
    /\ Yields(i, [Resumed(i) EXCEPT !.todo = @ - 1, !.flight = @ + 1],
              IF transport[i] = "ready" THEN "pending" ELSE transport[i],
              IF up THEN <<Frame(i)>> ELSE <<>>)
    /\ UNCHANGED <<request, queue, failed, up, health, stop>>

\* It waits for a result: the window is full, everything is issued, or the
\* request was interrupted, which is only noticed where it could issue.
JobAwait(i) ==
    /\ GoesOn(i) /\ Prefilling(i) /\ Resumed(i).flight > 0
    /\ \E aborted \in BOOLEAN :
          /\ Resumed(i).aborted => aborted
          /\ aborted # Resumed(i).aborted => MayIssue(i)
          /\ MayIssue(i) => aborted
          /\ Yields(i, [Resumed(i) EXCEPT !.waiting = TRUE, !.aborted = aborted],
                    transport[i], <<>>)
    /\ UNCHANGED <<request, queue, failed, up, health, stop>>

\* transport_complete: pending becomes ready, a poisoned transport stays.
Completed(i) == IF transport[i] = "pending" THEN "ready" ELSE transport[i]

\* Interrupted with nothing in flight, in prefill or between two tokens.  A job
\* that has not begun may end so while the pipeline unwinds.
JobInterrupted(i) ==
    /\ Turn(i) /\ Resumed(i).result = "ok" /\ Resumed(i).flight = 0
    /\ \/ Prefilling(i) /\ Resumed(i).todo > 0
       \/ ~Prefilling(i)
    /\ Ends(i, FALSE, Completed(i))
    /\ UNCHANGED <<queue, up, rings, stop>>

\* The prefill, or a token, is complete: the next token's frame goes out and the
\* job waits for its result.
JobDecode(i) ==
    /\ GoesOn(i) /\ Resumed(i).flight = 0 /\ Resumed(i).left > 0
    /\ Prefilling(i) => Resumed(i).todo = 0
    /\ \E streaming \in BOOLEAN :
          /\ ~Prefilling(i) => streaming = Resumed(i).streaming
          /\ Yields(i, [Resumed(i) EXCEPT !.phase = "decode", !.waiting = TRUE,
                           !.streaming = streaming, !.left = @ - 1, !.flight = 1],
                    IF Completed(i) = "ready" THEN "pending" ELSE Completed(i),
                    IF up THEN <<Frame(i)>> ELSE <<>>)
    /\ UNCHANGED <<request, queue, failed, up, health, stop>>

JobDone(i) ==
    /\ GoesOn(i) /\ ~Prefilling(i) /\ Resumed(i).flight = 0 /\ Resumed(i).left = 0
    /\ Ends(i, FALSE, Completed(i))
    /\ UNCHANGED <<queue, up, rings, stop>>

\* The job fails: its receive failed, the pipeline has failed, or something of
\* its own went wrong.  What it had in flight is abandoned.
JobFault(i) ==
    /\ Turn(i)
    /\ Resumed(i).result = "fault" \/ failed \/ epoch < MaxOutages
    /\ Ends(i, TRUE, "poisoned")
    /\ UNCHANGED <<queue, up, rings, stop>>

\* An interrupted or failed generation may be answered as a success although
\* frames are still in flight: only the transport tells.
JobLeaves(i) ==
    /\ Turn(i) /\ Resumed(i).flight > 0 /\ epoch < MaxOutages
    /\ Ends(i, FALSE, "poisoned")
    /\ UNCHANGED <<queue, up, rings, stop>>
-----------------------------------------------------------------------------
(* The engine loop. *)

AfterTurn == epc \in {"admit", "ended"}

\* The idle probe finds the ring disconnected.
EngineProbe ==
    /\ epc = "turn" /\ ~failed /\ ~up
    /\ \A i \in Sessions : ~slots[i].active
    /\ epoch' = epoch + 1
    /\ recovering' = TRUE
    /\ failed' = TRUE
    /\ epc' = "admit"
    /\ UNCHANGED <<request, queue, slots, next, transport, ring, rings, stop>>

\* No job is ready.
EngineWaits ==
    /\ epc = "turn" /\ \A i \in Sessions : ~Picked(i)
    /\ epc' = "admit"
    /\ UNCHANGED <<request, queue, pipeline, ring, health, stop>>

Quiet == \A i \in Sessions : ~slots[i].active

\* Jobs are still unwinding.
EngineUnwinds ==
    /\ AfterTurn /\ failed /\ ~Quiet
    /\ epc' = "turn"
    /\ UNCHANGED <<request, queue, pipeline, ring, health, stop>>

\* fg_runtime_reconnect succeeds and the pipeline is initialised again.
EngineReconnect ==
    /\ AfterTurn /\ failed /\ Quiet
    /\ wire' = <<>> /\ arrived' = 0 /\ up' = TRUE
    /\ transport' = [i \in Sessions |-> "ready"]
    /\ next' = 0 /\ failed' = FALSE
    /\ recovering' = FALSE /\ rings' = rings + 1
    /\ epc' = "turn"
    /\ UNCHANGED <<request, queue, slots, epoch, stop>>

\* It does not, and the server is stopping; otherwise it is tried again.
EngineGivesUp ==
    /\ AfterTurn /\ failed /\ Quiet /\ stop
    /\ epc' = "done"
    /\ UNCHANGED <<request, queue, pipeline, ring, health, stop>>

\* A queued request is given to a free slot.  Which request and which slot is
\* the router's choice (api_session_select).
EngineAdmit ==
    /\ AfterTurn /\ ~failed /\ ~stop
    /\ \E q \in DOMAIN queue : \E i \in Sessions :
          /\ ~slots[i].active
          /\ slots' = [slots EXCEPT ![i] =
                [Vacant EXCEPT !.active = TRUE, !.id = queue[q], !.ring = rings,
                               !.todo = Chunks, !.left = Tokens]]
          /\ request' = [request EXCEPT ![queue[q]] = "running"]
          /\ queue' = SubSeq(queue, 1, q - 1) \o SubSeq(queue, q + 1, Len(queue))
    /\ epc' = "turn"
    /\ UNCHANGED <<next, failed, transport, ring, health, stop>>

\* Nothing can be admitted: no request, no free slot, or the router defers
\* every request to a slot that is busy.
EngineAdmitsNone ==
    /\ AfterTurn /\ ~failed
    /\ stop \/ queue = <<>> \/ ~Quiet
    /\ ~(stop /\ Quiet /\ epc = "admit")
    /\ epc' = "turn"
    /\ UNCHANGED <<request, queue, pipeline, ring, health, stop>>

\* The server is stopping and no job ran in this pass.
EngineStops ==
    /\ epc = "admit" /\ ~failed /\ stop /\ Quiet
    /\ epc' = "done"
    /\ UNCHANGED <<request, queue, pipeline, ring, health, stop>>
-----------------------------------------------------------------------------
JobNext(i) ==
    \/ JobIssue(i) \/ JobAwait(i) \/ JobInterrupted(i) \/ JobDecode(i) \/ JobDone(i)
    \/ JobFault(i) \/ JobLeaves(i)

EngineNext ==
    \/ EngineProbe \/ EngineWaits \/ EngineUnwinds \/ EngineReconnect
    \/ EngineGivesUp \/ EngineAdmit \/ EngineAdmitsNone \/ EngineStops
    \/ \E i \in Sessions : JobNext(i)

Next ==
    \/ EngineNext
    \/ (\E r \in Ids : Submit(r)) \/ Deliver \/ Disconnect \/ Signal

\* The engine thread runs on, the workers answer while the ring is up, and the
\* ring can be reconnected.
Fairness == WF_vars(EngineNext) /\ WF_vars(Deliver)

Spec == Init /\ [][Next]_vars /\ Fairness
-----------------------------------------------------------------------------
(* Properties. *)

\* Every field keeps its type; no job has more frames in flight than the widest
\* window (fg_pipeline_prefill_budget) and no outage beyond the bound is counted.
TypeOK ==
    /\ request \in [Ids -> {"new", "queued", "running", "done", "refused"}]
    /\ queue \in Seq(Ids)
    /\ slots \in [Sessions ->
          [active : BOOLEAN, waiting : BOOLEAN, result : {"ok", "fault"},
           phase : {"prefill", "decode"}, streaming : BOOLEAN,
           id : Ids \cup {NoId}, ring : 0..MaxOutages, todo : 0..Chunks,
           flight : 0..Alone, left : 0..Tokens, aborted : BOOLEAN]]
    /\ next \in Sessions
    /\ transport \in [Sessions -> {"ready", "pending", "poisoned"}]
    /\ wire \in Seq([slot : Sessions, id : Ids])
    /\ arrived \in 0..Len(wire)
    /\ {failed, up, recovering, stop} \subseteq BOOLEAN
    /\ epoch \in 0..MaxOutages /\ rings \in 0..MaxOutages
    /\ epc \in {"turn", "admit", "ended", "done"}

\* Frames of slot i the coordinator has not read.
Unread(i) == {n \in DOMAIN wire : wire[n].slot = i}

\* No job inherits another's frames: while the pipeline has not failed, every
\* unread frame belongs to the request its slot is running, and a running job
\* whose ring is up has as many unread frames as it counts in flight.
NoInheritedFrames ==
    ~failed =>
      /\ \A n \in DOMAIN wire : LET s == slots[wire[n].slot]
                                IN  s.active /\ s.id = wire[n].id
      /\ up => \A i \in Sessions : Cardinality(Unread(i)) = slots[i].flight

\* A job never outlives its ring: recovery replaces the ring only when both
\* jobs have unwound.
JobsStayOnTheirRing == \A i \in Sessions : slots[i].active => slots[i].ring = rings

\* The recovery epoch that /health reports counts outages: one per ring lost,
\* however many jobs fail in it, and `recovering' is up exactly in between.
EpochCountsOutages ==
    /\ recovering = failed
    /\ epoch = rings + (IF failed THEN 1 ELSE 0)

\* A slot without a job has a transport the next job can use, unless the ring
\* is about to be replaced.
IdleTransportReady ==
    ~failed => \A i \in Sessions : ~slots[i].active => transport[i] = "ready"

\* Every admitted request ends, whatever fails, unless the server stops before
\* it is started.
AdmittedEnds ==
    \A r \in Ids : request[r] = "queued" ~> (request[r] = "done" \/ stop)

\* A request that runs ends even if the server stops.
RunningEnds == \A r \in Ids : request[r] = "running" ~> request[r] = "done"

\* The ring is recovered, or the server ends.
RingRecovers == recovering ~> (~recovering \/ epc = "done")

\* What two jobs on one ring rely on: each reads only its own frames, the ring is
\* not replaced under it, the epoch names the outage, and an idle slot can be used.
PipelineInv ==
    /\ TypeOK
    /\ NoInheritedFrames
    /\ JobsStayOnTheirRing
    /\ EpochCountsOutages
    /\ IdleTransportReady
=============================================================================

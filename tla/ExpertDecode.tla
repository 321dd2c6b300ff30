---------------------------- MODULE ExpertDecode ----------------------------
(***************************************************************************)
(* Decode of one token layer by layer with the routed experts behind a     *)
(* fire/collect pair (decode_layer_begin_impl and decode_layer_finish_impl,*)
(* src/src/owner.c).  Two users:                                           *)
(*   parallel  coordinator_decode_token_local: the coordinator runs every  *)
(*             layer, fire_experts sends DECODE_WORK to the ranks that own *)
(*             the selected experts, collect_experts computes the local    *)
(*             ones and receives the results in arrival order;             *)
(*   sealed    fg_owner_decode_block: one rank owns every expert of its    *)
(*             block, worker_decode_experts submits the expert graph and   *)
(*             worker_decode_collect reads it back after the shared batch. *)
(* A layer's last residual write is deferred into the next layer's batch.  *)
(*                                                                         *)
(* A hidden state is [run, at]: the attempt it belongs to and the part of  *)
(* the layer stack it must pass next (3l: PLE of layer 1, 3l+1 attention,  *)
(* 3l+2 experts).  A result is the fire it answers.  Kernels and the route *)
(* chosen from the router logits are free.                                 *)
(***************************************************************************)
EXTENDS Integers, Sequences, FiniteSets, FiniteSetsExt

CONSTANTS Workers,      \* the ranks other than the coordinator, 0
          Modes,        \* subset of {"parallel", "sealed"}
          Profiles,     \* values of fg_vk_profile_active
          LayerCount,   \* FG_LAYER_COUNT
          FirstLayer, LastLayer,  \* the sealed rank's block
          MaxToken,     \* bound: tokens decoded in one session
          MaxFaults     \* bound: device, worker and link faults

\* What the constants of every instance satisfy.
ExpertAssumption ==
    /\ Workers \subseteq Nat \ {0} /\ IsFiniteSet(Workers)
    /\ Modes \subseteq {"parallel", "sealed"} /\ Profiles \subseteq BOOLEAN
    /\ {LayerCount, FirstLayer, LastLayer, MaxToken, MaxFaults} \subseteq Nat
    /\ FirstLayer <= LastLayer /\ LastLayer < LayerCount

VARIABLES tr,     \* transport_state
          ctx,    \* async_expert_context
          work,   \* worker -> DECODE_WORK frames on its control link
          res,    \* worker -> EXPERT_RESULT frames on its bulk link
          alive,  \* workers whose process runs
          wsess,  \* worker -> session_id
          pend,   \* decode_slots[0].pending_write
          mem,    \* tensor -> hidden state
          gpu,    \* expert_fence_pending, the graph on the queue, reduced
          disp,   \* worker_decode_dispatch
          host    \* the thread that decodes

vars == <<tr, ctx, work, res, alive, wsess, pend, mem, gpu, disp, host>>
links == <<work, res, alive, wsess>>

Ranks == {0} \cup Workers
First == IF host.mode = "sealed" THEN FirstLayer ELSE 0
Final == IF host.mode = "sealed" THEN LastLayer ELSE LayerCount - 1
Entry(l) == 3 * l + (IF l = 1 THEN 0 ELSE 1)
Hidden(at) == [run |-> host.run, at |-> at]
Bad == [run |-> 0, at |-> 0]
NoWrite == [active |-> FALSE, skip |-> FALSE, layer |-> 0, tok |-> 0, hyper |-> "in", out |-> "in"]
NoRoute == [req |-> 0, seq |-> 0, n |-> 0, routes |-> {}, left |-> {}, expected |-> {}, seen |-> {},
            remote |-> 0, received |-> 0, failed |-> FALSE, discard |-> FALSE]
NoGraph == [pending |-> FALSE, queued |-> 0, reduced |-> 0]

Init == /\ tr = "READY" /\ ctx = NoRoute
        /\ work = [w \in Workers |-> <<>>] /\ res = [w \in Workers |-> <<>>]
        /\ alive = Workers /\ wsess = [w \in Workers |-> 1]
        /\ pend = NoWrite /\ mem = [t \in {"in", "A", "B"} |-> Bad]
        /\ gpu = NoGraph /\ disp = [pending |-> FALSE, results |-> <<>>]
        /\ \E m \in Modes, p \in Profiles :
             host = [pc |-> "idle", mode |-> m, profile |-> p, req |-> 1, run |-> 0, fires |-> 0,
                     tok |-> 0, layer |-> 0, status |-> "ok", residual |-> "in", cur |-> "in",
                     got |-> {}, moe |-> {}, hit |-> FALSE, faults |-> MaxFaults]

Goto(p) == host' = [host EXCEPT !.pc = p]
Faulty == host.faults > 0
Hit(h) == [h EXCEPT !.faults = @ - 1, !.hit = TRUE, !.status = "err"]

(***************************************************************************)
(* The transport state: three atomic cells, poison is final.               *)
(***************************************************************************)
Pending(s) == IF s = "READY" THEN "PENDING" ELSE s
Complete(s) == IF s = "PENDING" THEN "READY" ELSE s

(***************************************************************************)
(* One token: coordinator_decode_token_local, fg_owner_decode_block.       *)
(***************************************************************************)
\* The block form drops a pending write of an earlier token and seeds the
\* deferred chain with a skip marker when it has no predecessor layer.
Seeded == IF host.mode = "parallel" THEN pend
          ELSE IF First = 0 THEN NoWrite
          ELSE [NoWrite EXCEPT !.active = TRUE, !.skip = TRUE, !.layer = First - 1, !.tok = host.tok]

StartToken ==
  /\ host.pc = "idle" /\ host.tok < MaxToken /\ tr = "READY"
  /\ host' = [host EXCEPT !.pc = "begin", !.run = @ + 1, !.layer = First, !.status = "ok",
                          !.cur = "in", !.hit = FALSE, !.moe = {}]
  /\ mem' = [mem EXCEPT !["in"] = [run |-> host.run + 1, at |-> Entry(First)]]
  /\ pend' = Seeded
  /\ disp' = [pending |-> FALSE, results |-> <<>>]
  /\ UNCHANGED <<tr, ctx, links, gpu>>

\* A begin whose predecessor's write is not the pending one is refused.
WriteMatches == IF host.layer = 0 THEN ~pend.active
                ELSE /\ pend.active /\ pend.layer + 1 = host.layer
                     /\ pend.tok = host.tok /\ pend.out = host.cur

Step(m, from, to, at) == [m EXCEPT ![to] = IF m[from] = Hidden(at) THEN Hidden(at + 1) ELSE Bad]

\* flush_gr_write: the residual write of the layer before, now, from the
\* tensors it was deferred with; the experts' sum must be that layer's.
MoeExact == host.moe # {} /\ host.moe = {<<r, ctx.n>> : r \in ctx.routes}
\* Mutant: the reset keeps the deferred write, as fg_owner_reset_session does.
ResetWriteKept == pend

Flushed == IF pend.skip \/ ~pend.active THEN mem
           ELSE [mem EXCEPT ![pend.out] =
                   IF mem[pend.hyper] = Hidden(3 * pend.layer + 2) /\ MoeExact
                   THEN Hidden(Entry(pend.layer + 1)) ELSE Bad]
Other(t) == IF t # "A" THEN "A" ELSE "B"

\* Batch 1: the deferred write, PLE before layer 1, attention with its
\* residual write, and the router.
BatchOne(m) ==
  LET ple == IF host.layer = 1 THEN Step(m, host.cur, Other(host.cur), 3) ELSE m
      in == IF host.layer = 1 THEN Other(host.cur) ELSE host.cur
  IN  [mem |-> Step(ple, in, Other(in), 3 * host.layer + 1), residual |-> Other(in)]

BeginLayer ==
  /\ host.pc = "begin" /\ WriteMatches
  /\ LET b == BatchOne(Flushed)
     IN  /\ mem' = b.mem
         /\ host' = [host EXCEPT !.pc = "fire", !.residual = b.residual, !.moe = {}, !.got = {}]
  /\ pend' = NoWrite
  /\ UNCHANGED <<tr, ctx, links, gpu, disp>>

\* A begin that is refused, or whose batch fails: before the deferred write
\* is recorded it stays pending, after that it is gone.
BeginFails ==
  /\ host.pc = "begin"
  /\ \/ ~WriteMatches /\ host' = [host EXCEPT !.pc = "failed", !.status = "err"] /\ UNCHANGED pend
     \/ /\ Faulty /\ WriteMatches
        /\ host' = [Hit(host) EXCEPT !.pc = "failed"]
        /\ pend' \in IF host.mode = "sealed" THEN {NoWrite} ELSE {pend, NoWrite}
  /\ UNCHANGED <<tr, ctx, links, mem, gpu, disp>>

(***************************************************************************)
(* fire_experts                                                            *)
(***************************************************************************)
Sequence == host.tok * LayerCount + host.layer

\* The selected experts are partitioned into one route per rank.
Partition(routes) ==
  [NoRoute EXCEPT !.req = host.req, !.seq = Sequence, !.n = host.fires + 1, !.routes = routes,
                  !.left = routes \ {0}]

FireRoutes ==
  /\ host.pc = "fire" /\ host.mode = "parallel"
  /\ \E routes \in (SUBSET Ranks) \ {{}} : ctx' = Partition(routes)
  /\ host' = [host EXCEPT !.pc = "send", !.fires = @ + 1]
  /\ UNCHANGED <<tr, links, pend, mem, gpu, disp>>

\* fg_partition_route refuses a gate that is not finite.
FireRefused ==
  /\ host.pc = "fire" /\ host.mode = "parallel" /\ Faulty
  /\ ctx' = [Partition({}) EXCEPT !.discard = TRUE]
  /\ host' = [Hit(host) EXCEPT !.pc = "local", !.fires = @ + 1]
  /\ UNCHANGED <<tr, links, pend, mem, gpu, disp>>

\* What a successful send records: one more result is due.
Sent(r) == [ctx EXCEPT !.left = @ \ {r}, !.remote = @ + 1, !.expected = @ \cup {r}]

\* A frame to a worker that has ended is accepted by the socket and lost.
Send ==
  /\ host.pc = "send" /\ ctx.left # {}
  /\ \E r \in ctx.left :
       /\ ctx' = Sent(r)
       /\ work' = IF r \in alive
                  THEN [work EXCEPT ![r] = Append(@, [req |-> ctx.req, seq |-> ctx.seq, n |-> ctx.n])]
                  ELSE work
  /\ tr' = Pending(tr)
  /\ UNCHANGED <<res, alive, wsess, pend, mem, gpu, disp, host>>

SendFails ==
  /\ host.pc = "send" /\ ctx.left \ alive # {}
  /\ ctx' = [ctx EXCEPT !.failed = TRUE, !.discard = TRUE, !.left = {}]
  /\ tr' = "POISONED"
  /\ host' = [host EXCEPT !.pc = "local", !.status = "err"]
  /\ UNCHANGED <<links, pend, mem, gpu, disp>>

(***************************************************************************)
(* worker_decode_experts: fg_expert_decode_submit                          *)
(***************************************************************************)
\* With a profile the kernels run in a batch of their own and are done when
\* the submission returns; otherwise the fixed graph runs behind its fence.
GraphSubmit(n) == IF host.profile THEN [gpu EXCEPT !.reduced = n]
                  ELSE [gpu EXCEPT !.pending = TRUE, !.queued = n]
GraphFree == host.profile \/ ~gpu.pending

Submit ==
  /\ host.pc = "fire" /\ host.mode = "sealed"
  /\ ctx' = Partition({0})
  /\ \/ /\ GraphFree
        /\ gpu' = GraphSubmit(host.fires + 1)
        /\ disp' = [pending |-> TRUE, results |-> <<0>>]
        /\ host' = [host EXCEPT !.pc = "shared", !.fires = @ + 1]
     \/ /\ ~GraphFree \/ Faulty
        /\ disp' = [disp EXCEPT !.results = <<>>]
        /\ host' = IF GraphFree THEN [Hit(host) EXCEPT !.pc = "collect", !.fires = @ + 1]
                   ELSE [host EXCEPT !.pc = "collect", !.status = "err", !.fires = @ + 1]
        /\ UNCHANGED gpu
  /\ UNCHANGED <<tr, links, pend, mem>>

\* The device runs the submitted graph.
Graph == /\ gpu.queued > 0
         /\ gpu' = [gpu EXCEPT !.reduced = gpu.queued, !.queued = 0]
         /\ UNCHANGED <<tr, ctx, links, pend, mem, disp, host>>

(***************************************************************************)
(* The shared expert's batch; a failure drains what was fired.             *)
(***************************************************************************)
CollectPc == IF host.mode = "sealed" THEN "collect" ELSE "local"

Shared ==
  /\ \/ host.pc = "send" /\ ctx.left = {}
     \/ host.pc = "shared"
  /\ \/ host' = [host EXCEPT !.pc = CollectPc]
     \/ Faulty /\ host' = [Hit(host) EXCEPT !.pc = CollectPc]
  /\ UNCHANGED <<tr, ctx, links, pend, mem, gpu, disp>>

(***************************************************************************)
(* collect_experts                                                         *)
(***************************************************************************)
\* The local route first, unless the fire itself failed.
Local ==
  /\ host.pc = "local"
  /\ \/ /\ ~ctx.discard /\ 0 \in ctx.routes
        /\ \/ host' = [host EXCEPT !.pc = "receive", !.got = {<<0, ctx.n>>}]
           \/ Faulty /\ host' = [Hit(host) EXCEPT !.pc = "receive"]
     \/ (ctx.discard \/ 0 \notin ctx.routes) /\ Goto("receive")
  /\ UNCHANGED <<tr, ctx, links, pend, mem, gpu, disp>>

Accepted(peer, f) == /\ peer \in ctx.expected \ ctx.seen
                     /\ f.req = ctx.req /\ f.seq = ctx.seq

\* Results are due until as many frames arrived as were sent.
Due == ctx.received < ctx.remote

\* Mutant: a closed link is looked at again.
LinkLostAgain == UNCHANGED <<ctx, host, tr>>

\* A closed link ends the collection.
LinkLost ==
  /\ ctx' = [ctx EXCEPT !.failed = TRUE]
  /\ host' = [host EXCEPT !.pc = "finish", !.status = "err"]
  /\ tr' = "POISONED"

\* fg_fabric_recv_any takes the lowest rank with a frame or a closed link.
Receive ==
  /\ host.pc = "receive" /\ Due
  /\ LET ready == {w \in Workers : res[w] # <<>> \/ w \notin alive}
     IN  /\ ready # {}
         /\ LET peer == Min(ready)
            IN  \/ /\ res[peer] # <<>>
                   /\ LET f == Head(res[peer])
                          ok == Accepted(peer, f)
                      IN  /\ ctx' = [ctx EXCEPT !.received = @ + 1, !.failed = @ \/ ~ok,
                                                !.seen = IF ok THEN @ \cup {peer} ELSE @]
                          /\ host' = [host EXCEPT
                                !.status = IF ok THEN @ ELSE "err",
                                !.got = IF ok /\ host.status = "ok" THEN @ \cup {<<peer, f.n>>} ELSE @]
                   /\ res' = [res EXCEPT ![peer] = Tail(@)]
                   /\ UNCHANGED tr
                \/ res[peer] = <<>> /\ LinkLost /\ UNCHANGED res
  /\ UNCHANGED <<work, alive, wsess, pend, mem, gpu, disp>>

\* The transport is reusable only when every result due was taken.
Collected(s) == IF ~ctx.failed /\ ctx.seen = ctx.expected THEN Complete(s) ELSE "POISONED"

CollectEnd ==
  /\ host.pc = "receive" /\ ~Due
  /\ tr' = Collected(tr)
  /\ Goto("finish")
  /\ UNCHANGED <<ctx, links, pend, mem, gpu, disp>>

(***************************************************************************)
(* worker_decode_collect: fg_expert_decode_finish                          *)
(***************************************************************************)
\* The fence is waited for only while a graph is pending behind it.
GraphDone == gpu.pending => gpu.queued = 0
GraphCollected == [gpu EXCEPT !.pending = FALSE]

CollectGraph ==
  /\ host.pc = "collect"
  /\ disp.pending => GraphDone
  /\ gpu' = IF disp.pending THEN GraphCollected ELSE gpu
  /\ host' = [host EXCEPT !.pc = "finish",
                          !.got = {<<0, gpu.reduced>> : i \in 1 .. Len(disp.results)}]
  /\ disp' = [pending |-> FALSE, results |-> <<>>]
  /\ UNCHANGED <<tr, ctx, links, pend, mem>>

(***************************************************************************)
(* decode_layer_finish_impl: reduce, then defer or make the last write.    *)
(***************************************************************************)
\* fg_expert_results_validate_route.  Results are sums over a rank's experts,
\* so a rank that is missing altogether is not noticed here.
ResultsValid == /\ host.got # {}
                /\ \A g, h \in host.got : g[1] = h[1] => g = h

Finish ==
  /\ host.pc = "finish" /\ host.status = "ok" /\ ResultsValid
  /\ LET out == Other(host.residual)
         last == host.layer + 1 = LayerCount
     IN  /\ pend' = IF last THEN pend
                    ELSE [NoWrite EXCEPT !.active = TRUE, !.layer = host.layer, !.tok = host.tok,
                                         !.hyper = host.residual, !.out = out]
         /\ mem' = IF last
                   THEN [mem EXCEPT ![out] =
                           IF /\ mem[host.residual] = Hidden(3 * host.layer + 2)
                              /\ host.got = {<<r, ctx.n>> : r \in ctx.routes}
                           THEN Hidden(Entry(host.layer + 1)) ELSE Bad]
                   ELSE mem
         /\ host' = [host EXCEPT !.moe = host.got, !.cur = out,
                                 !.pc = IF host.layer = Final THEN "return" ELSE "begin",
                                 !.layer = IF host.layer = Final THEN @ ELSE @ + 1]
  /\ UNCHANGED <<tr, ctx, links, gpu, disp>>

FinishFails ==
  /\ host.pc = "finish" /\ (host.status = "err" \/ ~ResultsValid)
  /\ host' = [host EXCEPT !.pc = "failed", !.status = "err"]
  /\ UNCHANGED <<tr, ctx, links, pend, mem, gpu, disp>>

\* A block that ends before the last layer of the model makes its last
\* deferred write before it returns.
Return ==
  /\ host.pc = "return"
  /\ \/ /\ mem' = Flushed /\ pend' = NoWrite
        /\ Goto("output")
     \/ /\ Faulty /\ pend.active
        /\ host' = [Hit(host) EXCEPT !.pc = "failed"]
        /\ UNCHANGED <<mem, pend>>
  /\ UNCHANGED <<tr, ctx, links, gpu, disp>>

Output == /\ host.pc = "output"
          /\ host' = [host EXCEPT !.pc = "idle", !.tok = @ + 1]
          /\ UNCHANGED <<tr, ctx, links, pend, mem, gpu, disp>>

(***************************************************************************)
(* After a failed token: runtime_reset_state, when the transport allows.   *)
(***************************************************************************)
\* fg_owner_reset_state forgets every deferred write.
ResetWrite == NoWrite

Reset ==
  /\ host.pc = "failed" /\ tr = "READY" /\ alive = Workers
  /\ \A w \in Workers : work[w] = <<>>
  /\ pend' = ResetWrite
  /\ wsess' = [w \in Workers |-> host.req + 1]
  /\ host' = [host EXCEPT !.pc = "idle", !.req = @ + 1, !.tok = 0]
  /\ UNCHANGED <<tr, ctx, work, res, alive, mem, gpu, disp>>

\* Otherwise the runtime has to be opened again.
Stop ==
  /\ host.pc = "failed" /\ (tr # "READY" \/ alive # Workers)
  /\ Goto("stopped")
  /\ UNCHANGED <<tr, ctx, links, pend, mem, gpu, disp>>

(***************************************************************************)
(* handle_expert_work.  An error ends the worker.                          *)
(***************************************************************************)
Serve(w) ==
  /\ w \in alive /\ work[w] # <<>>
  /\ LET f == Head(work[w])
     IN  IF f.req = wsess[w]
         THEN /\ res' = [res EXCEPT ![w] = Append(@, f)]
              /\ work' = [work EXCEPT ![w] = Tail(@)]
              /\ UNCHANGED alive
         ELSE /\ alive' = alive \ {w}
              /\ work' = [work EXCEPT ![w] = <<>>]
              /\ UNCHANGED res
  /\ UNCHANGED <<tr, ctx, wsess, pend, mem, gpu, disp, host>>

\* A worker fails on a piece of work or ends by itself.
Die(w) ==
  /\ w \in alive /\ Faulty /\ host.mode = "parallel" /\ host.pc # "stopped"
  /\ alive' = alive \ {w}
  /\ work' = [work EXCEPT ![w] = <<>>]
  /\ host' = [host EXCEPT !.faults = @ - 1]
  /\ UNCHANGED <<tr, ctx, res, wsess, pend, mem, gpu, disp>>

Over == /\ \/ host.pc = "stopped"
           \/ host.pc = "idle" /\ host.tok = MaxToken
        /\ UNCHANGED vars

Decode == \/ StartToken \/ BeginLayer \/ BeginFails \/ FireRoutes \/ FireRefused \/ Send \/ SendFails
          \/ Submit \/ Shared \/ Local \/ Receive \/ CollectEnd \/ CollectGraph \/ Finish
          \/ FinishFails \/ Return \/ Output \/ Reset \/ Stop

Next == \/ Decode \/ Graph \/ Over
        \/ \E w \in Workers : Serve(w) \/ Die(w)

Fairness == WF_vars(Decode) /\ WF_vars(Graph) /\ \A w \in Workers : WF_vars(Serve(w))

Spec == Init /\ [][Next]_vars
LiveSpec == Spec /\ Fairness

-----------------------------------------------------------------------------
\* Types; no layer ever owes more results than there are workers.
TypeOK ==
  /\ tr \in {"READY", "PENDING", "POISONED"}
  /\ ctx.routes \subseteq Ranks /\ ctx.expected \subseteq Workers /\ ctx.seen \subseteq ctx.expected
  /\ ctx.remote \in 0 .. Cardinality(Workers) /\ ctx.received \in 0 .. ctx.remote
  /\ alive \subseteq Workers /\ DOMAIN mem = {"in", "A", "B"}
  /\ \A w \in Workers : Len(work[w]) + Len(res[w]) <= 1
  /\ host.status \in {"ok", "err"} /\ host.faults \in 0 .. MaxFaults

\* collect_experts, moe_reduce_into: a layer that is reduced sums exactly one
\* result of every rank its experts were routed to, each computed for this
\* very fire and not for an earlier token, layer or attempt.
ReductionExact ==
  host.moe # {} => host.moe = {<<r, ctx.n>> : r \in ctx.routes}

\* fire_experts, collect_experts and the drain in decode_layer_begin_impl: when
\* a token ends, with or without an error, and the transport is called READY,
\* no work is queued at a worker and no result is left on a link for the next
\* session to read; likewise no expert graph runs.
QuietWhenReady ==
  host.pc \in {"idle", "failed"} /\ tr = "READY" =>
    /\ \A w \in Workers : res[w] = <<>> /\ work[w] = <<>>
    /\ ~gpu.pending /\ gpu.queued = 0

\* defer_gr_write, flush_gr_write, fg_owner_decode_block: the tensor a token
\* returns holds its hidden state after every layer of the block, each write
\* made once and in order, also when earlier tokens failed half-way.
OutputExact == host.pc = "output" => mem[host.cur] = Hidden(Entry(Final + 1))

\* A token fails only for a fault of its own or a dead worker: what a failed
\* token left behind (a deferred write, a fence, a result) never fails a later one.
NoInheritedFailure == host.status = "err" => host.hit \/ alive # Workers

\* The coordinator never waits for ever in collect_experts or for the graph:
\* every token ends, also when workers die or a step fails.
Ended == host.pc \in {"idle", "failed", "stopped"}
AlwaysReturns == host.pc = "begin" ~> Ended

\* What a token computes and what it leaves to the next one, also when it failed.
TokenInv ==
  /\ TypeOK
  /\ ReductionExact
  /\ QuietWhenReady
  /\ OutputExact
  /\ NoInheritedFailure
=============================================================================

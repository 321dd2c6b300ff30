---------------------------- MODULE StaticReplay ----------------------------
(***************************************************************************)
(* The chained decode block of one rank (fg_owner_decode_block_chained,    *)
(* src/src/owner.c) on the Vulkan command layer it drives (fg_vk_begin,    *)
(* fg_vk_flush, fg_vk_end, fg_vk_abort, fg_vk_static_* and                 *)
(* fg_vk_submit_group_*, src/src/vk.c).  Layers l with l % 4 = 3 are QSA   *)
(* layers and recorded for every token; every run of other layers is       *)
(* recorded once per session and replayed.  The host records ahead of the  *)
(* device: submissions are ordered only by the binary semaphores           *)
(* vk_submit_attach passes on, command buffers and fences are reused, and  *)
(* a submission reads its descriptor sets when it executes.                *)
(*                                                                         *)
(* A run of layers, or a part of a QSA layer, is one dispatch with one     *)
(* descriptor set.  A hidden state is [sess, tok, at]: whose, of which     *)
(* token, and the <<layer, part>> that must process it next.  Nested       *)
(* begin/end pairs are balanced in this block and are left out.            *)
(***************************************************************************)
EXTENDS Naturals, Sequences, FiniteSets, SequencesExt

CONSTANTS FirstLayer, LastLayer,      \* layers of the block
          PerSession,       \* FG_VK_STATIC_SLOTS / FG_OWNER_SESSION_MAX
          Half,             \* FG_VK_BATCH_MAX_SETS / 2, in dispatches
          GroupBuffers,     \* FG_VK_GROUP_BUFFERS
          Statics, Groups, Batches, Caches, Periods, Traces,
                            \* values of the flags of the configuration
          MaxToken,         \* bound: tokens decoded per session
          MaxFaults         \* bound: recordings that fail

\* What the constants of every instance satisfy.
ReplayAssumption ==
    /\ FirstLayer \in Nat /\ LastLayer \in Nat /\ FirstLayer <= LastLayer
    /\ {PerSession, Half, GroupBuffers} \subseteq Nat \ {0}
    /\ {MaxToken, MaxFaults} \subseteq Nat

VARIABLES vk,     \* fg_vk_context
          bufs,   \* command buffer -> its recorded dispatches
          descr,  \* descriptor set -> its bindings
          queue,  \* submissions the device has not executed
          fences, \* signalled fences
          sems,   \* signalled semaphores
          mem,    \* tensor -> hidden state
          gdn,    \* session, position -> last token its state absorbed
          own,    \* slot -> static_run_output, static_run_session
          host    \* the thread inside fg_owner_decode_block_chained

vars == <<vk, bufs, descr, queue, fences, sems, mem, gdn, own, host>>

Sessions == {0, 1}
Slots == 0 .. 2 * PerSession - 1
Qsa(l) == l % 4 = 3
None == <<"none", 0>>
NoSem == 2
Bad == [sess |-> 0, tok |-> 0, at |-> <<LastLayer + 2, 0>>]

\* The pointer rule of gr_write_batch_into and ple_decode_into: write the
\* ping-pong tensor that is not the input.
PingNext(t) == IF t # "A" THEN "A" ELSE "B"

\* The tensor owner_record_layer leaves current: PLE before layer 1, then the
\* residual write after attention and the one after the experts.
RecordLayer(t, l) == PingNext(PingNext(IF l = 1 THEN PingNext(t) ELSE t))
RunOutput(t, a, b) == FoldLeft(RecordLayer, t, [i \in 1 .. b - a + 1 |-> a + i - 1])
RunLast(l) == CHOOSE b \in l .. LastLayer : (\A k \in l .. b : ~Qsa(k))
                                            /\ (b = LastLayer \/ Qsa(b + 1))
RunIndex(l) == Cardinality({k \in FirstLayer .. l - 1 : Qsa(k)})
SlotOf(l, s) == RunIndex(l) + s * PerSession

\* depthb_slot_input, or fg_owner_prefill_input on the single-token ring.
InputOf(s, batch) == IF batch /\ s # 0 THEN "I" ELSE "B"

\* chained_static_allowed: FG_DECODE_STATIC; FG_NUMERICS_TRACE is not asked.
StaticAllowed(m) == m.static

-----------------------------------------------------------------------------
\* Submissions

\* vk_submit_attach followed by vkQueueSubmit.
SubmitTo(v, q, cmds, f, sig) ==
    [v |-> [v EXCEPT !.sem = IF sig THEN v.semslot ELSE NoSem,
                     !.semslot = IF sig THEN 1 - v.semslot ELSE v.semslot],
     q |-> Append(q, [cmds |-> cmds, fence |-> f, wait |-> v.sem,
                      signal |-> IF sig THEN v.semslot ELSE NoSem])]

HeldCommands(v) == [i \in DOMAIN v.held |-> <<"s", v.held[i]>>]

\* The held static runs go out ahead of the command buffer they precede.
SubmitBatch(sig) ==
    LET r == SubmitTo(vk, queue, Append(HeldCommands(vk), vk.cmd), vk.fence, sig)
    IN [r EXCEPT !.v.sfence = [s \in Slots |-> IF s \in ToSet(vk.held) THEN vk.fence
                                               ELSE vk.sfence[s]],
                 !.v.held = <<>>, !.v.tracked = vk.tracked \union {vk.fence},
                 !.v.open = FALSE]

\* submit_group_send
GroupSend(v, q, f, sig) ==
    LET r == SubmitTo(v, q, v.gcmds, f, sig)
    IN [r EXCEPT !.v.gcmds = <<>>, !.v.tracked = v.tracked \union {f}]

\* submit_group_flush up to its wait: `to' is where the host continues.
GroupFlush(v, to) ==
    LET r == IF v.gcmds # <<>> THEN GroupSend(v, queue, v.fence, FALSE) ELSE [v |-> v, q |-> queue]
    IN [v |-> r.v, q |-> r.q, reset |-> v.gcmds # <<>>, ret |-> to,
        pc |-> IF v.gcmds = <<>> /\ ~v.published THEN to ELSE "gwait"]

\* fg_vk_flush: submit and swap command buffer and fence; in a group, append.
FlushInto(v, to) ==
    IF v.group
    THEN LET w == [v EXCEPT !.open = FALSE, !.gcmds = Append(@, v.cmd), !.gidx = @ + 1]
         IN IF w.gidx = GroupBuffers THEN GroupFlush(w, to)
            ELSE [v |-> [w EXCEPT !.cmd = <<"g", w.gidx>>], q |-> queue, reset |-> FALSE,
                  pc |-> to, ret |-> to]
    ELSE LET r == SubmitBatch(TRUE)
         IN [v |-> [r.v EXCEPT !.cmd = v.alt, !.alt = v.cmd, !.sets = v.sets,
                               !.fence = v.falt, !.falt = v.fence],
             q |-> r.q, reset |-> FALSE, pc |-> to, ret |-> to]

\* fg_vk_end up to its wait.
EndInto(v, to) ==
    IF v.group THEN GroupFlush([v EXCEPT !.open = FALSE, !.gcmds = Append(@, v.cmd)], to)
    ELSE LET r == SubmitBatch(FALSE)
         IN [v |-> [r.v EXCEPT !.sets = v.sets], q |-> r.q, reset |-> FALSE,
             pc |-> "endwait", ret |-> to]

\* fg_vk_static_submit: hold the run while a flushed batch is pending.
StaticSubmit(v, slot) ==
    LET p == [v EXCEPT !.pending = @ \union {slot}, !.sfence[slot] = None]
    IN CASE v.group -> [v |-> [p EXCEPT !.gcmds = Append(@, <<"s", slot>>)], q |-> queue]
         [] ~v.group /\ v.tracked # {} -> [v |-> [p EXCEPT !.held = Append(@, slot)], q |-> queue]
         [] OTHER -> SubmitTo([p EXCEPT !.sfence[slot] = <<"s", slot>>], queue,
                              <<<<"s", slot>>>>, <<"s", slot>>, TRUE)

\* vk_flush_held
FlushHeld ==
    LET r == SubmitTo(vk, queue, HeldCommands(vk), <<"held", 0>>, TRUE)
    IN [r EXCEPT !.v.sfence = [s \in Slots |-> IF s \in ToSet(vk.held) THEN <<"held", 0>>
                                               ELSE vk.sfence[s]],
                 !.v.held = <<>>, !.v.heldPending = TRUE]

Apply(r) == vk' = r.v /\ queue' = r.q
Tracked(f) == f \in vk.tracked => f \in fences
Drained == vk.tracked \subseteq fences

-----------------------------------------------------------------------------
Modes == [static : Statics, group : Groups, batch : Batches, cached : Caches,
          period : Periods, trace : Traces]

Init ==
    /\ vk = [open |-> FALSE, sets |-> 0,
             cmd |-> <<"c", 0>>, alt |-> <<"c", 1>>, fence |-> <<"f", 0>>, falt |-> <<"f", 1>>,
             tracked |-> {}, held |-> <<>>, heldPending |-> FALSE, recorded |-> {}, pending |-> {},
             sfence |-> [s \in Slots |-> None], sem |-> NoSem, semslot |-> 0,
             group |-> FALSE, gcmds |-> <<>>, gidx |-> 0, published |-> FALSE, gsaved |-> None]
    /\ bufs = [b \in ({"c"} \X {0, 1}) \union ({"s"} \X Slots)
                        \union ({"g"} \X (0 .. GroupBuffers - 1)) |-> <<>>]
    /\ descr = [k \in ({"d"} \X (0 .. 2 * Half - 1)) \union ({"s"} \X Slots) |-> <<"A", "A", 0>>]
    /\ queue = <<>> /\ fences = {} /\ sems = {}
    /\ mem = [t \in {"A", "B", "I", "S"} |-> Bad]
    /\ gdn = [s \in Sessions |-> [l \in FirstLayer .. LastLayer |-> 0]]
    /\ own = [s \in Slots |-> [out |-> "A", sess |-> 0]]
    /\ \E m \in Modes :
         host = [pc |-> "idle", ret |-> "idle", mode |-> m, sess |-> 0, tok |-> 0, layer |-> FirstLayer,
                 part |-> 0, cur |-> "B", pub |-> FALSE, replayed |-> FALSE,
                 next |-> [s \in Sessions |-> 1], faults |-> 0]

Busy == <<bufs, descr, fences, sems, mem, gdn, own>>

\* The caller of fg_owner_decode_block_chained selects the session, writes the
\* token's hidden state to the block input and enters the block; a submit
\* group is used when the flag is set and fg_qsa_session_submit_group_ready.
StartBlock(s) ==
    /\ host.pc = "idle" /\ host.next[s] <= MaxToken
    /\ \E grp \in BOOLEAN :
         /\ grp => StaticAllowed(host.mode) /\ host.mode.group > 0 /\ host.mode.cached
         /\ LET in == InputOf(s, host.mode.batch)
            IN /\ mem' = [mem EXCEPT ![in] = [sess |-> s, tok |-> host.next[s], at |-> <<FirstLayer, 0>>]]
               /\ host' = [host EXCEPT !.pc = IF grp THEN "group" ELSE "layer", !.sess = s,
                             !.tok = host.next[s], !.layer = FirstLayer, !.part = 0, !.cur = in,
                             !.pub = grp /\ host.mode.group = 2, !.replayed = FALSE]
    /\ UNCHANGED <<vk, bufs, descr, queue, fences, sems, gdn, own>>

\* fg_vk_submit_group_begin, whose drain waits for nothing here.
GroupBegin ==
    /\ host.pc = "group" /\ Drained
    /\ vk' = [vk EXCEPT !.tracked = {}, !.gsaved = vk.cmd, !.cmd = <<"g", 0>>, !.gcmds = <<>>,
                        !.gidx = 0, !.sets = 0, !.group = TRUE]
    /\ host' = [host EXCEPT !.pc = "layer"]
    /\ UNCHANGED <<queue, Busy>>

\* The end of a run of layers: a recorded run is submitted again and the
\* tensor it left current when it was recorded becomes current; otherwise the
\* layers are recorded with the present bindings, submitted, and remembered.
StaticRun ==
    LET l == host.layer
        slot == SlotOf(l, host.sess)
        fresh == \/ slot \notin vk.recorded
                 \/ host.mode.period > 0 /\ host.tok % host.mode.period = 0
        out == IF fresh THEN RunOutput(host.cur, l, RunLast(l)) ELSE own[slot].out
    IN /\ host.pc = "layer" /\ l <= LastLayer /\ ~Qsa(l)
       /\ StaticAllowed(host.mode) /\ RunIndex(l) < PerSession
       /\ ~vk.open /\ slot \notin vk.pending
       /\ fresh \/ own[slot].sess = host.sess
       /\ Apply(StaticSubmit([vk EXCEPT !.recorded = @ \union {slot}], slot))
       /\ fences' = fences \ (IF fresh \/ ~vk.group THEN {<<"s", slot>>} ELSE {})
       /\ host' = [host EXCEPT !.layer = RunLast(l) + 1, !.cur = out, !.replayed = @ \/ ~fresh]
       /\ IF fresh
          THEN /\ bufs' = [bufs EXCEPT ![<<"s", slot>>] =
                     <<[from |-> <<l, 0>>, to |-> <<RunLast(l) + 1, 0>>, tok |-> 0, set |-> <<"s", slot>>]>>]
               /\ descr' = [descr EXCEPT ![<<"s", slot>>] = <<host.cur, out, host.sess>>]
               /\ own' = [own EXCEPT ![slot] = [out |-> out, sess |-> host.sess]]
          ELSE UNCHANGED <<bufs, descr, own>>
       /\ UNCHANGED <<sems, mem, gdn>>

\* fg_vk_submit_group_publish before the first QSA layer.
Publish ==
    /\ host.pc = "layer" /\ host.layer <= LastLayer /\ Qsa(host.layer) /\ host.pub
    /\ host' = [host EXCEPT !.pub = FALSE]
    /\ IF vk.gcmds = <<>> THEN UNCHANGED <<vk, queue, fences>>
       ELSE LET r == GroupSend(vk, queue, vk.falt, TRUE)
            IN /\ Apply([r EXCEPT !.v.published = TRUE])
               /\ fences' = fences \ {vk.falt}
    /\ UNCHANGED <<bufs, descr, sems, mem, gdn, own>>

\* A layer recorded for this token opens a dynamic batch.
DynamicLayer ==
    /\ host.pc = "layer" /\ host.layer <= LastLayer
    /\ IF Qsa(host.layer) THEN ~host.pub
       ELSE ~StaticAllowed(host.mode) \/ RunIndex(host.layer) >= PerSession
    /\ host' = [host EXCEPT !.pc = IF vk.open THEN "record" ELSE "begin"]
    /\ UNCHANGED <<vk, queue, Busy>>

\* fg_vk_begin: wait for the submission that used this fence and command
\* buffer; past half of the sets a group is flushed, and any other pending
\* submission drained, before the descriptor sets are used again.
Begin ==
    /\ host.pc = "begin" /\ Tracked(vk.fence)
    /\ IF vk.group /\ vk.sets >= Half
       THEN LET r == GroupFlush([vk EXCEPT !.tracked = @ \ {vk.fence}], "begin")
            IN /\ Apply(r)
               /\ host' = [host EXCEPT !.pc = IF r.pc = "begin" THEN "opened" ELSE r.pc, !.ret = "opened"]
               /\ fences' = IF r.reset THEN fences \ {vk.fence} ELSE fences
       ELSE /\ vk' = [vk EXCEPT !.tracked = @ \ {vk.fence}]
            /\ host' = [host EXCEPT !.pc = "opened"]
            /\ UNCHANGED <<queue, fences>>
    /\ UNCHANGED <<bufs, descr, sems, mem, gdn, own>>

\* Mutant: the descriptor sets are used again while submissions are pending.
UndrainedOpened ==
    /\ host.pc = "opened"
    /\ vk' = IF vk.sets >= Half THEN [vk EXCEPT !.tracked = {}, !.sets = 0, !.open = TRUE]
             ELSE [vk EXCEPT !.open = TRUE]
    /\ bufs' = [bufs EXCEPT ![vk.cmd] = <<>>]
    /\ fences' = IF vk.group THEN fences ELSE fences \ {vk.fence}
    /\ host' = [host EXCEPT !.pc = "record"]
    /\ UNCHANGED <<descr, queue, sems, mem, gdn, own>>

Opened ==
    /\ host.pc = "opened"
    /\ vk.sets >= Half => Drained
    /\ vk' = IF vk.sets >= Half THEN [vk EXCEPT !.tracked = {}, !.sets = 0, !.open = TRUE]
             ELSE [vk EXCEPT !.open = TRUE]
    /\ bufs' = [bufs EXCEPT ![vk.cmd] = <<>>]
    /\ fences' = IF vk.group THEN fences ELSE fences \ {vk.fence}
    /\ host' = [host EXCEPT !.pc = "record"]
    /\ UNCHANGED <<descr, queue, sems, mem, gdn, own>>

\* Parts 0..3 of a QSA layer: GR read, projections, commit and selection,
\* attention with the rest of the layer; any other layer is one part.
Whole == ~Qsa(host.layer) \/ host.part = 3
Output == RecordLayer(host.cur, host.layer)
Target == IF Whole THEN <<host.layer + 1, 0>> ELSE <<host.layer, host.part + 1>>

\* What follows the recording of a part: fg_vk_flush after a whole layer that
\* is not the last, qsa_decode_flush after the first two parts, fg_vk_end
\* before the selection is read unless the group resolves it on the device.
After == CASE Whole -> IF host.layer < LastLayer THEN {"flush"} ELSE {"stay"}
           [] ~Whole /\ host.part < 2 -> IF host.mode.cached THEN {"flush"} ELSE {"end"}
           [] OTHER -> IF vk.group THEN {"stay"} ELSE {"stay", "end"}

Record(how) ==
    LET key == <<"d", vk.sets>>
        op == [from |-> <<host.layer, host.part>>, to |-> Target, tok |-> host.tok, set |-> key]
        in == IF host.part = 0 THEN host.cur ELSE "S"
        v == [vk EXCEPT !.sets = @ + 1]
        to == CASE Whole -> "layer" [] how = "stay" -> "record" [] OTHER -> "begin"
        r == CASE how = "flush" -> FlushInto(v, to) [] how = "end" -> EndInto(v, to)
               [] OTHER -> [v |-> v, q |-> queue, reset |-> FALSE, pc |-> to, ret |-> to]
    IN /\ host.pc = "record" /\ how \in After /\ vk.sets < 2 * Half
       /\ bufs' = [bufs EXCEPT ![vk.cmd] = Append(@, op)]
       /\ descr' = [descr EXCEPT ![key] = <<in, IF Whole THEN Output ELSE "S", host.sess>>]
       /\ Apply(r)
       /\ fences' = IF r.reset THEN fences \ {vk.fence} ELSE fences
       /\ host' = [host EXCEPT !.layer = Target[1], !.part = Target[2], !.pc = r.pc, !.ret = r.ret,
                               !.cur = IF Whole THEN Output ELSE @]
       /\ UNCHANGED <<sems, mem, gdn, own>>

\* The rest of fg_vk_end: its fence, then every pending fence.
EndWait ==
    /\ host.pc = "endwait" /\ vk.fence \in fences /\ Drained
    /\ vk' = [vk EXCEPT !.tracked = {}, !.sets = 0]
    /\ host' = [host EXCEPT !.pc = host.ret]
    /\ UNCHANGED <<queue, Busy>>

\* The rest of submit_group_flush.
GroupWait ==
    /\ host.pc = "gwait" /\ Drained
    /\ vk' = [vk EXCEPT !.tracked = {}, !.pending = {s \in @ : vk.sfence[s] # None},
                        !.gidx = 0, !.sets = 0, !.published = FALSE, !.cmd = <<"g", 0>>]
    /\ host' = [host EXCEPT !.pc = host.ret]
    /\ UNCHANGED <<queue, Busy>>

\* After the last layer: close the open batch, and the group if there is one.
Close ==
    /\ host.pc = "layer" /\ host.layer > LastLayer
    /\ LET r == CASE vk.open -> EndInto(vk, IF vk.group THEN "groupend" ELSE "drain")
                  [] ~vk.open /\ vk.group -> GroupFlush(vk, "groupend")
                  [] OTHER -> [v |-> vk, q |-> queue, reset |-> FALSE, pc |-> "drain", ret |-> "drain"]
       IN /\ Apply(r)
          /\ fences' = IF r.reset THEN fences \ {vk.fence} ELSE fences
          /\ host' = [host EXCEPT !.pc = r.pc, !.ret = r.ret]
    /\ UNCHANGED <<bufs, descr, sems, mem, gdn, own>>

GroupEnd ==
    /\ host.pc = "groupend"
    /\ vk' = [vk EXCEPT !.cmd = vk.gsaved, !.group = FALSE]
    /\ host' = [host EXCEPT !.pc = "drain"]
    /\ UNCHANGED <<queue, Busy>>

\* fg_vk_static_drain: submit what is held, wait for every pending run, then
\* for the pipeline.
DrainHeld ==
    /\ host.pc \in {"drain", "switch"} /\ vk.pending # {} /\ vk.held # <<>>
    /\ vk.heldPending => <<"held", 0>> \in fences
    /\ Apply(FlushHeld)
    /\ fences' = fences \ {<<"held", 0>>}
    /\ UNCHANGED <<bufs, descr, sems, mem, gdn, own, host>>

PendingDone == \A s \in vk.pending : vk.sfence[s] \in fences

DrainBlock ==
    /\ host.pc = "drain" /\ (vk.pending = {} \/ vk.held = <<>>) /\ PendingDone /\ Drained
    /\ vk' = [vk EXCEPT !.pending = {}, !.tracked = {}]
    /\ host' = [host EXCEPT !.pc = "done"]
    /\ UNCHANGED <<queue, Busy>>

\* The block has returned FG_OK and its output is read.
Return ==
    /\ host.pc = "done"
    /\ host' = [host EXCEPT !.pc = "idle", !.next[host.sess] = @ + 1]
    /\ UNCHANGED <<vk, queue, Busy>>

-----------------------------------------------------------------------------
\* Failures

\* A dispatch cannot be recorded (its kernel cannot be created, the page cache
\* has no slot).  The QSA parts call fg_vk_abort, which submits held runs and
\* throws the recording away; every other layer leaves the batch open.
\* fg_vk_submit_group_abort waits for the device and closes batch and group.
RecordFails ==
    /\ host.pc = "record" /\ host.faults < MaxFaults
    /\ vk.held # <<>> /\ vk.heldPending => <<"held", 0>> \in fences
    /\ \E aborts \in (IF ~Qsa(host.layer) \/ host.part = 0 THEN {FALSE}
                      ELSE IF host.part = 3 THEN BOOLEAN ELSE {TRUE}) :
         LET r == IF vk.held # <<>> /\ aborts THEN FlushHeld ELSE [v |-> vk, q |-> queue]
             a == IF aborts THEN [r EXCEPT !.v.open = FALSE] ELSE r
         IN IF vk.group
            THEN /\ queue = <<>>
                 /\ vk' = [vk EXCEPT !.open = FALSE, !.pending = {s \in @ : vk.sfence[s] # None},
                                     !.cmd = vk.gsaved, !.group = FALSE, !.gcmds = <<>>, !.gidx = 0,
                                     !.sets = 0, !.tracked = {}, !.published = FALSE]
                 /\ UNCHANGED <<queue, fences>>
            ELSE /\ Apply(a)
                 /\ fences' = IF aborts /\ vk.held # <<>> THEN fences \ {<<"held", 0>>} ELSE fences
    /\ host' = [host EXCEPT !.pc = "failed", !.faults = @ + 1]
    /\ UNCHANGED <<bufs, descr, sems, mem, gdn, own>>

\* The same inside a static recording, between static_begin and static_end.
StaticRecordFails ==
    LET slot == SlotOf(host.layer, host.sess)
    IN /\ host.pc = "layer" /\ host.layer <= LastLayer /\ ~Qsa(host.layer)
       /\ StaticAllowed(host.mode) /\ RunIndex(host.layer) < PerSession
       /\ slot \notin vk.recorded /\ ~vk.open /\ slot \notin vk.pending
       /\ host.faults < MaxFaults
       /\ vk' = IF vk.group
                THEN [vk EXCEPT !.pending = {s \in @ : vk.sfence[s] # None}, !.cmd = vk.gsaved,
                                !.group = FALSE, !.gcmds = <<>>, !.gidx = 0, !.sets = 0,
                                !.tracked = {}, !.published = FALSE]
                ELSE [vk EXCEPT !.open = TRUE]
       /\ vk.group => queue = <<>>
       /\ fences' = fences \ {<<"s", slot>>}
       /\ host' = [host EXCEPT !.pc = "failed", !.faults = @ + 1]
       /\ UNCHANGED <<queue, bufs, descr, sems, mem, gdn, own>>

\* fg_runtime_activate before the next job: an open batch is refused, all
\* other work drained; the failed session is reset (fg_owner_reset_session).
Switch ==
    /\ host.pc = "failed"
    /\ host' = [host EXCEPT !.pc = IF vk.open THEN "refused" ELSE "switch"]
    /\ UNCHANGED <<vk, queue, Busy>>

Activated ==
    /\ host.pc = "switch" /\ (vk.pending = {} \/ vk.held = <<>>) /\ PendingDone /\ Drained
    /\ vk' = [vk EXCEPT !.pending = {}, !.tracked = {}]
    /\ gdn' = [gdn EXCEPT ![host.sess] = [l \in FirstLayer .. LastLayer |-> 0]]
    /\ host' = [host EXCEPT !.pc = "idle", !.next[host.sess] = 1]
    /\ UNCHANGED <<bufs, descr, queue, fences, sems, mem, own>>

-----------------------------------------------------------------------------
\* The device (external: the Vulkan queue).  Submissions execute in any order
\* their semaphores allow; a wait is paired with the signal submitted last
\* before it.

\* One dispatch: the hidden state advances if it is the one the dispatch
\* expects, of the session it is bound to; both ping-pong tensors are written.
Execute(st, op) ==
    LET b == descr[op.set]
        x == st.m[b[1]]
        good == /\ x.at = op.from /\ x.sess = b[3] /\ op.tok \in {0, x.tok}
                /\ st.g[b[3]][op.from[1]] = x.tok - (IF op.from[2] = 0 THEN 1 ELSE 0)
        y == IF good THEN [x EXCEPT !.at = op.to] ELSE Bad
    IN [m |-> IF b[2] = "S" THEN [st.m EXCEPT !["S"] = y]
              ELSE [st.m EXCEPT ![b[2]] = y, ![PingNext(b[2])] = Bad],
        g |-> IF op.from[2] = 0
              THEN [st.g EXCEPT ![b[3]][op.from[1]] = x.tok] ELSE st.g]

Gpu ==
    /\ \E i \in DOMAIN queue :
         LET sub == queue[i]
             ops == FlattenSeq([c \in DOMAIN sub.cmds |-> bufs[sub.cmds[c]]])
             st == FoldLeft(Execute, [m |-> mem, g |-> gdn], ops)
         IN /\ \/ sub.wait = NoSem
               \/ sub.wait \in sems /\ \A j \in 1 .. i - 1 : sub.wait \notin {queue[j].wait, queue[j].signal}
            /\ mem' = st.m /\ gdn' = st.g
            /\ sems' = (sems \ {sub.wait}) \union ({sub.signal} \ {NoSem})
            /\ fences' = fences \union {sub.fence}
            /\ queue' = RemoveAt(queue, i)
    /\ UNCHANGED <<vk, bufs, descr, own, host>>

Over ==
    /\ \/ host.pc = "refused"
       \/ host.pc = "idle" /\ \A s \in Sessions : host.next[s] > MaxToken
    /\ queue = <<>> /\ UNCHANGED vars

Host == \/ \E s \in Sessions : StartBlock(s)
        \/ GroupBegin \/ StaticRun \/ Publish \/ DynamicLayer \/ Begin \/ Opened
        \/ (\E how \in {"flush", "end", "stay"} : Record(how))
        \/ EndWait \/ GroupWait \/ Close \/ GroupEnd \/ DrainHeld \/ DrainBlock \/ Return
        \/ RecordFails \/ StaticRecordFails \/ Switch \/ Activated

Next == Host \/ Gpu \/ Over

Spec == Init /\ [][Next]_vars

-----------------------------------------------------------------------------
\* Properties

\* The shape of the state; a group never holds more commands than
\* FG_VK_GROUP_COMMANDS, and a dispatch never runs out of descriptor sets.
TypeOK ==
    /\ vk.sets \in 0 .. 2 * Half /\ vk.tracked \subseteq {<<"f", 0>>, <<"f", 1>>}
    /\ vk.pending \subseteq vk.recorded /\ ToSet(vk.held) \subseteq vk.pending
    /\ Len(vk.gcmds) <= GroupBuffers + Cardinality(Slots)
    /\ host.layer \in FirstLayer .. LastLayer + 1 /\ host.cur \in {"A", "B", "I"}
    /\ host.pc = "record" => vk.sets < 2 * Half

\* A block that returns FG_OK leaves in its output tensor the hidden state of
\* this token of this session after every layer, whether its runs were
\* recorded or replayed, held back, grouped or published early, and whatever
\* the other session ran in between (owner.c: "A recorded run must execute
\* exactly the work of a fresh recording").
BlockExact ==
    host.pc = "done" =>
      mem[host.cur] = [sess |-> host.sess, tok |-> host.tok, at |-> <<LastLayer + 1, 0>>]

\* Nothing is in flight once the block has returned: the next session may
\* overwrite the shared scratch (owner.c: "shared transient scratch remains
\* fully drained before another session executes").
DrainedOnReturn == host.pc = "done" => queue = <<>> /\ vk.held = <<>> /\ vk.gcmds = <<>>

Awaited == UNION {ToSet(sub.cmds) : sub \in ToSet(queue)}
               \union ToSet(HeldCommands(vk)) \union ToSet(vk.gcmds)

\* No command buffer is recorded again and no descriptor set rewritten while
\* a submission that reads it is held, grouped or queued.
Untouched ==
    \A c \in Awaited : /\ bufs'[c] = bufs[c]
                       /\ \A op \in ToSet(bufs[c]) : descr'[op.set] = descr[op.set]
InFlightUntouched == [][Untouched]_vars

\* Every fence is attached to at most one queued submission and is unsignalled
\* while it is; a semaphore is signalled again only after its signal was
\* waited for.
HandlesExclusive ==
    /\ \A i, j \in DOMAIN queue : queue[i].fence = queue[j].fence => i = j
    /\ \A i \in DOMAIN queue : queue[i].fence \notin fences
    /\ \A j \in DOMAIN queue : queue[j].signal # NoSem =>
         \A i \in 0 .. j - 1 :
           (IF i = 0 THEN queue[j].signal \in sems ELSE queue[i].signal = queue[j].signal)
             => \E k \in i + 1 .. j : queue[k].wait = queue[j].signal

\* docs/DEPTH_B_DECODE_RING.md: "session 0 keeps the validated replay; any
\* other session runs dynamically".
OtherSessionsDynamic == host.sess # 0 => ~host.replayed

\* docs/FLAGS.md: "a Vulkan profile or numeric trace also disables" replay.
TraceDisablesReplay == host.mode.trace => ~host.replayed

\* docs/MULTI_SESSION.md: "Before switching jobs the coordinator drains static
\* work": the drain of fg_runtime_activate returns.
SwitchReturns == host.pc = "switch" ~> host.pc = "idle"

FairSpec == Spec /\ WF_vars(Gpu) /\ WF_vars(DrainHeld) /\ WF_vars(Activated)

=============================================================================

------------------------- MODULE ExpertDecodeProofs -------------------------
(***************************************************************************)
(* Proofs about the decode of a token.  The first part is about its way    *)
(* through the layers, ExpertDecode, for any number of workers, layers,    *)
(* tokens and faults, every block of a sealed rank and both users of the   *)
(* fire/collect pair; the second about its choice, OutputSplit.            *)
(***************************************************************************)
EXTENDS ExpertDecode, OutputSplit, FiniteSetTheorems, SequenceTheorems,
        WellFoundedInduction, TLAPS

-----------------------------------------------------------------------------
(* The inductive invariant.                                                  *)

Tensors == {"in", "A", "B"}
Results == SUBSET (Ranks \X Nat)

Firing == {"send", "local", "receive"}
InLayer == {"fire", "send", "local", "receive", "shared", "collect", "finish"}
Running == InLayer \cup {"begin", "return", "output"}

Host ==
    [pc : Running \cup {"idle", "failed", "stopped"}, mode : {"parallel", "sealed"},
     profile : BOOLEAN, req : Nat, run : Nat, fires : Nat, tok : Nat, layer : Nat,
     status : {"ok", "err"}, residual : Tensors, cur : Tensors, got : Results, moe : Results,
     hit : BOOLEAN, faults : 0 .. MaxFaults]
Context ==
    [req : Nat, seq : Nat, n : Nat, routes : SUBSET Ranks, left : SUBSET Workers,
     expected : SUBSET Workers, seen : SUBSET Workers, remote : Nat, received : Nat,
     failed : BOOLEAN, discard : BOOLEAN]
Write == [active : BOOLEAN, skip : BOOLEAN, layer : Nat, tok : Nat, hyper : Tensors, out : Tensors]
State == [run : Nat, at : Nat]

\* Every variable keeps its type.
Types ==
    /\ tr \in {"READY", "PENDING", "POISONED"}
    /\ host \in Host /\ ctx \in Context
    /\ pend \in Write /\ mem \in [Tensors -> State]
    /\ gpu \in [pending : BOOLEAN, queued : Nat, reduced : Nat]
    /\ disp \in [pending : BOOLEAN, results : {<<>>, <<0>>}]
    /\ alive \subseteq Workers
    /\ work = [w \in Workers |-> work[w]] /\ res = [w \in Workers |-> res[w]]
    /\ wsess = [w \in Workers |-> host.req]

\* Where the host is, and that only a fault of its own or a dead worker made a token fail.
PlaceOK ==
    /\ host.pc \in Running => First <= host.layer /\ host.layer <= Final
    /\ host.pc = "return" => host.layer = Final
    /\ host.pc \in Firing => host.mode = "parallel"
    /\ host.pc \in {"shared", "collect"} => host.mode = "sealed"
    /\ host.pc \in {"begin", "fire", "send", "shared", "return", "output"} => host.status = "ok"
    /\ host.status = "err" => host.hit \/ alive # Workers

\* The frame that fire_experts sends for the fire under way.
Asked == [req |-> ctx.req, seq |-> ctx.seq, n |-> ctx.n]

\* Where the work of a worker is: not sent, with the worker, answered, or lost with it.
Flow(w) ==
    IF w \in ctx.expected \ ctx.seen
    THEN /\ ctx.req = host.req
         /\ \/ w \in alive /\ work[w] = <<Asked>> /\ res[w] = <<>>
            \/ work[w] = <<>> /\ res[w] = <<Asked>>
            \/ w \notin alive /\ work[w] = <<>> /\ res[w] = <<>>
    ELSE work[w] = <<>> /\ res[w] = <<>>

\* What was routed, sent and received.
CountsOK ==
    /\ ctx.seen \subseteq ctx.expected /\ ctx.left \cap ctx.expected = {}
    /\ ctx.remote = Cardinality(ctx.expected) /\ ctx.received = Cardinality(ctx.seen)
    /\ ctx.failed => alive # Workers
    /\ ~ctx.discard => ctx.routes \ {0} = ctx.left \cup ctx.expected
    /\ host.pc = "send" => ctx.req = host.req
    /\ host.pc \in {"local", "receive"} => ctx.left = {}
    /\ host.pc \in {"send", "local"} => ctx.seen = {}
    /\ (host.pc \in Firing /\ host.status = "ok") => ~ctx.discard /\ ~ctx.failed /\ ctx.routes # {}

\* The transport state between and during fires.
TransportOK ==
    /\ host.pc \in Firing => (tr = "POISONED" <=> ctx.failed)
    /\ host.pc \notin Firing \cup {"finish", "failed", "stopped"} => tr = "READY"
    /\ (host.pc \notin Firing /\ tr = "READY") => ctx.expected = ctx.seen
    /\ (host.pc = "finish" /\ host.status = "ok") => tr = "READY"

\* The results that the ranks of a set give for the fire under way.
SumOf(S) == {<<r, ctx.n>> : r \in S}

\* What has been collected, and the sum that the last layer finished with.
GotOK ==
    /\ host.pc \in {"fire", "send", "local"} => host.got = {}
    /\ (host.pc = "receive" /\ host.status = "ok") =>
         host.got = SumOf((ctx.routes \cap {0}) \cup ctx.seen)
    /\ (host.pc = "finish" /\ host.status = "ok") => ctx.routes # {} /\ host.got = SumOf(ctx.routes)
    /\ host.pc \in InLayer => host.moe = {}
    /\ host.moe # {} => host.moe = SumOf(ctx.routes)

\* The write of layer l is deferred: the tensors it needs hold what it needs.
Deferred(l) ==
    /\ pend.active /\ ~pend.skip /\ pend.layer = l /\ pend.tok = host.tok
    /\ pend.out = host.cur /\ mem[pend.hyper] = Hidden(3 * l + 2) /\ host.moe # {}

\* The block's first layer finds its input and, where it has a predecessor, the skip marker.
Entering ==
    /\ host.cur = "in" /\ mem["in"] = Hidden(Entry(First))
    /\ IF First = 0 THEN pend = NoWrite
       ELSE pend = [NoWrite EXCEPT !.active = TRUE, !.skip = TRUE, !.layer = First - 1,
                                   !.tok = host.tok]

\* Where the token's hidden state is.
MemOK ==
    /\ host.pc \in InLayer => pend = NoWrite /\ mem[host.residual] = Hidden(3 * host.layer + 2)
    /\ host.pc \in {"idle", "output"} => pend = NoWrite
    /\ host.pc = "begin" => IF host.layer = First THEN Entering ELSE Deferred(host.layer - 1)
    /\ host.pc = "return" => IF host.layer + 1 = LayerCount
                             THEN pend = NoWrite /\ mem[host.cur] = Hidden(Entry(host.layer + 1))
                             ELSE Deferred(host.layer)
    /\ host.pc = "output" => mem[host.cur] = Hidden(Entry(Final + 1))

\* The expert graph runs only between its submission and its collection.
GpuOK ==
    /\ host.pc = "shared" => disp.pending
    /\ host.pc \notin {"shared", "collect"} => ~disp.pending
    /\ (host.pc = "collect" /\ host.status = "ok") => disp.pending
    /\ IF disp.pending
       THEN /\ disp.results = <<0>> /\ ctx.n > 0 /\ ctx.routes = {0}
            /\ IF host.profile THEN ~gpu.pending /\ gpu.queued = 0 /\ gpu.reduced = ctx.n
               ELSE gpu.pending /\ (gpu.queued = ctx.n \/ (gpu.queued = 0 /\ gpu.reduced = ctx.n))
       ELSE ~gpu.pending /\ gpu.queued = 0

EInv ==
    /\ Types
    /\ PlaceOK
    /\ \A w \in Workers : Flow(w)
    /\ CountsOK
    /\ TransportOK
    /\ GotOK
    /\ MemOK
    /\ GpuOK

-----------------------------------------------------------------------------
(* Facts about the model's operators.                                        *)

\* The constants are numbers, and a block has a first and a last layer.
LEMMA Numbers ==
    ASSUME ExpertAssumption
    PROVE  /\ Workers \subseteq Nat /\ 0 \notin Workers /\ IsFiniteSet(Workers)
           /\ LayerCount \in Nat /\ FirstLayer \in Nat /\ LastLayer \in Nat
           /\ MaxToken \in Nat /\ MaxFaults \in Nat
           /\ FirstLayer <= LastLayer /\ LastLayer < LayerCount
  BY DEF ExpertAssumption

\* The layers a token passes.
LEMMA Layers ==
    ASSUME ExpertAssumption, host \in Host
    PROVE  /\ First \in Nat /\ Final \in Nat /\ First <= Final /\ Final < LayerCount
           /\ (host.mode = "parallel" => First = 0 /\ Final + 1 = LayerCount)
  <1>1. host.mode \in {"parallel", "sealed"}
    BY DEF Host
  <1> QED
    BY <1>1, Numbers DEF First, Final

\* The parts of the layer stack are numbered upward.
LEMMA Entries ==
    ASSUME NEW l \in Nat
    PROVE  /\ Entry(l) \in Nat
           /\ l = 1 => Entry(l) = 3
           /\ l # 1 => Entry(l) = 3 * l + 1
           /\ 3 * l + 1 \in Nat /\ 3 * l + 2 \in Nat /\ (3 * l + 1) + 1 = 3 * l + 2
  BY DEF Entry

\* A hidden state of this attempt is a state.
LEMMA HiddenIs ==
    ASSUME host \in Host, NEW at \in Nat
    PROVE  Hidden(at) \in State
  <1>1. host.run \in Nat
    BY DEF Host
  <1> QED
    BY <1>1 DEF Hidden, State

\* Other names a tensor different from its argument.
LEMMA Others ==
    ASSUME NEW t \in Tensors
    PROVE  Other(t) \in Tensors /\ Other(t) # t
  BY DEF Other, Tensors

\* A step through one part of the stack writes the next hidden state.
LEMMA StepRight ==
    ASSUME host \in Host, NEW m \in [Tensors -> State], NEW from \in Tensors, NEW to \in Tensors,
           NEW at \in Nat, m[from] = Hidden(at)
    PROVE  /\ Step(m, from, to, at) \in [Tensors -> State]
           /\ Step(m, from, to, at)[to] = Hidden(at + 1)
  <1>1. Step(m, from, to, at) = [m EXCEPT ![to] = Hidden(at + 1)]
    BY DEF Step
  <1>2. Hidden(at + 1) \in State
    BY HiddenIs
  <1> QED
    BY <1>1, <1>2

\* The first batch of a layer leads from its entry to its experts.
LEMMA BatchRight ==
    ASSUME host \in Host, NEW m \in [Tensors -> State], m[host.cur] = Hidden(Entry(host.layer))
    PROVE  /\ BatchOne(m).mem \in [Tensors -> State] /\ BatchOne(m).residual \in Tensors
           /\ BatchOne(m).mem[BatchOne(m).residual] = Hidden(3 * host.layer + 2)
  <1>1. host.cur \in Tensors /\ host.layer \in Nat
    BY DEF Host
  <1> DEFINE ple == IF host.layer = 1 THEN Step(m, host.cur, Other(host.cur), 3) ELSE m
             inn == IF host.layer = 1 THEN Other(host.cur) ELSE host.cur
  <1>2. BatchOne(m).mem = Step(ple, inn, Other(inn), 3 * host.layer + 1) /\ BatchOne(m).residual = Other(inn)
    BY DEF BatchOne
  <1>3. ple \in [Tensors -> State] /\ inn \in Tensors /\ ple[inn] = Hidden(3 * host.layer + 1)
    <2>1. CASE host.layer = 1
      <3>1. m[host.cur] = Hidden(3)
        BY <2>1, <1>1, Entries
      <3>2. /\ Step(m, host.cur, Other(host.cur), 3) \in [Tensors -> State]
            /\ Step(m, host.cur, Other(host.cur), 3)[Other(host.cur)] = Hidden(3 + 1)
        BY <1>1, <3>1, Others, StepRight
      <3>3. 3 + 1 = 3 * host.layer + 1
        BY <2>1
      <3> QED
        BY <1>1, <2>1, <3>2, <3>3, Others
    <2>2. CASE host.layer # 1
      BY <1>1, <2>2, Entries
    <2> QED
      BY <2>1, <2>2
  <1> HIDE DEF ple, inn
  <1>4. Other(inn) \in Tensors
    BY <1>3, Others
  <1>5. 3 * host.layer + 1 \in Nat /\ (3 * host.layer + 1) + 1 = 3 * host.layer + 2
    BY <1>1, Entries
  <1> QED
    BY <1>2, <1>3, <1>4, <1>5, StepRight

\* Only the fire, what was sent and received, and the links decide where a worker's work is.
LEMMA FlowSame ==
    ASSUME NEW w \in Workers, Flow(w), UNCHANGED <<work, res, alive>>,
           ctx'.expected = ctx.expected, ctx'.seen = ctx.seen, ctx'.req = ctx.req,
           ctx'.seq = ctx.seq, ctx'.n = ctx.n, host'.req = host.req
    PROVE  Flow(w)'
  <1>1. Asked' = Asked
    BY DEF Asked
  <1> QED
    BY <1>1 DEF Flow

-----------------------------------------------------------------------------
(* Init and every action keep the invariant.                                 *)

\* The initial states satisfy it.
LEMMA StartsRight ==
    ASSUME ExpertAssumption, Init
    PROVE  EInv
  <1>1. PICK m \in Modes, p \in Profiles :
          host = [pc |-> "idle", mode |-> m, profile |-> p, req |-> 1, run |-> 0, fires |-> 0,
                  tok |-> 0, layer |-> 0, status |-> "ok", residual |-> "in", cur |-> "in",
                  got |-> {}, moe |-> {}, hit |-> FALSE, faults |-> MaxFaults]
    BY DEF Init
  <1>2. m \in {"parallel", "sealed"} /\ p \in BOOLEAN
    BY DEF ExpertAssumption
  <1>3. /\ host \in Host /\ host.pc = "idle" /\ host.status = "ok" /\ host.moe = {} /\ host.req = 1
    BY <1>1, <1>2, Numbers DEF Host, Tensors, Results, Running, InLayer
  <1>4. ctx \in Context /\ ctx.expected = {} /\ ctx.seen = {} /\ ctx.left = {} /\ ctx.remote = 0
        /\ ctx.received = 0 /\ ctx.routes = {} /\ ctx.failed = FALSE /\ ctx.discard = FALSE
    BY DEF Init, NoRoute, Context
  <1>5. Cardinality({}) = 0
    BY FS_EmptySet
  <1>6. Types
    <2>1. pend \in Write /\ mem \in [Tensors -> State]
      BY DEF Init, NoWrite, Write, Tensors, Bad, State
    <2>2. gpu \in [pending : BOOLEAN, queued : Nat, reduced : Nat]
      BY DEF Init, NoGraph
    <2>3. disp \in [pending : BOOLEAN, results : {<<>>, <<0>>}]
      BY DEF Init
    <2> QED
      BY <1>3, <1>4, <2>1, <2>2, <2>3 DEF Init, Types
  <1>7. PlaceOK /\ TransportOK /\ GotOK
    BY <1>3, <1>4 DEF Init, PlaceOK, TransportOK, GotOK, Running, InLayer, Firing
  <1>8. CountsOK
    BY <1>3, <1>4, <1>5 DEF CountsOK, Firing
  <1>9. MemOK
    BY <1>3 DEF Init, MemOK, InLayer
  <1>10. GpuOK
    BY <1>3 DEF Init, GpuOK, NoGraph
  <1>11. \A w \in Workers : Flow(w)
    BY <1>4 DEF Init, Flow
  <1> QED
    BY <1>6, <1>7, <1>8, <1>9, <1>10, <1>11 DEF EInv

\* A token begins with its input and, in a later block, the skip marker.
LEMMA StartTokenKeeps ==
    ASSUME ExpertAssumption, EInv, StartToken
    PROVE  EInv'
  <1>1. host.pc = "idle" /\ tr = "READY" /\ host \in Host /\ ctx \in Context
    BY DEF StartToken, EInv, Types
  <1>2. First \in Nat /\ Final \in Nat /\ First <= Final
    BY <1>1, Layers
  <1>3. /\ host' = [host EXCEPT !.pc = "begin", !.run = @ + 1, !.layer = First, !.status = "ok",
                                !.cur = "in", !.hit = FALSE, !.moe = {}]
        /\ mem' = [mem EXCEPT !["in"] = [run |-> host.run + 1, at |-> Entry(First)]]
        /\ pend' = Seeded /\ disp' = [pending |-> FALSE, results |-> <<>>]
        /\ UNCHANGED <<tr, ctx, work, res, alive, wsess, gpu>>
    BY DEF StartToken, links
  <1>4. /\ host' \in Host /\ host'.pc = "begin" /\ host'.mode = host.mode
        /\ host'.run = host.run + 1 /\ host'.layer = First /\ host'.status = "ok"
        /\ host'.cur = "in" /\ host'.moe = {} /\ host'.req = host.req /\ host'.tok = host.tok
        /\ host'.profile = host.profile
    <2>1. host.run + 1 \in Nat /\ {} \in Results
      BY <1>1 DEF Host, Results
    <2> QED
      BY <1>1, <1>2, <1>3, <2>1 DEF Host, Running, InLayer, Tensors
  <1>5. First' = First /\ Final' = Final
    BY <1>4 DEF First, Final
  <1>6. mem' \in [Tensors -> State] /\ mem'["in"] = Hidden(Entry(First))'
    <2>1. [run |-> host.run + 1, at |-> Entry(First)] \in State
      BY <1>1, <1>2, Entries DEF Host, State
    <2>2. Hidden(Entry(First))' = [run |-> host.run + 1, at |-> Entry(First)]
      BY <1>4, <1>5 DEF Hidden, Entry
    <2> QED
      BY <1>3, <2>1, <2>2 DEF EInv, Types, Tensors
  <1>7. pend' = IF First = 0 THEN NoWrite
                ELSE [NoWrite EXCEPT !.active = TRUE, !.skip = TRUE, !.layer = First - 1,
                                     !.tok = host.tok]
    <2>1. pend = NoWrite
      BY <1>1 DEF EInv, MemOK
    <2>2. host.mode = "parallel" => First = 0
      BY <1>1, Layers
    <2> QED
      BY <1>3, <2>1, <2>2 DEF Seeded
  <1>8. pend' \in Write
    <2>1. First # 0 => First - 1 \in Nat
      BY <1>2
    <2> QED
      BY <1>1, <1>7, <2>1 DEF NoWrite, Write, Tensors, Host
  <1>9. Types'
    <2>1. disp' \in [pending : BOOLEAN, results : {<<>>, <<0>>}]
      BY <1>3
    <2> QED
      BY <1>3, <1>4, <1>6, <1>8, <2>1 DEF EInv, Types
  <1>10. PlaceOK'
    BY <1>2, <1>4, <1>5 DEF PlaceOK, Firing
  <1>11. ASSUME NEW w \in Workers PROVE Flow(w)'
    BY <1>3, <1>4, FlowSame DEF EInv
  <1>12. CountsOK'
    BY <1>3, <1>4 DEF EInv, CountsOK, Firing
  <1>13. TransportOK'
    BY <1>1, <1>3, <1>4 DEF EInv, TransportOK, Firing
  <1>14. GotOK'
    BY <1>4 DEF GotOK, InLayer
  <1>15. MemOK'
    BY <1>4, <1>5, <1>6, <1>7 DEF MemOK, InLayer, Entering
  <1>16. GpuOK'
    <2>1. disp'.pending = FALSE
      BY <1>3
    <2>2. ~gpu.pending /\ gpu.queued = 0
      BY <1>1 DEF EInv, GpuOK
    <2> QED
      BY <1>3, <1>4, <2>1, <2>2 DEF GpuOK
  <1> QED
    BY <1>9, <1>10, <1>11, <1>12, <1>13, <1>14, <1>15, <1>16 DEF EInv

\* A deferred write that is made leads to the entry of the next layer.
LEMMA FlushRight ==
    ASSUME EInv, NEW l \in Nat, Deferred(l)
    PROVE  Flushed \in [Tensors -> State] /\ Flushed[host.cur] = Hidden(Entry(l + 1))
  <1>1. host \in Host /\ mem \in [Tensors -> State] /\ host.cur \in Tensors
    BY DEF EInv, Types, Host
  <1>2. MoeExact
    BY DEF EInv, GotOK, SumOf, Deferred, MoeExact
  <1>3. Flushed = [mem EXCEPT ![host.cur] = Hidden(Entry(l + 1))]
    BY <1>2 DEF Deferred, Flushed
  <1>4. Hidden(Entry(l + 1)) \in State
    BY <1>1, Entries, HiddenIs
  <1> QED
    BY <1>1, <1>3, <1>4

\* A begin always finds the write it expects, and makes it.
LEMMA BeginsMatch ==
    ASSUME ExpertAssumption, EInv, host.pc = "begin"
    PROVE  /\ WriteMatches /\ Flushed \in [Tensors -> State]
           /\ Flushed[host.cur] = Hidden(Entry(host.layer))
  <1>1. host \in Host /\ mem \in [Tensors -> State] /\ host.layer \in Nat /\ host.tok \in Nat
    BY DEF EInv, Types, Host
  <1>2. First \in Nat /\ First <= host.layer
    BY <1>1, Layers DEF EInv, PlaceOK, Running
  <1>3. CASE host.layer = First
    <2>1. Entering
      BY <1>3 DEF EInv, MemOK
    <2>2. CASE First = 0
      <3>1. pend = NoWrite
        BY <2>1, <2>2 DEF Entering
      <3>2. pend.active = FALSE
        BY <3>1 DEF NoWrite
      <3>3. WriteMatches /\ Flushed = mem
        BY <1>3, <2>2, <3>2 DEF WriteMatches, Flushed
      <3> QED
        BY <1>1, <1>3, <2>1, <3>3 DEF Entering
    <2>3. CASE First # 0
      <3>1. pend = [NoWrite EXCEPT !.active = TRUE, !.skip = TRUE, !.layer = First - 1,
                                   !.tok = host.tok]
        BY <2>1, <2>3 DEF Entering
      <3>2. /\ pend.active = TRUE /\ pend.skip = TRUE /\ pend.layer = First - 1
            /\ pend.tok = host.tok /\ pend.out = "in"
        BY <3>1 DEF NoWrite
      <3>3. pend.layer + 1 = host.layer
        BY <1>2, <1>3, <3>2
      <3>4. WriteMatches /\ Flushed = mem
        BY <1>3, <2>1, <2>3, <3>2, <3>3 DEF WriteMatches, Flushed, Entering
      <3> QED
        BY <1>1, <1>3, <2>1, <3>4 DEF Entering
    <2> QED
      BY <2>2, <2>3
  <1>4. CASE host.layer # First
    <2>1. PICK l \in Nat : l = host.layer - 1
      BY <1>1, <1>2, <1>4
    <2>2. Deferred(l) /\ l + 1 = host.layer /\ host.layer # 0
      BY <1>1, <1>4, <2>1 DEF EInv, MemOK
    <2>3. WriteMatches
      BY <2>2 DEF Deferred, WriteMatches
    <2> QED
      BY <2>2, <2>3, FlushRight
  <1> QED
    BY <1>3, <1>4

\* The first batch of a layer.
LEMMA BeginLayerKeeps ==
    ASSUME ExpertAssumption, EInv, BeginLayer
    PROVE  EInv'
  <1>1. host.pc = "begin" /\ host \in Host /\ ctx \in Context /\ host.layer \in Nat
    BY DEF BeginLayer, EInv, Types, Host
  <1>2. PICK b : b = BatchOne(Flushed)
    OBVIOUS
  <1>3. /\ b.mem \in [Tensors -> State] /\ b.residual \in Tensors
        /\ b.mem[b.residual] = Hidden(3 * host.layer + 2)
    BY <1>1, <1>2, BeginsMatch, BatchRight
  <1>4. /\ mem' = b.mem
        /\ host' = [host EXCEPT !.pc = "fire", !.residual = b.residual, !.moe = {}, !.got = {}]
        /\ pend' = NoWrite /\ UNCHANGED <<tr, ctx, work, res, alive, wsess, gpu, disp>>
    BY <1>2 DEF BeginLayer, links
  <1>5. /\ host' \in Host /\ host'.pc = "fire" /\ host'.mode = host.mode /\ host'.run = host.run
        /\ host'.layer = host.layer /\ host'.status = host.status /\ host'.residual = b.residual
        /\ host'.moe = {} /\ host'.got = {} /\ host'.req = host.req /\ host'.hit = host.hit
        /\ host'.profile = host.profile
    <2>1. {} \in Results
      BY DEF Results
    <2> QED
      BY <1>1, <1>3, <1>4, <2>1 DEF Host, Running, InLayer
  <1>6. First' = First /\ Final' = Final
    BY <1>5 DEF First, Final
  <1>7. mem'[host'.residual] = Hidden(3 * host.layer + 2)'
    BY <1>3, <1>4, <1>5 DEF Hidden
  <1>8. Types'
    <2>1. pend' \in Write
      BY <1>4 DEF NoWrite, Write, Tensors
    <2> QED
      BY <1>3, <1>4, <1>5, <2>1 DEF EInv, Types
  <1>9. PlaceOK'
    BY <1>1, <1>4, <1>5, <1>6 DEF EInv, PlaceOK, Firing, Running, InLayer
  <1>10. ASSUME NEW w \in Workers PROVE Flow(w)'
    BY <1>4, <1>5, FlowSame DEF EInv
  <1>11. CountsOK'
    BY <1>4, <1>5 DEF EInv, CountsOK, Firing
  <1>12. TransportOK'
    BY <1>1, <1>4, <1>5 DEF EInv, TransportOK, Firing
  <1>13. GotOK'
    BY <1>5 DEF GotOK
  <1>14. MemOK'
    BY <1>4, <1>5, <1>7 DEF MemOK, InLayer
  <1>15. GpuOK'
    BY <1>1, <1>4, <1>5 DEF EInv, GpuOK
  <1> QED
    BY <1>8, <1>9, <1>10, <1>11, <1>12, <1>13, <1>14, <1>15 DEF EInv

\* A token fails outside a fire: whatever it deferred, the links and the graph are quiet.
LEMMA FailsKeeps ==
    ASSUME EInv, host.pc \in {"begin", "finish", "return"},
           host' \in Host, host'.pc = "failed", host'.status = "err", host'.moe = host.moe,
           host'.mode = host.mode, host'.req = host.req, host'.profile = host.profile,
           host'.hit \/ alive # Workers, pend' \in Write,
           UNCHANGED <<tr, ctx, work, res, alive, wsess, mem, gpu, disp>>
    PROVE  EInv'
  <1>1. Types'
    BY DEF EInv, Types
  <1>2. PlaceOK'
    BY DEF PlaceOK, Running, InLayer, Firing
  <1>3. ASSUME NEW w \in Workers PROVE Flow(w)'
    BY FlowSame DEF EInv
  <1>4. CountsOK'
    BY DEF EInv, CountsOK, Firing
  <1>5. TransportOK'
    BY DEF EInv, TransportOK, Firing
  <1>6. GotOK'
    BY DEF EInv, GotOK, InLayer, SumOf
  <1>7. MemOK'
    BY DEF MemOK, InLayer
  <1>8. GpuOK'
    BY DEF EInv, GpuOK
  <1> QED
    BY <1>1, <1>2, <1>3, <1>4, <1>5, <1>6, <1>7, <1>8 DEF EInv

\* A fault that hits the thread.
LEMMA HitIs ==
    ASSUME ExpertAssumption, host \in Host, Faulty
    PROVE  /\ Hit(host) \in Host /\ Hit(host).hit = TRUE /\ Hit(host).status = "err"
           /\ Hit(host) = [host EXCEPT !.faults = host.faults - 1, !.hit = TRUE, !.status = "err"]
  <1>1. host.faults - 1 \in 0 .. MaxFaults
    BY Numbers DEF Host, Faulty
  <1>2. Hit(host) = [host EXCEPT !.faults = host.faults - 1, !.hit = TRUE, !.status = "err"]
    BY DEF Hit
  <1> QED
    BY <1>1, <1>2 DEF Host

\* The first batch fails.
LEMMA BeginFailsKeeps ==
    ASSUME ExpertAssumption, EInv, BeginFails
    PROVE  EInv'
  <1>1. host.pc = "begin" /\ host \in Host /\ WriteMatches
    BY BeginsMatch DEF BeginFails, EInv, Types
  <1>2. /\ Faulty /\ host' = [Hit(host) EXCEPT !.pc = "failed"]
        /\ pend' \in {pend, NoWrite} /\ UNCHANGED <<tr, ctx, work, res, alive, wsess, mem, gpu, disp>>
    BY <1>1 DEF BeginFails, links
  <1>3. host' = [host EXCEPT !.faults = host.faults - 1, !.hit = TRUE, !.status = "err", !.pc = "failed"]
        /\ host.faults - 1 \in 0 .. MaxFaults
    BY <1>1, <1>2, HitIs DEF Host
  <1>4. /\ host' \in Host /\ host'.pc = "failed" /\ host'.status = "err" /\ host'.moe = host.moe
        /\ host'.mode = host.mode /\ host'.req = host.req /\ host'.profile = host.profile
        /\ host'.hit = TRUE
    BY <1>1, <1>3 DEF Host
  <1>5. pend' \in Write
    <2>1. pend \in Write
      BY DEF EInv, Types
    <2>2. NoWrite \in Write
      BY DEF NoWrite, Write, Tensors
    <2> QED
      BY <1>2, <2>1, <2>2
  <1> QED
    BY <1>1, <1>2, <1>4, <1>5, FailsKeeps

\* What a new fire asks for.
LEMMA PartitionIs ==
    ASSUME ExpertAssumption, EInv, NEW routes \in SUBSET Ranks, routes \ {0} \in SUBSET Workers
    PROVE  /\ Partition(routes) \in Context
           /\ Partition(routes).req = host.req /\ Partition(routes).n = host.fires + 1
           /\ Partition(routes).routes = routes /\ Partition(routes).left = routes \ {0}
           /\ Partition(routes).expected = {} /\ Partition(routes).seen = {}
           /\ Partition(routes).remote = 0 /\ Partition(routes).received = 0
           /\ Partition(routes).failed = FALSE /\ Partition(routes).discard = FALSE
  <1>1. host.req \in Nat /\ host.tok \in Nat /\ host.fires \in Nat /\ host.layer \in Nat
    BY DEF EInv, Types, Host
  <1>2. Sequence \in Nat /\ host.fires + 1 \in Nat
    BY <1>1, Numbers DEF Sequence
  <1>3. PICK sent \in SUBSET Workers : sent = routes \ {0}
    OBVIOUS
  <1>4. Partition(routes) =
          [NoRoute EXCEPT !.req = host.req, !.seq = Sequence, !.n = host.fires + 1,
                          !.routes = routes, !.left = sent]
    BY <1>3 DEF Partition
  <1>5. NoRoute \in Context
    BY DEF NoRoute, Context
  <1>6. Partition(routes) \in Context
    BY <1>1, <1>2, <1>3, <1>4, <1>5 DEF Context
  <1> QED
    BY <1>3, <1>4, <1>6 DEF NoRoute

\* When a layer fires, nothing of an earlier fire is on a link.
LEMMA FireQuiet ==
    ASSUME EInv, host.pc = "fire", NEW w \in Workers
    PROVE  work[w] = <<>> /\ res[w] = <<>>
  <1>1. ctx.expected = ctx.seen
    BY DEF EInv, TransportOK, Firing
  <1> QED
    BY <1>1 DEF EInv, Flow

\* The experts are routed.
LEMMA FireRoutesKeeps ==
    ASSUME ExpertAssumption, EInv, FireRoutes
    PROVE  EInv'
  <1>1. /\ host.pc = "fire" /\ host.mode = "parallel" /\ host \in Host /\ host.status = "ok"
        /\ tr = "READY"
    BY DEF FireRoutes, EInv, Types, PlaceOK, TransportOK, Firing
  <1>2. PICK routes \in (SUBSET Ranks) \ {{}} : ctx' = Partition(routes)
    BY DEF FireRoutes
  <1>3. routes \in SUBSET Ranks /\ routes # {} /\ routes \ {0} \in SUBSET Workers
    BY <1>2 DEF Ranks
  <1>4. /\ ctx' \in Context /\ ctx'.req = host.req /\ ctx'.n = host.fires + 1
        /\ ctx'.routes = routes /\ ctx'.left = routes \ {0} /\ ctx'.expected = {} /\ ctx'.seen = {}
        /\ ctx'.remote = 0 /\ ctx'.received = 0 /\ ctx'.failed = FALSE /\ ctx'.discard = FALSE
    BY <1>2, <1>3, PartitionIs
  <1>5. /\ host' = [host EXCEPT !.pc = "send", !.fires = @ + 1]
        /\ UNCHANGED <<tr, work, res, alive, wsess, pend, mem, gpu, disp>>
    BY DEF FireRoutes, links
  <1>6. /\ host' \in Host /\ host'.pc = "send" /\ host'.mode = host.mode /\ host'.run = host.run
        /\ host'.layer = host.layer /\ host'.status = "ok" /\ host'.residual = host.residual
        /\ host'.moe = host.moe /\ host'.got = host.got /\ host'.req = host.req
        /\ host'.profile = host.profile
    <2>1. host.fires + 1 \in Nat
      BY <1>1 DEF Host
    <2> QED
      BY <1>1, <1>5, <2>1 DEF Host, Running, InLayer
  <1>7. First' = First /\ Final' = Final /\ Hidden(3 * host.layer + 2)' = Hidden(3 * host.layer + 2)
    BY <1>6 DEF First, Final, Hidden
  <1>8. Types'
    BY <1>4, <1>5, <1>6 DEF EInv, Types
  <1>9. PlaceOK'
    BY <1>1, <1>5, <1>6, <1>7 DEF EInv, PlaceOK, Firing, Running, InLayer
  <1>10. ASSUME NEW w \in Workers PROVE Flow(w)'
    BY <1>1, <1>4, <1>5, FireQuiet DEF Flow
  <1>11. CountsOK'
    BY <1>3, <1>4, <1>6, FS_EmptySet DEF CountsOK, Firing
  <1>12. TransportOK'
    BY <1>1, <1>4, <1>5, <1>6 DEF TransportOK, Firing
  <1>13. GotOK'
    BY <1>1, <1>6 DEF EInv, GotOK, InLayer
  <1>14. MemOK'
    BY <1>1, <1>5, <1>6, <1>7 DEF EInv, MemOK, InLayer
  <1>15. GpuOK'
    BY <1>1, <1>5, <1>6 DEF EInv, GpuOK
  <1> QED
    BY <1>8, <1>9, <1>10, <1>11, <1>12, <1>13, <1>14, <1>15 DEF EInv

\* The routing is refused.
LEMMA FireRefusedKeeps ==
    ASSUME ExpertAssumption, EInv, FireRefused
    PROVE  EInv'
  <1>1. /\ host.pc = "fire" /\ host.mode = "parallel" /\ host \in Host /\ tr = "READY" /\ Faulty
    BY DEF FireRefused, EInv, Types, TransportOK, Firing
  <1>2. {} \in SUBSET Ranks /\ {} \ {0} = {} /\ {} \ {0} \in SUBSET Workers
    OBVIOUS
  <1>3. PICK c : c = Partition({})
    OBVIOUS
  <1>4. /\ c \in Context /\ c.req = host.req /\ c.n = host.fires + 1
        /\ c.routes = {} /\ c.left = {} /\ c.expected = {} /\ c.seen = {}
        /\ c.remote = 0 /\ c.received = 0 /\ c.failed = FALSE
    BY <1>2, <1>3, PartitionIs
  <1>5. ctx' = [c EXCEPT !.discard = TRUE]
    BY <1>3 DEF FireRefused
  <1>6. /\ ctx' \in Context /\ ctx'.left = {} /\ ctx'.expected = {} /\ ctx'.seen = {}
        /\ ctx'.remote = 0 /\ ctx'.received = 0 /\ ctx'.failed = FALSE /\ ctx'.discard = TRUE
    BY <1>4, <1>5 DEF Context
  <1>7. /\ host' = [host EXCEPT !.faults = host.faults - 1, !.hit = TRUE, !.status = "err",
                                !.pc = "local", !.fires = host.fires + 1]
        /\ host.faults - 1 \in 0 .. MaxFaults
        /\ UNCHANGED <<tr, work, res, alive, wsess, pend, mem, gpu, disp>>
    BY <1>1, HitIs DEF FireRefused, links, Host
  <1>8. /\ host' \in Host /\ host'.pc = "local" /\ host'.mode = host.mode /\ host'.run = host.run
        /\ host'.layer = host.layer /\ host'.status = "err" /\ host'.residual = host.residual
        /\ host'.moe = host.moe /\ host'.got = host.got /\ host'.req = host.req
        /\ host'.profile = host.profile /\ host'.hit = TRUE
    <2>1. host.fires + 1 \in Nat
      BY <1>1 DEF Host
    <2> QED
      BY <1>1, <1>7, <2>1 DEF Host, Running, InLayer
  <1>9. First' = First /\ Final' = Final /\ Hidden(3 * host.layer + 2)' = Hidden(3 * host.layer + 2)
    BY <1>8 DEF First, Final, Hidden
  <1>10. Types'
    BY <1>6, <1>7, <1>8 DEF EInv, Types
  <1>11. PlaceOK'
    BY <1>1, <1>7, <1>8, <1>9 DEF EInv, PlaceOK, Firing, Running, InLayer
  <1>12. ASSUME NEW w \in Workers PROVE Flow(w)'
    BY <1>1, <1>6, <1>7, FireQuiet DEF Flow
  <1>13. CountsOK'
    BY <1>6, <1>8, FS_EmptySet DEF CountsOK, Firing
  <1>14. TransportOK'
    BY <1>1, <1>6, <1>7, <1>8 DEF TransportOK, Firing
  <1>15. GotOK'
    BY <1>1, <1>8 DEF EInv, GotOK, InLayer
  <1>16. MemOK'
    BY <1>1, <1>7, <1>8, <1>9 DEF EInv, MemOK, InLayer
  <1>17. GpuOK'
    BY <1>1, <1>7, <1>8 DEF EInv, GpuOK
  <1> QED
    BY <1>10, <1>11, <1>12, <1>13, <1>14, <1>15, <1>16, <1>17 DEF EInv

\* A frame is sent to a worker, or into the socket of one that has ended.
LEMMA SendKeeps ==
    ASSUME ExpertAssumption, EInv, Send
    PROVE  EInv'
  <1>1. /\ host.pc = "send" /\ host.mode = "parallel" /\ host \in Host /\ ctx \in Context
        /\ host.status = "ok"
    BY DEF Send, EInv, Types, PlaceOK, Firing
  <1>2. PICK r \in ctx.left :
          /\ ctx' = Sent(r)
          /\ work' = IF r \in alive
                     THEN [work EXCEPT ![r] = Append(@, [req |-> ctx.req, seq |-> ctx.seq, n |-> ctx.n])]
                     ELSE work
    BY DEF Send
  <1>3. /\ r \in Workers /\ r \notin ctx.expected /\ r \notin ctx.seen
        /\ ctx.left \in SUBSET Workers /\ ctx.expected \in SUBSET Workers
        /\ ctx.remote \in Nat /\ ctx.remote = Cardinality(ctx.expected)
    BY <1>1, <1>2 DEF Context, EInv, CountsOK
  <1>4. tr' = Pending(tr) /\ UNCHANGED <<res, alive, wsess, pend, mem, gpu, disp, host>>
    BY DEF Send
  <1>5. /\ ctx' \in Context /\ ctx'.req = ctx.req /\ ctx'.seq = ctx.seq /\ ctx'.n = ctx.n
        /\ ctx'.routes = ctx.routes /\ ctx'.left = ctx.left \ {r}
        /\ ctx'.expected = ctx.expected \cup {r} /\ ctx'.seen = ctx.seen
        /\ ctx'.remote = ctx.remote + 1 /\ ctx'.received = ctx.received
        /\ ctx'.failed = ctx.failed /\ ctx'.discard = ctx.discard
    <2>1. /\ ctx.left \ {r} \in SUBSET Workers /\ ctx.expected \cup {r} \in SUBSET Workers
          /\ ctx.remote + 1 \in Nat
      BY <1>3
    <2> QED
      BY <1>1, <1>2, <2>1 DEF Sent, Context
  <1>6. tr' \in {"READY", "PENDING", "POISONED"} /\ (tr' = "POISONED" <=> tr = "POISONED")
    BY <1>4 DEF Pending, EInv, Types
  <1>7. Types'
    <2>1. work' = [w \in Workers |-> work'[w]]
      BY <1>2 DEF EInv, Types
    <2> QED
      BY <1>4, <1>5, <1>6, <2>1 DEF EInv, Types
  <1>8. PlaceOK'
    BY <1>4 DEF EInv, PlaceOK, First, Final
  <1>9. ASSUME NEW w \in Workers PROVE Flow(w)'
    <2>1. Asked' = Asked /\ Flow(w)
      BY <1>5 DEF Asked, EInv
    <2>2. CASE w # r
      <3>1. work'[w] = work[w]
        BY <1>2, <2>2 DEF EInv, Types
      <3>2. w \in ctx'.expected \ ctx'.seen <=> w \in ctx.expected \ ctx.seen
        BY <1>5, <2>2
      <3> QED
        BY <1>4, <1>5, <2>1, <3>1, <3>2 DEF Flow
    <2>3. CASE w = r
      <3>1. work[w] = <<>> /\ res[w] = <<>>
        BY <1>3, <2>1, <2>3 DEF Flow
      <3>2. w \in ctx'.expected \ ctx'.seen /\ ctx'.req = host'.req
        BY <1>1, <1>3, <1>4, <1>5, <2>3 DEF EInv, CountsOK
      <3>3. w \in alive => work'[w] = <<Asked>>
        <4>1. w \in alive => work'[w] = Append(work[w], Asked)
          BY <1>2, <2>3 DEF EInv, Types, Asked
        <4> QED
          BY <3>1, <4>1
      <3>4. w \notin alive => work'[w] = <<>>
        BY <1>2, <2>3, <3>1
      <3> QED
        BY <1>4, <2>1, <3>1, <3>2, <3>3, <3>4 DEF Flow
    <2> QED
      BY <2>2, <2>3
  <1>10. CountsOK'
    <2>1. Cardinality(ctx.expected \cup {r}) = ctx.remote + 1
      <3>1. IsFiniteSet(ctx.expected)
        BY <1>3, Numbers, FS_Subset
      <3> QED
        BY <1>3, <3>1, FS_AddElement
    <2>2. ctx'.seen \subseteq ctx'.expected /\ ctx'.left \cap ctx'.expected = {}
      BY <1>5 DEF EInv, CountsOK
    <2>3. ctx'.left \cup ctx'.expected = ctx.left \cup ctx.expected
      BY <1>2, <1>5
    <2> QED
      BY <1>1, <1>4, <1>5, <2>1, <2>2, <2>3 DEF EInv, CountsOK, Firing
  <1>11. TransportOK'
    BY <1>1, <1>4, <1>5, <1>6 DEF EInv, TransportOK, Firing
  <1>12. GotOK'
    BY <1>1, <1>4 DEF EInv, GotOK, InLayer
  <1>13. MemOK'
    BY <1>1, <1>4 DEF EInv, MemOK, InLayer, Hidden
  <1>14. GpuOK'
    BY <1>1, <1>4 DEF EInv, GpuOK
  <1> QED
    BY <1>7, <1>8, <1>9, <1>10, <1>11, <1>12, <1>13, <1>14 DEF EInv

\* A send to a worker that has ended fails.
LEMMA SendFailsKeeps ==
    ASSUME ExpertAssumption, EInv, SendFails
    PROVE  EInv'
  <1>1. /\ host.pc = "send" /\ host.mode = "parallel" /\ host \in Host /\ ctx \in Context
        /\ ctx.left \subseteq Workers /\ alive # Workers
    BY DEF SendFails, EInv, Types, PlaceOK, Firing, Context
  <1>2. /\ ctx' = [ctx EXCEPT !.failed = TRUE, !.discard = TRUE, !.left = {}]
        /\ tr' = "POISONED" /\ host' = [host EXCEPT !.pc = "local", !.status = "err"]
        /\ UNCHANGED <<work, res, alive, wsess, pend, mem, gpu, disp>>
    BY DEF SendFails, links
  <1>3. /\ ctx' \in Context /\ ctx'.req = ctx.req /\ ctx'.seq = ctx.seq /\ ctx'.n = ctx.n
        /\ ctx'.left = {} /\ ctx'.expected = ctx.expected /\ ctx'.seen = ctx.seen
        /\ ctx'.remote = ctx.remote /\ ctx'.received = ctx.received
        /\ ctx'.failed = TRUE /\ ctx'.discard = TRUE
    BY <1>1, <1>2 DEF Context
  <1>4. /\ host' \in Host /\ host'.pc = "local" /\ host'.mode = host.mode /\ host'.run = host.run
        /\ host'.layer = host.layer /\ host'.status = "err" /\ host'.residual = host.residual
        /\ host'.moe = host.moe /\ host'.got = host.got /\ host'.req = host.req
        /\ host'.profile = host.profile
    BY <1>1, <1>2 DEF Host, Running, InLayer
  <1>5. First' = First /\ Final' = Final /\ Hidden(3 * host.layer + 2)' = Hidden(3 * host.layer + 2)
    BY <1>4 DEF First, Final, Hidden
  <1>6. Types'
    BY <1>2, <1>3, <1>4 DEF EInv, Types
  <1>7. PlaceOK'
    BY <1>1, <1>2, <1>4, <1>5 DEF EInv, PlaceOK, Firing, Running, InLayer
  <1>8. ASSUME NEW w \in Workers PROVE Flow(w)'
    BY <1>2, <1>3, <1>4, FlowSame DEF EInv
  <1>9. CountsOK'
    BY <1>1, <1>2, <1>3, <1>4 DEF EInv, CountsOK, Firing
  <1>10. TransportOK'
    BY <1>2, <1>3, <1>4 DEF TransportOK, Firing
  <1>11. GotOK'
    BY <1>1, <1>4 DEF EInv, GotOK, InLayer
  <1>12. MemOK'
    BY <1>1, <1>2, <1>4, <1>5 DEF EInv, MemOK, InLayer
  <1>13. GpuOK'
    BY <1>1, <1>2, <1>4 DEF EInv, GpuOK
  <1> QED
    BY <1>6, <1>7, <1>8, <1>9, <1>10, <1>11, <1>12, <1>13 DEF EInv

\* The sealed rank submits its expert graph, or fails to.
LEMMA SubmitKeeps ==
    ASSUME ExpertAssumption, EInv, Submit
    PROVE  EInv'
  <1>1. /\ host.pc = "fire" /\ host.mode = "sealed" /\ host \in Host /\ host.status = "ok"
        /\ tr = "READY"
    BY DEF Submit, EInv, Types, PlaceOK, TransportOK, Firing
  <1>2. /\ disp.pending = FALSE /\ gpu.pending = FALSE /\ gpu.queued = 0
        /\ disp \in [pending : BOOLEAN, results : {<<>>, <<0>>}]
        /\ gpu \in [pending : BOOLEAN, queued : Nat, reduced : Nat]
    BY <1>1 DEF EInv, GpuOK, Types
  <1>3. GraphFree
    BY <1>2 DEF GraphFree
  <1>4. /\ {0} \in SUBSET Ranks /\ {0} \ {0} = {} /\ {0} \ {0} \in SUBSET Workers
        /\ host.fires + 1 \in Nat /\ host.fires + 1 > 0
    BY <1>1 DEF Ranks, Host
  <1>5. /\ ctx' = Partition({0}) /\ UNCHANGED <<tr, work, res, alive, wsess, pend, mem>>
    BY DEF Submit, links
  <1>6. /\ ctx' \in Context /\ ctx'.n = host.fires + 1
        /\ ctx'.routes = {0} /\ ctx'.left = {} /\ ctx'.expected = {} /\ ctx'.seen = {}
        /\ ctx'.remote = 0 /\ ctx'.received = 0 /\ ctx'.failed = FALSE /\ ctx'.discard = FALSE
    BY <1>4, <1>5, PartitionIs
  <1>7. /\ host' \in Host /\ host'.mode = host.mode /\ host'.run = host.run
        /\ host'.layer = host.layer /\ host'.residual = host.residual
        /\ host'.moe = host.moe /\ host'.req = host.req /\ host'.profile = host.profile
        /\ \/ /\ host'.pc = "shared" /\ host'.status = "ok" /\ gpu' = GraphSubmit(host.fires + 1)
              /\ disp' = [pending |-> TRUE, results |-> <<0>>]
           \/ /\ host'.pc = "collect" /\ host'.status = "err" /\ host'.hit = TRUE
              /\ disp' = [disp EXCEPT !.results = <<>>] /\ gpu' = gpu
    <2>1. CASE /\ gpu' = GraphSubmit(host.fires + 1)
               /\ disp' = [pending |-> TRUE, results |-> <<0>>]
               /\ host' = [host EXCEPT !.pc = "shared", !.fires = @ + 1]
      BY <1>1, <1>4, <2>1 DEF Host, Running, InLayer
    <2>2. CASE /\ Faulty /\ disp' = [disp EXCEPT !.results = <<>>]
               /\ host' = [Hit(host) EXCEPT !.pc = "collect", !.fires = @ + 1] /\ gpu' = gpu
      <3>1. /\ host' = [host EXCEPT !.faults = host.faults - 1, !.hit = TRUE, !.status = "err",
                                    !.pc = "collect", !.fires = host.fires + 1]
            /\ host.faults - 1 \in 0 .. MaxFaults
        BY <1>1, <2>2, HitIs DEF Host
      <3> QED
        BY <1>1, <1>4, <2>2, <3>1, ZenonT(60) DEF Host, Running, InLayer
    <2> QED
      BY <1>3, <2>1, <2>2 DEF Submit
  <1>8. First' = First /\ Final' = Final /\ Hidden(3 * host.layer + 2)' = Hidden(3 * host.layer + 2)
    BY <1>7 DEF First, Final, Hidden
  <1>9. /\ gpu' \in [pending : BOOLEAN, queued : Nat, reduced : Nat]
        /\ disp' \in [pending : BOOLEAN, results : {<<>>, <<0>>}] /\ GpuOK'
    <2>1. CASE host'.pc = "shared"
      <3>1. gpu' = GraphSubmit(host.fires + 1) /\ disp' = [pending |-> TRUE, results |-> <<0>>]
        BY <1>7, <2>1
      <3>2. disp' \in [pending : BOOLEAN, results : {<<>>, <<0>>}] /\ disp'.pending = TRUE
            /\ disp'.results = <<0>>
        BY <3>1
      <3>3. CASE host.profile
        <4>1. gpu' = [gpu EXCEPT !.reduced = host.fires + 1]
          BY <3>1, <3>3 DEF GraphSubmit
        <4>2. /\ gpu' \in [pending : BOOLEAN, queued : Nat, reduced : Nat]
              /\ gpu'.pending = FALSE /\ gpu'.queued = 0 /\ gpu'.reduced = host.fires + 1
          BY <1>2, <1>4, <4>1
        <4> QED
          BY <1>4, <1>6, <1>7, <2>1, <3>2, <3>3, <4>2 DEF GpuOK
      <3>4. CASE ~host.profile
        <4>1. gpu' = [gpu EXCEPT !.pending = TRUE, !.queued = host.fires + 1]
          BY <3>1, <3>4 DEF GraphSubmit
        <4>2. /\ gpu' \in [pending : BOOLEAN, queued : Nat, reduced : Nat]
              /\ gpu'.pending = TRUE /\ gpu'.queued = host.fires + 1
          BY <1>2, <1>4, <4>1
        <4> QED
          BY <1>4, <1>6, <1>7, <2>1, <3>2, <3>4, <4>2 DEF GpuOK
      <3> QED
        BY <3>3, <3>4
    <2>2. CASE host'.pc = "collect"
      <3>1. disp' = [disp EXCEPT !.results = <<>>] /\ gpu' = gpu /\ host'.status = "err"
        BY <1>7, <2>2
      <3>2. disp' \in [pending : BOOLEAN, results : {<<>>, <<0>>}] /\ disp'.pending = FALSE
        BY <1>2, <3>1
      <3> QED
        BY <1>2, <2>2, <3>1, <3>2 DEF GpuOK
    <2> QED
      BY <1>7, <2>1, <2>2
  <1>10. Types'
    BY <1>5, <1>6, <1>7, <1>9 DEF EInv, Types
  <1>11. PlaceOK'
    BY <1>1, <1>5, <1>7, <1>8 DEF EInv, PlaceOK, Firing, Running, InLayer
  <1>12. ASSUME NEW w \in Workers PROVE Flow(w)'
    BY <1>1, <1>5, <1>6, FireQuiet DEF Flow
  <1>13. CountsOK'
    BY <1>4, <1>6, <1>7, FS_EmptySet DEF CountsOK, Firing
  <1>14. TransportOK'
    BY <1>1, <1>5, <1>6, <1>7 DEF TransportOK, Firing
  <1>15. GotOK'
    BY <1>1, <1>7 DEF EInv, GotOK, InLayer
  <1>16. MemOK'
    BY <1>1, <1>5, <1>7, <1>8 DEF EInv, MemOK, InLayer
  <1> QED
    BY <1>9, <1>10, <1>11, <1>12, <1>13, <1>14, <1>15, <1>16 DEF EInv

\* The device runs the graph.
LEMMA GraphKeeps ==
    ASSUME EInv, Graph
    PROVE  EInv'
  <1>1. /\ gpu.queued > 0 /\ gpu' = [gpu EXCEPT !.reduced = gpu.queued, !.queued = 0]
        /\ UNCHANGED <<tr, ctx, work, res, alive, wsess, pend, mem, disp, host>>
    BY DEF Graph, links
  <1>2. gpu \in [pending : BOOLEAN, queued : Nat, reduced : Nat]
    BY DEF EInv, Types
  <1>3. gpu.queued # 0 /\ gpu.queued \in Nat
    BY <1>1, <1>2
  <1>4. /\ gpu' \in [pending : BOOLEAN, queued : Nat, reduced : Nat]
        /\ gpu'.pending = gpu.pending /\ gpu'.queued = 0 /\ gpu'.reduced = gpu.queued
    BY <1>1, <1>2, <1>3
  <1>5. disp.pending /\ ~host.profile /\ gpu.pending /\ gpu.queued = ctx.n
    BY <1>3 DEF EInv, GpuOK
  <1>6. GpuOK'
    BY <1>1, <1>4, <1>5 DEF EInv, GpuOK
  <1>7. ASSUME NEW w \in Workers PROVE Flow(w)'
    BY <1>1, FlowSame DEF EInv
  <1>8. Types' /\ PlaceOK' /\ CountsOK'
    BY <1>1, <1>4 DEF EInv, Types, PlaceOK, CountsOK, First, Final
  <1>9. TransportOK' /\ GotOK'
    BY <1>1 DEF EInv, TransportOK, GotOK, SumOf
  <1>10. MemOK'
    BY <1>1 DEF EInv, MemOK, Hidden, Entering, Deferred, First, Final
  <1> QED
    BY <1>6, <1>7, <1>8, <1>9, <1>10 DEF EInv

\* The shared expert's batch runs or fails.
LEMMA SharedKeeps ==
    ASSUME ExpertAssumption, EInv, Shared
    PROVE  EInv'
  <1>1. /\ host \in Host /\ host.status = "ok"
        /\ \/ host.pc = "send" /\ host.mode = "parallel" /\ ctx.left = {}
           \/ host.pc = "shared" /\ host.mode = "sealed"
    BY DEF Shared, EInv, Types, PlaceOK, Firing
  <1>2. UNCHANGED <<tr, ctx, work, res, alive, wsess, pend, mem, gpu, disp>>
    BY DEF Shared, links
  <1>3. /\ host' \in Host /\ host'.pc = CollectPc /\ host'.mode = host.mode /\ host'.run = host.run
        /\ host'.layer = host.layer /\ host'.residual = host.residual
        /\ host'.moe = host.moe /\ host'.got = host.got /\ host'.req = host.req
        /\ host'.profile = host.profile
        /\ host'.status = "ok" \/ (host'.status = "err" /\ host'.hit = TRUE)
    <2>1. CollectPc \in InLayer
      BY DEF CollectPc, InLayer
    <2>2. CASE host' = [host EXCEPT !.pc = CollectPc]
      BY <1>1, <2>1, <2>2 DEF Host, Running
    <2>3. CASE Faulty /\ host' = [Hit(host) EXCEPT !.pc = CollectPc]
      <3>1. /\ host' = [host EXCEPT !.faults = host.faults - 1, !.hit = TRUE, !.status = "err",
                                    !.pc = CollectPc]
            /\ host.faults - 1 \in 0 .. MaxFaults
        BY <1>1, <2>3, HitIs DEF Host
      <3> QED
        BY <1>1, <2>1, <3>1 DEF Host, Running
    <2> QED
      BY <2>2, <2>3 DEF Shared
  <1>4. \/ host.pc = "send" /\ host'.pc = "local" /\ ctx.left = {} /\ host.mode = "parallel"
        \/ host.pc = "shared" /\ host'.pc = "collect" /\ host.mode = "sealed"
    BY <1>1, <1>3 DEF CollectPc
  <1>5. First' = First /\ Final' = Final /\ Hidden(3 * host.layer + 2)' = Hidden(3 * host.layer + 2)
    BY <1>3 DEF First, Final, Hidden
  <1>6. Types'
    BY <1>2, <1>3 DEF EInv, Types
  <1>7. PlaceOK'
    BY <1>1, <1>2, <1>3, <1>4, <1>5 DEF EInv, PlaceOK, Firing, Running, InLayer
  <1>8. ASSUME NEW w \in Workers PROVE Flow(w)'
    BY <1>2, <1>3, FlowSame DEF EInv
  <1>9. CountsOK'
    BY <1>1, <1>2, <1>3, <1>4 DEF EInv, CountsOK, Firing
  <1>10. TransportOK'
    BY <1>1, <1>2, <1>4 DEF EInv, TransportOK, Firing
  <1>11. GotOK'
    BY <1>1, <1>3, <1>4 DEF EInv, GotOK, InLayer
  <1>12. MemOK'
    BY <1>1, <1>2, <1>3, <1>4, <1>5 DEF EInv, MemOK, InLayer
  <1>13. GpuOK'
    BY <1>1, <1>2, <1>3, <1>4 DEF EInv, GpuOK
  <1> QED
    BY <1>6, <1>7, <1>8, <1>9, <1>10, <1>11, <1>12, <1>13 DEF EInv

\* The local experts are computed first.
LEMMA LocalKeeps ==
    ASSUME ExpertAssumption, EInv, Local
    PROVE  EInv'
  <1>1. /\ host.pc = "local" /\ host \in Host /\ ctx \in Context /\ host.mode = "parallel"
        /\ ctx.seen = {} /\ host.got = {} /\ ctx.n \in Nat
    BY DEF Local, EInv, Types, PlaceOK, CountsOK, GotOK, Firing, Context
  <1>2. UNCHANGED <<tr, ctx, work, res, alive, wsess, pend, mem, gpu, disp>>
    BY DEF Local, links
  <1>3. {} \in Results /\ {<<0, ctx.n>>} \in Results
    BY <1>1 DEF Results, Ranks
  <1>4. /\ host' \in Host /\ host'.pc = "receive" /\ host'.mode = host.mode /\ host'.run = host.run
        /\ host'.layer = host.layer /\ host'.residual = host.residual
        /\ host'.moe = host.moe /\ host'.req = host.req /\ host'.profile = host.profile
        /\ \/ host'.status = "err" /\ host'.hit = TRUE
           \/ /\ host'.status = host.status /\ host'.hit = host.hit
              /\ \/ 0 \in ctx.routes /\ host'.got = {<<0, ctx.n>>}
                 \/ (ctx.discard \/ 0 \notin ctx.routes) /\ host'.got = {}
    <2>1. CASE 0 \in ctx.routes /\ host' = [host EXCEPT !.pc = "receive", !.got = {<<0, ctx.n>>}]
      BY <1>1, <1>3, <2>1 DEF Host, Running, InLayer
    <2>2. CASE Faulty /\ host' = [Hit(host) EXCEPT !.pc = "receive"]
      <3>1. /\ host' = [host EXCEPT !.faults = host.faults - 1, !.hit = TRUE, !.status = "err",
                                    !.pc = "receive"]
            /\ host.faults - 1 \in 0 .. MaxFaults
        BY <1>1, <2>2, HitIs DEF Host
      <3> QED
        BY <1>1, <3>1 DEF Host, Running, InLayer
    <2>3. CASE (ctx.discard \/ 0 \notin ctx.routes) /\ host' = [host EXCEPT !.pc = "receive"]
      BY <1>1, <1>3, <2>3 DEF Host, Running, InLayer
    <2> QED
      BY <2>1, <2>2, <2>3 DEF Local, Goto
  <1>5. First' = First /\ Final' = Final /\ Hidden(3 * host.layer + 2)' = Hidden(3 * host.layer + 2)
    BY <1>4 DEF First, Final, Hidden
  <1>6. Types'
    BY <1>2, <1>4 DEF EInv, Types
  <1>7. PlaceOK'
    BY <1>1, <1>2, <1>4, <1>5 DEF EInv, PlaceOK, Firing, Running, InLayer
  <1>8. ASSUME NEW w \in Workers PROVE Flow(w)'
    BY <1>2, <1>4, FlowSame DEF EInv
  <1>9. CountsOK'
    BY <1>1, <1>2, <1>4 DEF EInv, CountsOK, Firing
  <1>10. TransportOK'
    BY <1>1, <1>2, <1>4 DEF EInv, TransportOK, Firing
  <1>11. GotOK'
    <2>1. host'.status = "ok" => host'.got = {<<r, ctx.n>> : r \in (ctx.routes \cap {0}) \cup ctx.seen}
      <3> SUFFICES ASSUME host'.status = "ok"
                   PROVE  host'.got = {<<r, ctx.n>> : r \in (ctx.routes \cap {0}) \cup ctx.seen}
        OBVIOUS
      <3>1. host.status = "ok" /\ ~ctx.discard
        BY <1>1, <1>4 DEF EInv, CountsOK, Firing
      <3>2. CASE 0 \in ctx.routes /\ host'.got = {<<0, ctx.n>>}
        <4>1. (ctx.routes \cap {0}) \cup ctx.seen = {0}
          BY <1>1, <3>2
        <4> QED
          BY <3>2, <4>1
      <3>3. CASE 0 \notin ctx.routes /\ host'.got = {}
        <4>1. (ctx.routes \cap {0}) \cup ctx.seen = {}
          BY <1>1, <3>3
        <4> QED
          BY <3>3, <4>1
      <3> QED
        BY <1>4, <3>1, <3>2, <3>3
    <2> QED
      BY <1>1, <1>2, <1>4, <2>1 DEF EInv, GotOK, InLayer, SumOf
  <1>12. MemOK'
    BY <1>1, <1>2, <1>4, <1>5 DEF EInv, MemOK, InLayer
  <1>13. GpuOK'
    BY <1>1, <1>2, <1>4 DEF EInv, GpuOK
  <1> QED
    BY <1>6, <1>7, <1>8, <1>9, <1>10, <1>11, <1>12, <1>13 DEF EInv

\* A non-empty set of ranks has a least one, and Min finds it.
LEMMA MinIn ==
    ASSUME NEW T, T \subseteq Nat, T # {}
    PROVE  Min(T) \in T
  <1>1. \E d \in T : \A e \in T : ~(<<e, d>> \in OpToRel(<, Nat))
    BY NatLessThanWellFounded, WFMin
  <1>2. PICK d \in T : \A e \in T : ~(e < d)
    BY <1>1 DEF OpToRel
  <1>3. \A e \in T : d <= e
    BY <1>2
  <1> QED
    BY <1>3 DEF Min

\* Every result that arrives is the one that was asked for: none is refused.
LEMMA ResultAccepted ==
    ASSUME EInv, NEW w \in Workers, res[w] # <<>>
    PROVE  /\ w \in ctx.expected /\ w \notin ctx.seen /\ ctx.req = host.req
           /\ work[w] = <<>> /\ res[w] = <<Asked>> /\ Head(res[w]) = Asked /\ Tail(res[w]) = <<>>
           /\ Accepted(w, Asked)
  <1>1. Flow(w)
    BY DEF EInv
  <1>2. /\ w \in ctx.expected /\ w \notin ctx.seen /\ ctx.req = host.req
        /\ work[w] = <<>> /\ res[w] = <<Asked>>
    BY <1>1 DEF Flow
  <1>3. Head(<<Asked>>) = Asked /\ Tail(<<Asked>>) = <<>>
    OBVIOUS
  <1>4. Accepted(w, Asked)
    BY <1>2 DEF Accepted, Asked
  <1> QED
    BY <1>2, <1>3, <1>4

\* A result is taken, or a closed link is found.
LEMMA ReceiveKeeps ==
    ASSUME ExpertAssumption, EInv, Receive
    PROVE  EInv'
  <1>1. /\ host.pc = "receive" /\ host.mode = "parallel" /\ host \in Host /\ ctx \in Context
        /\ ctx.expected \in SUBSET Workers /\ ctx.seen \in SUBSET Workers /\ ctx.n \in Nat
        /\ ctx.received \in Nat /\ ctx.failed \in BOOLEAN
    BY DEF Receive, EInv, Types, PlaceOK, Firing, Context
  <1> DEFINE ready == {w \in Workers : res[w] # <<>> \/ w \notin alive}
  <1>2. ready # {} /\ Min(ready) \in ready
    <2>1. ready # {} /\ ready \subseteq Nat
      BY Numbers DEF Receive
    <2> HIDE DEF ready
    <2> QED
      BY <2>1, MinIn
  <1>3. PICK peer \in ready : peer = Min(ready)
    BY <1>2
  <1>4. peer \in Workers /\ (res[peer] # <<>> \/ peer \notin alive)
    BY <1>3
  <1>5. UNCHANGED <<work, alive, wsess, pend, mem, gpu, disp>>
    BY DEF Receive
  <1>6. CASE /\ res[peer] # <<>>
             /\ LET f == Head(res[peer])
                    ok == Accepted(peer, f)
                IN  /\ ctx' = [ctx EXCEPT !.received = @ + 1, !.failed = @ \/ ~ok,
                                          !.seen = IF ok THEN @ \cup {peer} ELSE @]
                    /\ host' = [host EXCEPT
                          !.status = IF ok THEN @ ELSE "err",
                          !.got = IF ok /\ host.status = "ok" THEN @ \cup {<<peer, f.n>>} ELSE @]
             /\ res' = [res EXCEPT ![peer] = Tail(@)]
             /\ UNCHANGED tr
    <2>1. /\ peer \in ctx.expected /\ peer \notin ctx.seen /\ ctx.req = host.req
          /\ work[peer] = <<>> /\ res[peer] = <<Asked>> /\ Head(res[peer]) = Asked
          /\ Tail(res[peer]) = <<>> /\ Accepted(peer, Asked) /\ Asked.n = ctx.n
      BY <1>4, <1>6, ResultAccepted DEF Asked
    <2>2. PICK got \in Results :
            got = IF host.status = "ok" THEN host.got \cup {<<peer, ctx.n>>} ELSE host.got
      <3>1. host.got \in Results /\ host.got \cup {<<peer, ctx.n>>} \in Results
        BY <1>1, <1>4 DEF Host, Results, Ranks
      <3> QED
        BY <3>1
    <2>3. /\ ctx' = [ctx EXCEPT !.received = ctx.received + 1, !.failed = ctx.failed,
                                !.seen = ctx.seen \cup {peer}]
          /\ host' = [host EXCEPT !.status = host.status, !.got = got]
      <3>1. ctx' = [ctx EXCEPT !.received = ctx.received + 1, !.failed = ctx.failed \/ ~TRUE,
                               !.seen = ctx.seen \cup {peer}]
        BY <1>6, <2>1
      <3>2. (ctx.failed \/ ~TRUE) = ctx.failed
        BY <1>1
      <3>3. host' = [host EXCEPT !.status = host.status, !.got = got]
        BY <1>6, <2>1, <2>2
      <3> QED
        BY <3>1, <3>2, <3>3
    <2>4. /\ ctx' \in Context /\ ctx'.req = ctx.req /\ ctx'.seq = ctx.seq /\ ctx'.n = ctx.n
          /\ ctx'.routes = ctx.routes /\ ctx'.left = ctx.left /\ ctx'.expected = ctx.expected
          /\ ctx'.seen = ctx.seen \cup {peer} /\ ctx'.remote = ctx.remote
          /\ ctx'.received = ctx.received + 1 /\ ctx'.failed = ctx.failed
          /\ ctx'.discard = ctx.discard
      <3>1. ctx.seen \cup {peer} \in SUBSET Workers /\ ctx.received + 1 \in Nat
        BY <1>1, <1>4
      <3> QED
        BY <1>1, <2>3, <3>1 DEF Context
    <2>5. /\ host' \in Host /\ host'.pc = "receive" /\ host'.mode = host.mode /\ host'.run = host.run
          /\ host'.layer = host.layer /\ host'.residual = host.residual
          /\ host'.status = host.status /\ host'.hit = host.hit /\ host'.got = got
          /\ host'.moe = host.moe /\ host'.req = host.req /\ host'.profile = host.profile
      BY <1>1, <2>2, <2>3 DEF Host
    <2>6. First' = First /\ Final' = Final /\ Hidden(3 * host.layer + 2)' = Hidden(3 * host.layer + 2)
      BY <2>5 DEF First, Final, Hidden
    <2>7. Types'
      <3>1. res' = [w \in Workers |-> res'[w]]
        BY <1>6 DEF EInv, Types
      <3> QED
        BY <1>5, <1>6, <2>4, <2>5, <3>1 DEF EInv, Types
    <2>8. PlaceOK'
      BY <1>1, <1>5, <2>5, <2>6 DEF EInv, PlaceOK, Firing, Running, InLayer
    <2>9. ASSUME NEW w \in Workers PROVE Flow(w)'
      <3>1. Asked' = Asked /\ Flow(w)
        BY <2>4 DEF Asked, EInv
      <3>2. CASE w # peer
        <4>1. res'[w] = res[w]
          BY <1>6, <3>2 DEF EInv, Types
        <4>2. w \in ctx'.expected \ ctx'.seen <=> w \in ctx.expected \ ctx.seen
          BY <2>4, <3>2
        <4> QED
          BY <1>5, <2>4, <2>5, <3>1, <4>1, <4>2 DEF Flow
      <3>3. CASE w = peer
        <4>1. res'[w] = <<>>
          BY <1>6, <2>1, <3>3 DEF EInv, Types
        <4> QED
          BY <1>5, <2>1, <2>4, <3>3, <4>1 DEF Flow
      <3> QED
        BY <3>2, <3>3
    <2>10. CountsOK'
      <3>1. Cardinality(ctx.seen \cup {peer}) = ctx.received + 1
        <4>1. IsFiniteSet(ctx.seen) /\ Cardinality(ctx.seen) = ctx.received
          BY <1>1, Numbers, FS_Subset DEF EInv, CountsOK
        <4> QED
          BY <2>1, <4>1, FS_AddElement, ZenonT(60)
      <3>2. ctx'.seen \subseteq ctx'.expected
        BY <2>1, <2>4 DEF EInv, CountsOK
      <3> QED
        BY <1>1, <1>5, <2>4, <2>5, <3>1, <3>2 DEF EInv, CountsOK, Firing
    <2>11. TransportOK'
      BY <1>1, <1>6, <2>4, <2>5 DEF EInv, TransportOK, Firing
    <2>12. GotOK'
      <3>1. host.status = "ok" =>
              got = {<<r, ctx.n>> : r \in (ctx.routes \cap {0}) \cup (ctx.seen \cup {peer})}
        <4> SUFFICES ASSUME host.status = "ok"
                     PROVE  got = {<<r, ctx.n>> : r \in (ctx.routes \cap {0}) \cup (ctx.seen \cup {peer})}
          OBVIOUS
        <4>1. host.got = {<<r, ctx.n>> : r \in (ctx.routes \cap {0}) \cup ctx.seen}
          BY <1>1 DEF EInv, GotOK, SumOf
        <4> QED
          BY <2>2, <4>1
      <3> QED
        BY <1>1, <2>4, <2>5, <3>1 DEF EInv, GotOK, InLayer, SumOf
    <2>13. MemOK'
      BY <1>1, <1>5, <2>5, <2>6 DEF EInv, MemOK, InLayer
    <2>14. GpuOK'
      BY <1>1, <1>5, <2>5 DEF EInv, GpuOK
    <2> QED
      BY <2>7, <2>8, <2>9, <2>10, <2>11, <2>12, <2>13, <2>14 DEF EInv
  <1>7. CASE res[peer] = <<>> /\ LinkLost /\ UNCHANGED res
    <2>1. alive # Workers
      BY <1>4, <1>7
    <2>2. /\ ctx' = [ctx EXCEPT !.failed = TRUE] /\ tr' = "POISONED" /\ UNCHANGED res
          /\ host' = [host EXCEPT !.pc = "finish", !.status = "err"]
      BY <1>7 DEF LinkLost
    <2>3. /\ ctx' \in Context /\ ctx'.req = ctx.req /\ ctx'.seq = ctx.seq /\ ctx'.n = ctx.n
          /\ ctx'.routes = ctx.routes /\ ctx'.left = ctx.left /\ ctx'.expected = ctx.expected
          /\ ctx'.seen = ctx.seen /\ ctx'.remote = ctx.remote /\ ctx'.received = ctx.received
          /\ ctx'.failed = TRUE /\ ctx'.discard = ctx.discard
      BY <1>1, <2>2 DEF Context
    <2>4. /\ host' \in Host /\ host'.pc = "finish" /\ host'.mode = host.mode /\ host'.run = host.run
          /\ host'.layer = host.layer /\ host'.residual = host.residual /\ host'.status = "err"
          /\ host'.moe = host.moe /\ host'.req = host.req /\ host'.profile = host.profile
      BY <1>1, <2>2 DEF Host, Running, InLayer
    <2>5. First' = First /\ Final' = Final /\ Hidden(3 * host.layer + 2)' = Hidden(3 * host.layer + 2)
      BY <2>4 DEF First, Final, Hidden
    <2>6. Types'
      BY <1>5, <2>2, <2>3, <2>4 DEF EInv, Types
    <2>7. PlaceOK'
      BY <1>1, <1>5, <2>1, <2>4, <2>5 DEF EInv, PlaceOK, Firing, Running, InLayer
    <2>8. ASSUME NEW w \in Workers PROVE Flow(w)'
      BY <1>5, <2>2, <2>3, <2>4, FlowSame DEF EInv
    <2>9. CountsOK'
      BY <1>5, <2>1, <2>3, <2>4 DEF EInv, CountsOK, Firing
    <2>10. TransportOK'
      BY <2>2, <2>4 DEF TransportOK, Firing
    <2>11. GotOK'
      BY <1>1, <2>4 DEF EInv, GotOK, InLayer
    <2>12. MemOK'
      BY <1>1, <1>5, <2>4, <2>5 DEF EInv, MemOK, InLayer
    <2>13. GpuOK'
      BY <1>1, <1>5, <2>4 DEF EInv, GpuOK
    <2> QED
      BY <2>6, <2>7, <2>8, <2>9, <2>10, <2>11, <2>12, <2>13 DEF EInv
  <1> QED
    BY <1>3, <1>6, <1>7 DEF Receive

\* As many results as frames: every worker asked has answered.
LEMMA CollectEndKeeps ==
    ASSUME ExpertAssumption, EInv, CollectEnd
    PROVE  EInv'
  <1>1. /\ host.pc = "receive" /\ host.mode = "parallel" /\ host \in Host /\ ctx \in Context
        /\ ctx.expected \in SUBSET Workers /\ ctx.seen \in SUBSET ctx.expected /\ ctx.left = {}
        /\ ctx.remote = Cardinality(ctx.expected) /\ ctx.received = Cardinality(ctx.seen)
        /\ tr \in {"READY", "PENDING", "POISONED"}
    BY DEF CollectEnd, EInv, Types, PlaceOK, Firing, Context, CountsOK
  <1>2. ctx.seen = ctx.expected
    <2>1. IsFiniteSet(ctx.expected)
      BY <1>1, Numbers, FS_Subset
    <2>2. Cardinality(ctx.seen) \in Nat /\ Cardinality(ctx.expected) \in Nat
      BY <1>1, <2>1, FS_Subset, FS_CardinalityType
    <2>3. Cardinality(ctx.seen) <= Cardinality(ctx.expected)
      BY <1>1, <2>1, FS_Subset
    <2>4. Cardinality(ctx.seen) = Cardinality(ctx.expected)
      BY <1>1, <2>2, <2>3 DEF CollectEnd, Due
    <2> QED
      BY <1>1, <2>1, <2>4, FS_Subset
  <1>3. /\ tr' = Collected(tr) /\ host' = [host EXCEPT !.pc = "finish"]
        /\ UNCHANGED <<ctx, work, res, alive, wsess, pend, mem, gpu, disp>>
    BY DEF CollectEnd, Goto, links
  <1>4. tr' \in {"READY", "PENDING", "POISONED"} /\ (~ctx.failed => tr' = "READY")
    <2>1. tr = "POISONED" <=> ctx.failed
      BY <1>1 DEF EInv, TransportOK, Firing
    <2> QED
      BY <1>1, <1>2, <1>3, <2>1 DEF Collected, Complete
  <1>5. /\ host' \in Host /\ host'.pc = "finish" /\ host'.mode = host.mode /\ host'.run = host.run
        /\ host'.layer = host.layer /\ host'.residual = host.residual
        /\ host'.status = host.status /\ host'.hit = host.hit /\ host'.got = host.got
        /\ host'.moe = host.moe /\ host'.req = host.req /\ host'.profile = host.profile
    BY <1>1, <1>3 DEF Host, Running, InLayer
  <1>6. First' = First /\ Final' = Final /\ Hidden(3 * host.layer + 2)' = Hidden(3 * host.layer + 2)
    BY <1>5 DEF First, Final, Hidden
  <1>7. Types'
    BY <1>3, <1>4, <1>5 DEF EInv, Types
  <1>8. PlaceOK'
    BY <1>1, <1>3, <1>5, <1>6 DEF EInv, PlaceOK, Firing, Running, InLayer
  <1>9. ASSUME NEW w \in Workers PROVE Flow(w)'
    BY <1>3, <1>5, FlowSame DEF EInv
  <1>10. CountsOK'
    BY <1>3, <1>5 DEF EInv, CountsOK, Firing
  <1>11. host.status = "ok" => ~ctx.failed /\ ~ctx.discard /\ ctx.routes # {}
    BY <1>1 DEF EInv, CountsOK, Firing
  <1>12. TransportOK'
    BY <1>2, <1>3, <1>4, <1>5, <1>11 DEF TransportOK, Firing
  <1>13. GotOK'
    <2>1. host.status = "ok" => host.got = {<<r, ctx.n>> : r \in ctx.routes}
      <3> SUFFICES ASSUME host.status = "ok"
                   PROVE  host.got = {<<r, ctx.n>> : r \in ctx.routes}
        OBVIOUS
      <3>1. host.got = {<<r, ctx.n>> : r \in (ctx.routes \cap {0}) \cup ctx.seen}
        BY <1>1 DEF EInv, GotOK, SumOf
      <3>2. ctx.routes \ {0} = ctx.left \cup ctx.expected
        BY <1>11 DEF EInv, CountsOK
      <3>3. (ctx.routes \cap {0}) \cup ctx.seen = ctx.routes
        BY <1>1, <1>2, <3>2
      <3> QED
        BY <3>1, <3>3
    <2> QED
      BY <1>1, <1>3, <1>5, <1>11, <2>1 DEF EInv, GotOK, InLayer, SumOf
  <1>14. MemOK'
    BY <1>1, <1>3, <1>5, <1>6 DEF EInv, MemOK, InLayer
  <1>15. GpuOK'
    BY <1>1, <1>3, <1>5 DEF EInv, GpuOK
  <1> QED
    BY <1>7, <1>8, <1>9, <1>10, <1>12, <1>13, <1>14, <1>15 DEF EInv

\* The sealed rank reads its graph back.
LEMMA CollectGraphKeeps ==
    ASSUME ExpertAssumption, EInv, CollectGraph
    PROVE  EInv'
  <1>1. /\ host.pc = "collect" /\ host.mode = "sealed" /\ host \in Host /\ ctx \in Context
        /\ gpu \in [pending : BOOLEAN, queued : Nat, reduced : Nat]
        /\ disp \in [pending : BOOLEAN, results : {<<>>, <<0>>}] /\ tr = "READY"
    BY DEF CollectGraph, EInv, Types, PlaceOK, TransportOK, Firing
  <1>2. PICK got : got = {<<0, gpu.reduced>> : i \in 1 .. Len(disp.results)}
    OBVIOUS
  <1>3. /\ disp.pending => GraphDone
        /\ gpu' = IF disp.pending THEN GraphCollected ELSE gpu
        /\ host' = [host EXCEPT !.pc = "finish", !.got = got]
        /\ disp' = [pending |-> FALSE, results |-> <<>>]
        /\ UNCHANGED <<tr, ctx, work, res, alive, wsess, pend, mem>>
    BY <1>2 DEF CollectGraph, links
  <1>4. got \in Results
    <2>1. gpu.reduced \in Nat
      BY <1>1
    <2> QED
      BY <1>2, <2>1 DEF Results, Ranks
  <1>5. /\ host' \in Host /\ host'.pc = "finish" /\ host'.mode = host.mode /\ host'.run = host.run
        /\ host'.layer = host.layer /\ host'.residual = host.residual
        /\ host'.status = host.status /\ host'.hit = host.hit /\ host'.got = got
        /\ host'.moe = host.moe /\ host'.req = host.req /\ host'.profile = host.profile
    BY <1>1, <1>3, <1>4 DEF Host, Running, InLayer
  <1>6. /\ gpu' \in [pending : BOOLEAN, queued : Nat, reduced : Nat]
        /\ ~gpu'.pending /\ gpu'.queued = 0
        /\ disp.pending => gpu.reduced = ctx.n
    <2>1. CASE disp.pending
      <3>1. /\ gpu' = [gpu EXCEPT !.pending = FALSE] /\ (gpu.pending => gpu.queued = 0) /\ ctx.n > 0
            /\ IF host.profile THEN ~gpu.pending /\ gpu.queued = 0 /\ gpu.reduced = ctx.n
               ELSE gpu.pending /\ (gpu.queued = ctx.n \/ (gpu.queued = 0 /\ gpu.reduced = ctx.n))
        BY <1>3, <2>1 DEF EInv, GpuOK, GraphDone, GraphCollected
      <3>2. gpu.queued = 0 /\ gpu.reduced = ctx.n
        BY <3>1
      <3> QED
        BY <1>1, <3>1, <3>2
    <2>2. CASE ~disp.pending
      <3>1. gpu' = gpu /\ ~gpu.pending /\ gpu.queued = 0
        BY <1>3, <2>2 DEF EInv, GpuOK
      <3> QED
        BY <1>1, <2>2, <3>1
    <2> QED
      BY <2>1, <2>2
  <1>7. First' = First /\ Final' = Final /\ Hidden(3 * host.layer + 2)' = Hidden(3 * host.layer + 2)
    BY <1>5 DEF First, Final, Hidden
  <1>8. Types'
    <2>1. disp' \in [pending : BOOLEAN, results : {<<>>, <<0>>}]
      BY <1>3
    <2> QED
      BY <1>3, <1>5, <1>6, <2>1 DEF EInv, Types
  <1>9. PlaceOK'
    BY <1>1, <1>3, <1>5, <1>7 DEF EInv, PlaceOK, Firing, Running, InLayer
  <1>10. ASSUME NEW w \in Workers PROVE Flow(w)'
    BY <1>3, <1>5, FlowSame DEF EInv
  <1>11. CountsOK'
    BY <1>3, <1>5 DEF EInv, CountsOK, Firing
  <1>12. TransportOK'
    BY <1>1, <1>3, <1>5 DEF EInv, TransportOK, Firing
  <1>13. GotOK'
    <2>1. host.status = "ok" => ctx.routes = {0} /\ got = {<<0, ctx.n>>}
      <3> SUFFICES ASSUME host.status = "ok"
                   PROVE  ctx.routes = {0} /\ got = {<<0, ctx.n>>}
        OBVIOUS
      <3>1. disp.pending
        BY <1>1 DEF EInv, GpuOK
      <3>2. disp.results = <<0>> /\ ctx.routes = {0}
        BY <3>1 DEF EInv, GpuOK
      <3>3. got = {<<0, ctx.n>> : i \in 1 .. Len(<<0>>)}
        BY <1>2, <1>6, <3>1, <3>2
      <3>4. 1 .. Len(<<0>>) = {1}
        OBVIOUS
      <3> QED
        BY <3>2, <3>3, <3>4
    <2>2. ctx.routes = {0} => {<<r, ctx.n>> : r \in ctx.routes} = {<<0, ctx.n>>}
      OBVIOUS
    <2> QED
      BY <1>1, <1>3, <1>5, <2>1, <2>2 DEF EInv, GotOK, InLayer, SumOf
  <1>14. MemOK'
    BY <1>1, <1>3, <1>5, <1>7 DEF EInv, MemOK, InLayer
  <1>15. GpuOK'
    <2>1. disp'.pending = FALSE
      BY <1>3
    <2> QED
      BY <1>5, <1>6, <2>1 DEF GpuOK
  <1> QED
    BY <1>8, <1>9, <1>10, <1>11, <1>12, <1>13, <1>14, <1>15 DEF EInv

\* A layer is reduced; its write is deferred, or made after the model's last layer.
LEMMA FinishKeeps ==
    ASSUME ExpertAssumption, EInv, Finish
    PROVE  EInv'
  <1>1. /\ host.pc = "finish" /\ host.status = "ok" /\ host \in Host /\ tr = "READY"
        /\ host.layer \in Nat /\ host.residual \in Tensors /\ host.got \in Results
        /\ host.tok \in Nat /\ mem \in [Tensors -> State]
    BY DEF Finish, EInv, Types, TransportOK, Host
  <1>2. /\ First \in Nat /\ Final \in Nat /\ First <= Final /\ Final < LayerCount
        /\ First <= host.layer /\ host.layer <= Final /\ LayerCount \in Nat
    BY <1>1, Layers, Numbers DEF EInv, PlaceOK, Running, InLayer
  <1>3. pend = NoWrite /\ mem[host.residual] = Hidden(3 * host.layer + 2)
    BY <1>1 DEF EInv, MemOK, InLayer
  <1>4. host.got = {<<r, ctx.n>> : r \in ctx.routes} /\ host.got # {}
    BY <1>1 DEF EInv, GotOK, SumOf
  <1>5. PICK out \in Tensors : out = Other(host.residual)
    BY <1>1, Others
  <1>6. PICK pc \in {"return", "begin"} : pc = IF host.layer = Final THEN "return" ELSE "begin"
    OBVIOUS
  <1>7. PICK l \in Nat : l = IF host.layer = Final THEN host.layer ELSE host.layer + 1
    BY <1>1
  <1>8. /\ host' = [host EXCEPT !.moe = host.got, !.cur = out, !.pc = pc, !.layer = l]
        /\ UNCHANGED <<tr, ctx, work, res, alive, wsess, gpu, disp>>
    BY <1>5, <1>6, <1>7 DEF Finish, links
  <1>9. /\ host' \in Host /\ host'.pc = pc /\ host'.mode = host.mode /\ host'.run = host.run
        /\ host'.layer = l /\ host'.cur = out /\ host'.tok = host.tok
        /\ host'.status = "ok" /\ host'.moe = host.got /\ host'.req = host.req
        /\ host'.profile = host.profile
    <2>1. pc \in Running
      BY DEF Running
    <2> QED
      BY <1>1, <1>8, <2>1 DEF Host
  <1>10. First' = First /\ Final' = Final
    BY <1>9 DEF First, Final
  <1>11. \A at : Hidden(at)' = Hidden(at)
    BY <1>9 DEF Hidden
  <1>12. PlaceOK'
    <2>1. pc = "return" => l = Final
      BY <1>6, <1>7
    <2>2. First <= l /\ l <= Final
      BY <1>1, <1>2, <1>7
    <2> QED
      BY <1>9, <1>10, <2>1, <2>2 DEF PlaceOK, Firing
  <1>13. ASSUME NEW w \in Workers PROVE Flow(w)'
    BY <1>8, <1>9, FlowSame DEF EInv
  <1>14. CountsOK'
    BY <1>8, <1>9 DEF EInv, CountsOK, Firing
  <1>15. TransportOK'
    BY <1>1, <1>8, <1>9 DEF EInv, TransportOK, Firing
  <1>16. GotOK'
    BY <1>4, <1>8, <1>9 DEF GotOK, InLayer, SumOf
  <1>17. GpuOK'
    BY <1>1, <1>8, <1>9 DEF EInv, GpuOK
  <1>18. pend' \in Write /\ mem' \in [Tensors -> State] /\ MemOK'
    <2>1. CASE host.layer + 1 = LayerCount
      <3>1. host.layer = Final /\ pc = "return" /\ l = host.layer
        BY <1>1, <1>2, <1>6, <1>7, <2>1
      <3>2. pend' = NoWrite /\ mem' = [mem EXCEPT ![out] = Hidden(Entry(host.layer + 1))]
        BY <1>3, <1>4, <1>5, <2>1 DEF Finish
      <3>3. Hidden(Entry(host.layer + 1)) \in State
        BY <1>1, Entries, HiddenIs
      <3>4. mem' \in [Tensors -> State] /\ mem'[out] = Hidden(Entry(host.layer + 1))
        BY <1>1, <3>2, <3>3
      <3>5. pend' \in Write
        BY <3>2 DEF NoWrite, Write, Tensors
      <3>6. mem'[host'.cur] = Hidden(Entry(host.layer + 1))'
        <4>1. host'.layer + 1 = host.layer + 1 /\ host'.run = host.run
          BY <1>9, <3>1
        <4>2. Hidden(Entry(host.layer + 1))' = Hidden(Entry(host.layer + 1))
          BY <4>1 DEF Hidden, Entry
        <4> QED
          BY <1>9, <3>4, <4>2
      <3> QED
        BY <1>9, <2>1, <3>1, <3>2, <3>4, <3>5, <3>6 DEF MemOK, InLayer
    <2>2. CASE host.layer + 1 # LayerCount
      <3>1. /\ pend' = [NoWrite EXCEPT !.active = TRUE, !.layer = host.layer, !.tok = host.tok,
                                       !.hyper = host.residual, !.out = out]
            /\ mem' = mem
        BY <1>5, <2>2 DEF Finish
      <3>2. /\ pend' \in Write /\ pend'.active = TRUE /\ pend'.skip = FALSE
            /\ pend'.layer = host.layer /\ pend'.tok = host.tok
            /\ pend'.hyper = host.residual /\ pend'.out = out
        BY <1>1, <3>1 DEF NoWrite, Write, Tensors
      <3>3. /\ pend'.active /\ ~pend'.skip /\ pend'.layer = host.layer /\ pend'.tok = host'.tok
            /\ pend'.out = host'.cur /\ host'.moe # {}
            /\ mem'[pend'.hyper] = [run |-> host'.run, at |-> 3 * host.layer + 2]
        BY <1>3, <1>4, <1>9, <3>1, <3>2 DEF Hidden
      <3>4. CASE host.layer = Final
        <4>1. l = host.layer /\ pc = "return"
          BY <1>6, <1>7, <3>4
        <4>2. Deferred(host.layer)'
          BY <1>9, <3>3, <4>1 DEF Deferred, Hidden
        <4> QED
          BY <1>1, <1>9, <2>2, <3>1, <3>2, <4>1, <4>2 DEF MemOK, InLayer
      <3>5. CASE host.layer # Final
        <4>1. l = host.layer + 1 /\ pc = "begin" /\ l # First /\ l - 1 = host.layer
          BY <1>1, <1>2, <1>6, <1>7, <3>5
        <4>2. Deferred(host.layer - 1)'
          BY <1>9, <3>3, <4>1 DEF Deferred, Hidden
        <4> QED
          BY <1>1, <1>9, <1>10, <3>1, <3>2, <4>1, <4>2 DEF MemOK, InLayer
      <3> QED
        BY <3>4, <3>5
    <2> QED
      BY <2>1, <2>2
  <1>19. Types'
    BY <1>8, <1>9, <1>18 DEF EInv, Types
  <1> QED
    BY <1>12, <1>13, <1>14, <1>15, <1>16, <1>17, <1>18, <1>19 DEF EInv

\* The results of a layer that was collected without an error are always valid.
LEMMA FinishFailsKeeps ==
    ASSUME ExpertAssumption, EInv, FinishFails
    PROVE  EInv'
  <1>1. host.pc = "finish" /\ host \in Host
    BY DEF FinishFails, EInv, Types
  <1>2. host.status = "err"
    <2> SUFFICES ASSUME host.status # "err" PROVE FALSE
      OBVIOUS
    <2>1. host.status = "ok"
      BY <1>1 DEF Host
    <2>2. host.got = {<<r, ctx.n>> : r \in ctx.routes} /\ host.got # {}
      BY <1>1, <2>1 DEF EInv, GotOK, SumOf
    <2>3. \A g \in host.got : g = <<g[1], ctx.n>>
      BY <2>2
    <2>4. ResultsValid
      BY <2>2, <2>3 DEF ResultsValid
    <2> QED
      BY <2>4 DEF FinishFails
  <1>3. /\ host' = [host EXCEPT !.pc = "failed", !.status = "err"]
        /\ UNCHANGED <<tr, ctx, work, res, alive, wsess, pend, mem, gpu, disp>>
    BY DEF FinishFails, links
  <1>4. /\ host' \in Host /\ host'.pc = "failed" /\ host'.status = "err" /\ host'.moe = host.moe
        /\ host'.mode = host.mode /\ host'.req = host.req /\ host'.profile = host.profile
        /\ host'.hit = host.hit
    BY <1>1, <1>3 DEF Host
  <1>5. host'.hit \/ alive # Workers
    BY <1>2, <1>4 DEF EInv, PlaceOK
  <1>6. pend' \in Write
    BY <1>3 DEF EInv, Types
  <1> QED
    BY <1>1, <1>3, <1>4, <1>5, <1>6, FailsKeeps

\* The block's last write is made, or fails.
LEMMA ReturnKeeps ==
    ASSUME ExpertAssumption, EInv, Return
    PROVE  EInv'
  <1>1. /\ host.pc = "return" /\ host.status = "ok" /\ host \in Host /\ host.layer \in Nat
        /\ host.layer = Final /\ mem \in [Tensors -> State] /\ pend \in Write
        /\ UNCHANGED <<tr, ctx, work, res, alive, wsess, gpu, disp>>
    BY DEF Return, EInv, Types, PlaceOK, Host, links
  <1>2. CASE mem' = Flushed /\ pend' = NoWrite /\ host' = [host EXCEPT !.pc = "output"]
    <2>1. /\ host' \in Host /\ host'.pc = "output" /\ host'.mode = host.mode /\ host'.run = host.run
          /\ host'.layer = host.layer /\ host'.cur = host.cur /\ host'.status = "ok"
          /\ host'.moe = host.moe /\ host'.req = host.req /\ host'.profile = host.profile
      BY <1>1, <1>2 DEF Host, Running
    <2>2. Flushed \in [Tensors -> State] /\ Flushed[host.cur] = Hidden(Entry(host.layer + 1))
      <3>1. CASE host.layer + 1 = LayerCount
        <4>1. pend = NoWrite /\ mem[host.cur] = Hidden(Entry(host.layer + 1))
          BY <1>1, <3>1 DEF EInv, MemOK
        <4>2. pend.active = FALSE
          BY <4>1 DEF NoWrite
        <4>3. Flushed = mem
          BY <4>2 DEF Flushed
        <4> QED
          BY <1>1, <4>1, <4>3
      <3>2. CASE host.layer + 1 # LayerCount
        <4>1. Deferred(host.layer)
          BY <1>1, <3>2 DEF EInv, MemOK
        <4> QED
          BY <1>1, <4>1, FlushRight
      <3> QED
        BY <3>1, <3>2
    <2>3. First' = First /\ Final' = Final
      BY <2>1 DEF First, Final
    <2>4. mem'[host'.cur] = Hidden(Entry(Final + 1))'
      <3>1. Hidden(Entry(Final + 1))' = Hidden(Entry(Final + 1))
        BY <2>1, <2>3 DEF Hidden, Entry
      <3> QED
        BY <1>1, <1>2, <2>1, <2>2, <3>1
    <2>5. Types'
      <3>1. pend' \in Write
        BY <1>2 DEF NoWrite, Write, Tensors
      <3> QED
        BY <1>1, <1>2, <2>1, <2>2, <3>1 DEF EInv, Types
    <2>6. PlaceOK'
      BY <1>1, <2>1, <2>3 DEF EInv, PlaceOK, Firing, Running, InLayer
    <2>7. ASSUME NEW w \in Workers PROVE Flow(w)'
      BY <1>1, <2>1, FlowSame DEF EInv
    <2>8. CountsOK'
      BY <1>1, <2>1 DEF EInv, CountsOK, Firing
    <2>9. TransportOK'
      BY <1>1, <2>1 DEF EInv, TransportOK, Firing
    <2>10. GotOK'
      BY <1>1, <2>1 DEF EInv, GotOK, InLayer, SumOf
    <2>11. MemOK'
      BY <1>2, <2>1, <2>4 DEF MemOK, InLayer
    <2>12. GpuOK'
      BY <1>1, <2>1 DEF EInv, GpuOK
    <2> QED
      BY <2>5, <2>6, <2>7, <2>8, <2>9, <2>10, <2>11, <2>12 DEF EInv
  <1>3. CASE Faulty /\ host' = [Hit(host) EXCEPT !.pc = "failed"] /\ UNCHANGED <<mem, pend>>
    <2>1. host' = [host EXCEPT !.faults = host.faults - 1, !.hit = TRUE, !.status = "err", !.pc = "failed"]
          /\ host.faults - 1 \in 0 .. MaxFaults
      BY <1>1, <1>3, HitIs DEF Host
    <2>2. /\ host' \in Host /\ host'.pc = "failed" /\ host'.status = "err" /\ host'.moe = host.moe
          /\ host'.mode = host.mode /\ host'.req = host.req /\ host'.profile = host.profile
          /\ host'.hit = TRUE
      BY <1>1, <2>1 DEF Host
    <2> QED
      BY <1>1, <1>3, <2>2, FailsKeeps
  <1> QED
    BY <1>2, <1>3 DEF Return, Goto

\* The token is handed on.
LEMMA OutputKeeps ==
    ASSUME EInv, Output
    PROVE  EInv'
  <1>1. /\ host.pc = "output" /\ host \in Host /\ host.tok + 1 \in Nat /\ pend = NoWrite
        /\ host' = [host EXCEPT !.pc = "idle", !.tok = host.tok + 1]
        /\ UNCHANGED <<tr, ctx, work, res, alive, wsess, pend, mem, gpu, disp>>
    BY DEF Output, EInv, Types, MemOK, Host, links
  <1>2. /\ host' \in Host /\ host'.pc = "idle" /\ host'.status = host.status
        /\ host'.hit = host.hit /\ host'.moe = host.moe /\ host'.req = host.req
        /\ host'.profile = host.profile
    BY <1>1 DEF Host
  <1>3. Types'
    BY <1>1, <1>2 DEF EInv, Types
  <1>4. PlaceOK'
    BY <1>1, <1>2 DEF EInv, PlaceOK, Running, InLayer, Firing
  <1>5. ASSUME NEW w \in Workers PROVE Flow(w)'
    BY <1>1, <1>2, FlowSame DEF EInv
  <1>6. CountsOK'
    BY <1>1, <1>2 DEF EInv, CountsOK, Firing
  <1>7. TransportOK'
    BY <1>1, <1>2 DEF EInv, TransportOK, Firing
  <1>8. GotOK'
    BY <1>1, <1>2 DEF EInv, GotOK, InLayer, SumOf
  <1>9. MemOK'
    BY <1>1, <1>2 DEF MemOK, InLayer
  <1>10. GpuOK'
    BY <1>1, <1>2 DEF EInv, GpuOK
  <1> QED
    BY <1>3, <1>4, <1>5, <1>6, <1>7, <1>8, <1>9, <1>10 DEF EInv

\* The session starts again: nothing of the failed token is left on a link.
LEMMA ResetKeeps ==
    ASSUME EInv, Reset
    PROVE  EInv'
  <1>1. /\ host.pc = "failed" /\ tr = "READY" /\ host \in Host /\ host.req + 1 \in Nat
        /\ pend' = NoWrite /\ wsess' = [w \in Workers |-> host.req + 1]
        /\ host' = [host EXCEPT !.pc = "idle", !.req = host.req + 1, !.tok = 0]
        /\ UNCHANGED <<tr, ctx, work, res, alive, mem, gpu, disp>>
    BY DEF Reset, ResetWrite, EInv, Types, Host
  <1>2. ctx.expected = ctx.seen
    BY <1>1 DEF EInv, TransportOK, Firing
  <1>3. /\ host' \in Host /\ host'.pc = "idle" /\ host'.status = host.status
        /\ host'.hit = host.hit /\ host'.moe = host.moe /\ host'.req = host.req + 1
        /\ host'.profile = host.profile
    BY <1>1 DEF Host
  <1>4. Types'
    <2>1. pend' \in Write
      BY <1>1 DEF NoWrite, Write, Tensors
    <2> QED
      BY <1>1, <1>3, <2>1 DEF EInv, Types
  <1>5. PlaceOK'
    BY <1>1, <1>3 DEF EInv, PlaceOK, Running, InLayer, Firing
  <1>6. ASSUME NEW w \in Workers PROVE Flow(w)'
    BY <1>1, <1>2 DEF EInv, Flow
  <1>7. CountsOK'
    BY <1>1, <1>3 DEF EInv, CountsOK, Firing
  <1>8. TransportOK'
    BY <1>1, <1>2, <1>3 DEF TransportOK, Firing
  <1>9. GotOK'
    BY <1>1, <1>3 DEF EInv, GotOK, InLayer, SumOf
  <1>10. MemOK'
    BY <1>1, <1>3 DEF MemOK, InLayer
  <1>11. GpuOK'
    BY <1>1, <1>3 DEF EInv, GpuOK
  <1> QED
    BY <1>4, <1>5, <1>6, <1>7, <1>8, <1>9, <1>10, <1>11 DEF EInv

\* The runtime has to be opened again.
LEMMA StopKeeps ==
    ASSUME EInv, Stop
    PROVE  EInv'
  <1>1. /\ host.pc = "failed" /\ host \in Host /\ host' = [host EXCEPT !.pc = "stopped"]
        /\ UNCHANGED <<tr, ctx, work, res, alive, wsess, pend, mem, gpu, disp>>
    BY DEF Stop, Goto, EInv, Types, links
  <1>2. /\ host' \in Host /\ host'.pc = "stopped" /\ host'.status = host.status
        /\ host'.hit = host.hit /\ host'.moe = host.moe /\ host'.req = host.req
        /\ host'.profile = host.profile
    BY <1>1 DEF Host
  <1>3. Types'
    BY <1>1, <1>2 DEF EInv, Types
  <1>4. PlaceOK'
    BY <1>1, <1>2 DEF EInv, PlaceOK, Running, InLayer, Firing
  <1>5. ASSUME NEW w \in Workers PROVE Flow(w)'
    BY <1>1, <1>2, FlowSame DEF EInv
  <1>6. CountsOK'
    BY <1>1, <1>2 DEF EInv, CountsOK, Firing
  <1>7. TransportOK'
    BY <1>1, <1>2 DEF EInv, TransportOK, Firing
  <1>8. GotOK'
    BY <1>1, <1>2 DEF EInv, GotOK, InLayer, SumOf
  <1>9. MemOK'
    BY <1>1, <1>2 DEF MemOK, InLayer
  <1>10. GpuOK'
    BY <1>1, <1>2 DEF EInv, GpuOK
  <1> QED
    BY <1>3, <1>4, <1>5, <1>6, <1>7, <1>8, <1>9, <1>10 DEF EInv

\* A worker answers: its session is always the one it is asked for.
LEMMA ServeKeeps ==
    ASSUME EInv, NEW w \in Workers, Serve(w)
    PROVE  EInv'
  <1>1. Flow(w) /\ work[w] # <<>>
    BY DEF EInv, Serve
  <1>2. /\ w \in ctx.expected \ ctx.seen /\ ctx.req = host.req
        /\ work[w] = <<Asked>> /\ res[w] = <<>>
    BY <1>1 DEF Flow
  <1>3. Head(<<Asked>>) = Asked /\ Tail(<<Asked>>) = <<>> /\ Append(<<>>, Asked) = <<Asked>>
    OBVIOUS
  <1>4. Head(work[w]).req = wsess[w]
    BY <1>2, <1>3 DEF Asked, EInv, Types
  <1>5. /\ res' = [res EXCEPT ![w] = <<Asked>>] /\ work' = [work EXCEPT ![w] = <<>>]
        /\ UNCHANGED <<tr, ctx, alive, wsess, pend, mem, gpu, disp, host>>
    BY <1>2, <1>3, <1>4 DEF Serve
  <1>6. Types'
    <2>1. res' = [v \in Workers |-> res'[v]] /\ work' = [v \in Workers |-> work'[v]]
      BY <1>5 DEF EInv, Types
    <2> QED
      BY <1>5, <2>1 DEF EInv, Types
  <1>7. ASSUME NEW v \in Workers PROVE Flow(v)'
    <2>1. Asked' = Asked /\ Flow(v)
      BY <1>5 DEF Asked, EInv
    <2>2. CASE v = w
      <3>1. res'[v] = <<Asked>> /\ work'[v] = <<>>
        BY <1>5, <2>2 DEF EInv, Types
      <3> QED
        BY <1>2, <1>5, <2>1, <2>2, <3>1 DEF Flow
    <2>3. CASE v # w
      <3>1. res'[v] = res[v] /\ work'[v] = work[v]
        BY <1>5, <2>3 DEF EInv, Types
      <3> QED
        BY <1>5, <2>1, <3>1 DEF Flow
    <2> QED
      BY <2>2, <2>3
  <1>8. First' = First /\ Final' = Final /\ \A at : Hidden(at)' = Hidden(at)
    BY <1>5 DEF First, Final, Hidden
  <1>9. PlaceOK' /\ CountsOK' /\ TransportOK'
    BY <1>5, <1>8 DEF EInv, PlaceOK, CountsOK, TransportOK
  <1>10. GotOK' /\ GpuOK'
    BY <1>5 DEF EInv, GotOK, SumOf, GpuOK
  <1>11. MemOK'
    BY <1>5, <1>8 DEF EInv, MemOK, Entering, Deferred, Entry, Hidden
  <1> QED
    BY <1>6, <1>7, <1>9, <1>10, <1>11 DEF EInv

\* A worker ends: what it was asked is lost, what it answered is not.
LEMMA DieKeeps ==
    ASSUME ExpertAssumption, EInv, NEW w \in Workers, Die(w)
    PROVE  EInv'
  <1>1. host \in Host /\ host.faults - 1 \in 0 .. MaxFaults
    BY Numbers DEF Die, Faulty, EInv, Types, Host
  <1>2. /\ alive' = alive \ {w} /\ work' = [work EXCEPT ![w] = <<>>]
        /\ host' = [host EXCEPT !.faults = host.faults - 1]
        /\ UNCHANGED <<tr, ctx, res, wsess, pend, mem, gpu, disp>>
    BY DEF Die
  <1>3. /\ host' \in Host /\ host'.pc = host.pc /\ host'.mode = host.mode /\ host'.run = host.run
        /\ host'.layer = host.layer /\ host'.residual = host.residual /\ host'.cur = host.cur
        /\ host'.status = host.status /\ host'.got = host.got /\ host'.moe = host.moe
        /\ host'.req = host.req /\ host'.profile = host.profile /\ host'.tok = host.tok
    BY <1>1, <1>2 DEF Host
  <1>4. alive' \subseteq Workers /\ alive' # Workers
    BY <1>2 DEF EInv, Types
  <1>5. Types'
    <2>1. work' = [v \in Workers |-> work'[v]]
      BY <1>2 DEF EInv, Types
    <2> QED
      BY <1>2, <1>3, <1>4, <2>1 DEF EInv, Types
  <1>6. ASSUME NEW v \in Workers PROVE Flow(v)'
    <2>1. Asked' = Asked /\ Flow(v)
      BY <1>2 DEF Asked, EInv
    <2>2. CASE v = w
      <3>1. work'[v] = <<>> /\ v \notin alive'
        BY <1>2, <2>2 DEF EInv, Types
      <3> QED
        BY <1>2, <1>3, <2>1, <3>1 DEF Flow
    <2>3. CASE v # w
      <3>1. work'[v] = work[v] /\ (v \in alive' <=> v \in alive)
        BY <1>2, <2>3 DEF EInv, Types
      <3> QED
        BY <1>2, <1>3, <2>1, <3>1 DEF Flow
    <2> QED
      BY <2>2, <2>3
  <1>7. First' = First /\ Final' = Final
    BY <1>3 DEF First, Final
  <1>8. PlaceOK'
    BY <1>3, <1>4, <1>7 DEF EInv, PlaceOK
  <1>9. CountsOK'
    BY <1>2, <1>3, <1>4 DEF EInv, CountsOK
  <1>10. TransportOK'
    BY <1>2, <1>3 DEF EInv, TransportOK
  <1>11. GotOK'
    BY <1>2, <1>3 DEF EInv, GotOK, SumOf
  <1>12. MemOK'
    BY <1>2, <1>3, <1>7 DEF EInv, MemOK, Entering, Deferred, Entry, Hidden
  <1>13. GpuOK'
    BY <1>2, <1>3 DEF EInv, GpuOK
  <1> QED
    BY <1>5, <1>6, <1>8, <1>9, <1>10, <1>11, <1>12, <1>13 DEF EInv

\* Every step keeps the invariant.
LEMMA StepKeeps ==
    ASSUME ExpertAssumption, EInv, [Next]_vars
    PROVE  EInv'
  <1>1. CASE Decode
    BY <1>1, StartTokenKeeps, BeginLayerKeeps, BeginFailsKeeps, FireRoutesKeeps, FireRefusedKeeps,
       SendKeeps, SendFailsKeeps, SubmitKeeps, SharedKeeps, LocalKeeps, ReceiveKeeps,
       CollectEndKeeps, CollectGraphKeeps, FinishKeeps, FinishFailsKeeps, ReturnKeeps, OutputKeeps,
       ResetKeeps, StopKeeps DEF Decode
  <1>2. CASE Graph
    BY <1>2, GraphKeeps
  <1>3. CASE \E w \in Workers : Serve(w) \/ Die(w)
    BY <1>3, ServeKeeps, DieKeeps
  <1>4. CASE UNCHANGED vars
    <2>1. UNCHANGED <<tr, ctx, work, res, alive, wsess, pend, mem, gpu, disp, host>>
      BY <1>4 DEF vars
    <2>2. First' = First /\ Final' = Final /\ Asked' = Asked
      BY <2>1 DEF First, Final, Asked
    <2>3. Types'
      BY <2>1 DEF EInv, Types
    <2>4. \A w \in Workers : Flow(w)'
      BY <2>1, <2>2 DEF EInv, Flow
    <2>5. PlaceOK' /\ CountsOK' /\ TransportOK'
      BY <2>1, <2>2 DEF EInv, PlaceOK, CountsOK, TransportOK
    <2>6. GotOK' /\ GpuOK'
      BY <2>1 DEF EInv, GotOK, SumOf, GpuOK
    <2>7. MemOK'
      BY <2>1, <2>2 DEF EInv, MemOK, Entering, Deferred, Entry, Hidden
    <2> QED
      BY <2>3, <2>4, <2>5, <2>6, <2>7 DEF EInv
  <1> QED
    BY <1>1, <1>2, <1>3, <1>4 DEF Next, Over

-----------------------------------------------------------------------------
(* What the invariant says of a token.                                       *)

\* The inductive invariant gives the one that the runs check.
LEMMA InvImplies ==
    ASSUME ExpertAssumption, EInv
    PROVE  TokenInv
  <1>1. TypeOK
    <2>1. /\ tr \in {"READY", "PENDING", "POISONED"} /\ host \in Host /\ ctx \in Context
          /\ alive \subseteq Workers /\ mem \in [Tensors -> State]
      BY DEF EInv, Types
    <2>2. /\ ctx.routes \subseteq Ranks /\ ctx.expected \subseteq Workers
          /\ host.status \in {"ok", "err"} /\ host.faults \in 0 .. MaxFaults
      BY <2>1 DEF Context, Host
    <2>3. ctx.seen \subseteq ctx.expected /\ DOMAIN mem = {"in", "A", "B"}
      BY <2>1 DEF EInv, CountsOK, Tensors
    <2>4. ctx.remote \in 0 .. Cardinality(Workers) /\ ctx.received \in 0 .. ctx.remote
      <3>1. IsFiniteSet(Workers) /\ IsFiniteSet(ctx.expected) /\ IsFiniteSet(ctx.seen)
        BY <2>2, <2>3, Numbers, FS_Subset
      <3>2. /\ Cardinality(Workers) \in Nat /\ Cardinality(ctx.expected) \in Nat
            /\ Cardinality(ctx.seen) \in Nat
        BY <3>1, FS_CardinalityType
      <3>3. /\ Cardinality(ctx.expected) <= Cardinality(Workers)
            /\ Cardinality(ctx.seen) <= Cardinality(ctx.expected)
        BY <2>2, <2>3, <3>1, FS_Subset
      <3>4. ctx.remote = Cardinality(ctx.expected) /\ ctx.received = Cardinality(ctx.seen)
        BY DEF EInv, CountsOK
      <3> QED
        BY <3>2, <3>3, <3>4
    <2>5. ASSUME NEW w \in Workers PROVE Len(work[w]) + Len(res[w]) <= 1
      <3>1. Flow(w)
        BY DEF EInv
      <3>2. PICK f : f = Asked
        OBVIOUS
      <3>3. Len(<<>>) = 0 /\ Len(<<f>>) = 1
        OBVIOUS
      <3>4. CASE work[w] = <<f>> /\ res[w] = <<>>
        BY <3>3, <3>4
      <3>5. CASE work[w] = <<>> /\ res[w] = <<f>>
        BY <3>3, <3>5
      <3>6. CASE work[w] = <<>> /\ res[w] = <<>>
        BY <3>3, <3>6
      <3> QED
        BY <3>1, <3>2, <3>4, <3>5, <3>6 DEF Flow
    <2> QED
      BY <2>1, <2>2, <2>3, <2>4, <2>5 DEF TypeOK
  <1>2. ReductionExact
    BY DEF EInv, GotOK, SumOf, ReductionExact
  <1>3. QuietWhenReady
    <2> SUFFICES ASSUME host.pc \in {"idle", "failed"}, tr = "READY"
                 PROVE  /\ \A w \in Workers : res[w] = <<>> /\ work[w] = <<>>
                        /\ ~gpu.pending /\ gpu.queued = 0
      BY DEF QuietWhenReady
    <2>1. ctx.expected = ctx.seen
      BY DEF EInv, TransportOK, Firing
    <2>2. \A w \in Workers : res[w] = <<>> /\ work[w] = <<>>
      BY <2>1 DEF EInv, Flow
    <2>3. ~gpu.pending /\ gpu.queued = 0
      BY DEF EInv, GpuOK
    <2> QED
      BY <2>2, <2>3
  <1>4. OutputExact
    BY DEF EInv, MemOK, OutputExact
  <1>5. NoInheritedFailure
    BY DEF EInv, PlaceOK, NoInheritedFailure
  <1> QED
    BY <1>1, <1>2, <1>3, <1>4, <1>5 DEF TokenInv

\* For any workers, layers, tokens and faults, in both users of the fire/collect
\* pair: a layer that is reduced sums exactly one result of every rank it was
\* routed to, all of this very fire; a token that ends with the transport READY
\* leaves no work, result or graph behind; the tensor a token returns holds its
\* hidden state after every layer of the block; and no token fails for what an
\* earlier one left.
THEOREM TokenCorrect ==
    ASSUME ExpertAssumption
    PROVE  Spec => []TokenInv
  <1>1. Init => EInv
    BY StartsRight
  <1>2. EInv /\ [Next]_vars => EInv'
    BY StepKeeps
  <1>3. EInv => TokenInv
    BY InvImplies
  <1> QED
    BY <1>1, <1>2, <1>3, PTL DEF Spec

-----------------------------------------------------------------------------
(***************************************************************************)
(* The choice of a token, OutputSplit: for any session slots, vocabulary   *)
(* and logit vectors, SplitInv is an invariant, in whichever order rank 4  *)
(* sees configuration, hidden states and partials, and whoever stops       *)
(* answering.                                                              *)
(*                                                                         *)
(* The invariant, SplitIInv, places every slot in one of six situations    *)
(* that the phase of rank 0 narrows down: resting, opening a session,      *)
(* sending a history, relaying the token after a prefill, choosing a token *)
(* and chosen.  In each the frames of the slot, on every channel, are at   *)
(* most those of the token asked for, each once: nothing is left over from *)
(* an earlier token, which is why no rank can mistake one.  Of a split     *)
(* token each slice exists at one place at a time: the ring, a channel of  *)
(* rank 7, a channel of its partial, or the record of rank 4.  A failed    *)
(* slot stays in the situation it failed in, while the others go on.       *)
(*                                                                         *)
(* That the combined token is right needs the partials in any order of     *)
(* arrival: a partial stands for a set of rows, Combine joins two of them, *)
(* and the four slices are a partition of the vocabulary.                  *)
(***************************************************************************)
CtlPeers == {0, 1, 2}

\* The frames of slot s in a channel.
Mine(q, s) == {f \in Range(q) : f.slot = s}

\* A channel: a sequence in which no frame occurs twice.
IsSeq(q) == q \in Seq(Range(q))
Once(q) == \A i, j \in 1..Len(q) : q[i] = q[j] => i = j
Tidy(q) == IsSeq(q) /\ Once(q)

\* What is sent about the token that slot s asks for.
ConfigOf(s)     == [tok |-> token[s].index, mode |-> token[s].mode]
HiddenOf(s)     == [tok |-> token[s].index, logits |-> token[s].logits]
PartOf(s, r)    == SlicePartial(WayOf(r), token[s].logits)
RingWork(s)     == [tok |-> token[s].index, ses |-> token[s].ses, logits |-> token[s].logits,
                    split |-> AsksForSlices(token[s].mode)]
ConfigFrame(s)  == TokenFrame(s, "config", ConfigOf(s))
SliceFrame(s)   == TokenFrame(s, "slice", HiddenOf(s))
HiddenFrame(s)  == TokenFrame(s, "hidden", HiddenOf(s))
PartFrame(s, r) == TokenFrame(s, "partial", [tok |-> token[s].index, part |-> PartOf(s, r)])
WorkFrame(s)    == TokenFrame(s, "work", [tok |-> token[s].index, mode |-> token[s].mode,
                                          logits |-> token[s].logits])
HistFrame(s)    == TokenFrame(s, "history", token[s].hist)
BeginFrame(s)   == TokenFrame(s, "begin", NoHidden)
ResultFrame(s, id) == TokenFrame(s, "result", [tok |-> token[s].index, id |-> id])

\* The history that a penalised token is chosen with is in the table of rank 4.
Synced(s) == token[s].mode = "penalised" => counts[s] = token[s].hist

\* Nothing of the ring, of rank 7 or of the helpers is under way for slot s.
Calm(s) ==
    /\ \A r \in Helpers : Mine(splitCtl[r], s) = {} /\ Mine(slice[r], s) = {}
    /\ Mine(bulk, s) = {} /\ ring[s] = NoHidden /\ inbox[s][7] = <<>>
    /\ handoff[s] = EmptyHandoff
SlotRest(s, C, in, ack) ==
    Calm(s) /\ Mine(splitCtl[0], s) = C /\ inbox[s][4] = in /\ acks[s] = ack

SlotResting(s)   == SlotRest(s, {}, <<>>, <<>>) /\ served[s] = token[s].ses
Opening(s)   == \/ SlotRest(s, {BeginFrame(s)}, <<>>, <<>>) /\ served[s] < token[s].ses
                \/ SlotRest(s, {}, <<>>, <<"begin">>) /\ served[s] = token[s].ses
Syncing(s)   == /\ served[s] = token[s].ses
                /\ \/ SlotRest(s, {HistFrame(s)}, <<>>, <<>>)
                   \/ SlotRest(s, {}, <<>>, <<"history">>) /\ Synced(s)
Relaying(s)  == /\ served[s] = token[s].ses
                /\ SlotRest(s, {WorkFrame(s)}, <<>>, <<>>) /\ Synced(s)
Chosen(s) ==
    /\ served[s] = token[s].ses
    /\ \E id \in Vocab :
          /\ SlotRest(s, {}, <<ResultFrame(s, id)>>, <<>>)
          /\ id \in Sample(token[s].mode, token[s].logits, token[s].hist)
          /\ token[s].mode = "penalised" => counts[s] = [token[s].hist EXCEPT ![id] = @ + 1]

\* The partials rank 4 holds in its record h.
RemoteOK(s, h) ==
    LET remote == h.remote IN
    /\ IsSeq(remote)
    /\ \A i \in 1..Len(remote) : \E r \in CtlPeers : remote[i] = PartOf(s, r)
    /\ \A i, j \in 1..Len(remote) : remote[i].rank = remote[j].rank => i = j
Has(h, r) == \E i \in 1..Len(h.remote) : h.remote[i].rank = r

HandoffShape(s, h) ==
    /\ h = [config |-> h.config, hidden |-> h.hidden, hiddenSlice |-> h.hiddenSlice,
            local |-> h.local, remote |-> h.remote]
    /\ h.config \in {NoConfig, ConfigOf(s)}
    /\ ConfigFrame(s) \in Mine(splitCtl[0], s) => h.config = NoConfig
    /\ ring[s] \in {NoHidden, RingWork(s)}

\* A token of a split: where the slices and their partials can be.
SliceWith(s, h) ==
    /\ HandoffShape(s, h) /\ token[s].mode = "greedy"
    /\ h.hidden = NoHidden /\ h.hiddenSlice \in {NoHidden, HiddenOf(s)}
    /\ RemoteOK(s, h) /\ (h.config = NoConfig => h.remote = <<>>)
    /\ Mine(splitCtl[0], s) \subseteq {ConfigFrame(s), PartFrame(s, 0)}
    /\ Mine(bulk, s) \subseteq {SliceFrame(s)}
    /\ inbox[s][7] \in {<<>>, <<SliceFrame(s)>>}
    /\ h.hiddenSlice # NoHidden => Mine(bulk, s) = {}
    /\ inbox[s][7] # <<>> => PartFrame(s, 0) \notin Mine(splitCtl[0], s)
    /\ Has(h, 0) => inbox[s][7] = <<>> /\ PartFrame(s, 0) \notin Mine(splitCtl[0], s)
    /\ \A r \in Helpers :
          /\ Mine(slice[r], s) \subseteq {SliceFrame(s)}
          /\ Mine(splitCtl[r], s) \subseteq {PartFrame(s, r)}
          /\ Mine(slice[r], s) # {} => Mine(splitCtl[r], s) = {}
          /\ Has(h, r) => Mine(slice[r], s) = {} /\ Mine(splitCtl[r], s) = {}
    /\ ring[s] # NoHidden =>
          /\ h.hiddenSlice = NoHidden /\ h.remote = <<>> /\ Mine(bulk, s) = {}
          /\ inbox[s][7] = <<>> /\ PartFrame(s, 0) \notin Mine(splitCtl[0], s)
          /\ \A r \in Helpers : Mine(slice[r], s) = {} /\ Mine(splitCtl[r], s) = {}

Slicing(s) == SliceWith(s, handoff[s])

\* A token that rank 4 samples alone.
SampleWith(s, h) ==
    /\ HandoffShape(s, h) /\ token[s].mode # "greedy"
    /\ h.hiddenSlice = NoHidden /\ h.hidden \in {NoHidden, HiddenOf(s)}
    /\ h.remote = <<>> /\ h.local = FALSE
    /\ Mine(splitCtl[0], s) \subseteq {ConfigFrame(s)}
    /\ Mine(bulk, s) \subseteq {HiddenFrame(s)}
    /\ inbox[s][7] = <<>>
    /\ \A r \in Helpers : Mine(slice[r], s) = {} /\ Mine(splitCtl[r], s) = {}
    /\ h.hidden # NoHidden => Mine(bulk, s) = {}
    /\ ring[s] # NoHidden => h.hidden = NoHidden /\ Mine(bulk, s) = {}
Sampling(s) == SampleWith(s, handoff[s])

Choosing(s) ==
    /\ served[s] = token[s].ses /\ inbox[s][4] = <<>> /\ acks[s] = <<>> /\ Synced(s)
    /\ Slicing(s) \/ Sampling(s)

PhaseOK(s) ==
    LET ph == token[s].phase IN
    /\ ph \in {"idle", "prefill", "decode"} => SlotResting(s)
    /\ ph \in {"prefill", "decode"} => Synced(s)
    /\ ph = "begin" => Opening(s)
    /\ ph = "history" => Syncing(s)
    /\ ph = "relay" => Relaying(s) \/ Chosen(s)
    /\ ph = "wait" => Choosing(s) \/ Chosen(s)
    /\ ph \in Failed => \/ SlotResting(s) \/ Opening(s) \/ Syncing(s) \/ Relaying(s)
                        \/ Choosing(s) \/ Chosen(s)

AllModes == {"greedy", "penalised", "sampled"}
Phases == {"idle", "begin", "history", "prefill", "relay", "decode", "wait", "timeout", "lost"}
Asks == [phase : Phases, ses : 1..(MaxBegins + 1), index : 0..MaxIndex, mode : AllModes,
         hist : [Vocab -> Nat], logits : LogitChoices, chosen : Vocab \cup {NoToken},
         due : SUBSET (Vocab \cup {NoToken})]
Tokens == {t \in Asks : /\ t.chosen \in t.due
                        /\ t.phase \in {"history", "prefill", "relay", "wait"} => t.index < MaxIndex}

Addressed(q) == Tidy(q) /\ \A f \in Range(q) : f.slot \in SessionSlots
CtlOK == DOMAIN splitCtl = CtlPeers /\ \A r \in CtlPeers : Addressed(splitCtl[r])
SliceOK == DOMAIN slice = Helpers /\ \A r \in Helpers : Addressed(slice[r])
ChannelsOK == CtlOK /\ SliceOK /\ Addressed(bulk)

ShapesOK ==
    /\ token \in [SessionSlots -> Tokens]
    /\ DOMAIN ring = SessionSlots /\ DOMAIN acks = SessionSlots /\ DOMAIN handoff = SessionSlots
    /\ counts \in [SessionSlots -> [Vocab -> Nat]] /\ served \in [SessionSlots -> Nat]
    /\ DOMAIN inbox = SessionSlots /\ \A s \in SessionSlots : DOMAIN inbox[s] = {4, 7}
    /\ ended \in {"", "timeout"} /\ wedged \subseteq Helpers \cup {7}

SplitIInv ==
    /\ ChannelsOK /\ ShapesOK
    /\ \A s \in SessionSlots : PhaseOK(s)

\* A step leaves all that concerns slot s as it is: the channels; the channels and
\* what rank 4 has of it; and rank 0's part too.
SameWire(s) ==
    /\ \A r \in CtlPeers : Mine(splitCtl'[r], s) = Mine(splitCtl[r], s)
    /\ \A r \in Helpers : Mine(slice'[r], s) = Mine(slice[r], s)
    /\ Mine(bulk', s) = Mine(bulk, s)
SameOwner(s) ==
    /\ inbox'[s] = inbox[s] /\ acks'[s] = acks[s] /\ handoff'[s] = handoff[s]
    /\ counts'[s] = counts[s] /\ served'[s] = served[s] /\ ring'[s] = ring[s]
SameAsk(s) ==
    /\ token'[s].ses = token[s].ses /\ token'[s].index = token[s].index
    /\ token'[s].mode = token[s].mode /\ token'[s].hist = token[s].hist
    /\ token'[s].logits = token[s].logits
SameSlot(s) == token'[s] = token[s] /\ SameWire(s) /\ SameOwner(s)

\* A frame sent: the channel holds it too, and still nothing twice.
LEMMA TidyAppend ==
    ASSUME NEW q, NEW f, Tidy(q), f \notin Range(q)
    PROVE  Tidy(Append(q, f)) /\ Range(Append(q, f)) = Range(q) \cup {f}
  <1> DEFINE S == Range(q) \cup {f}
  <1> HIDE DEF S
  <1>1. q \in Seq(S) /\ f \in S
    BY SeqMonotonic DEF Tidy, IsSeq, S
  <1>2. PICK p : p = Append(q, f)
    OBVIOUS
  <1>3. /\ p \in Seq(S) /\ Len(p) = Len(q) + 1 /\ p[Len(q) + 1] = f /\ Len(q) \in Nat
        /\ \A i \in 1..Len(q) : p[i] = q[i]
    BY <1>1, <1>2, AppendProperties
  <1>4. DOMAIN p = 1..Len(p) /\ DOMAIN q = 1..Len(q)
    BY <1>1, <1>3, LenProperties
  <1>5. Range(q) = {q[i] : i \in 1..Len(q)} /\ Range(p) = {p[i] : i \in 1..Len(p)}
    BY <1>4 DEF Range
  <1>6. Range(p) = S
    <2>1. ASSUME NEW x \in Range(p) PROVE x \in S
      BY <1>3, <1>5, <2>1 DEF S
    <2>2. ASSUME NEW x \in Range(q) PROVE x \in Range(p)
      BY <1>3, <1>5, <2>2
    <2>3. f \in Range(p)
      BY <1>3, <1>5
    <2> QED
      BY <2>1, <2>2, <2>3 DEF S
  <1>7. Once(p)
    <2> SUFFICES ASSUME NEW i \in 1..Len(p), NEW j \in 1..Len(p), p[i] = p[j], i < j PROVE FALSE
      BY <1>3 DEF Once
    <2>1. i \in 1..Len(q) /\ p[i] = q[i]
      BY <1>3
    <2>2. q[i] \in Range(q)
      BY <2>1, <1>5
    <2>3. j # Len(q) + 1
      BY <2>1, <2>2, <1>3
    <2>4. j \in 1..Len(q) /\ p[j] = q[j]
      BY <2>3, <1>3
    <2>5. i = j
      BY <2>1, <2>4 DEF Tidy, Once
    <2> QED
      BY <2>5, <1>3
  <1>8. IsSeq(p)
    BY <1>3, <1>6 DEF IsSeq
  <1> QED
    BY <1>2, <1>6, <1>7, <1>8 DEF Tidy, S

\* A frame taken: the channel no longer holds it.
LEMMA TidyTail ==
    ASSUME NEW q, Tidy(q), q # <<>>
    PROVE  /\ Head(q) \in Range(q) /\ Tidy(Tail(q))
           /\ Range(Tail(q)) = Range(q) \ {Head(q)}
  <1> DEFINE S == Range(q)
  <1> HIDE DEF S
  <1>1. q \in Seq(S)
    BY DEF Tidy, IsSeq, S
  <1>2. PICK p, h : p = Tail(q) /\ h = Head(q)
    OBVIOUS
  <1>3. /\ p \in Seq(S) /\ Len(p) = Len(q) - 1 /\ Len(q) \in Nat /\ Len(q) # 0 /\ h = q[1]
        /\ \A i \in 1..Len(p) : p[i] = q[i + 1]
    BY <1>1, <1>2, HeadTailProperties, EmptySeq, LenProperties
  <1>4. DOMAIN p = 1..Len(p) /\ DOMAIN q = 1..Len(q)
    BY <1>1, <1>3, LenProperties
  <1>5. Range(q) = {q[i] : i \in 1..Len(q)} /\ Range(p) = {p[i] : i \in 1..Len(p)}
    BY <1>4 DEF Range
  <1>6. h \in Range(q)
    BY <1>3, <1>5
  <1>7. Range(p) = Range(q) \ {h}
    <2>1. ASSUME NEW x \in Range(p) PROVE x \in Range(q) /\ x # h
      <3>1. PICK i \in 1..Len(p) : x = p[i]
        BY <1>5
      <3>2. i + 1 \in 1..Len(q) /\ x = q[i + 1] /\ i + 1 # 1 /\ 1 \in 1..Len(q)
        BY <3>1, <1>3
      <3>3. q[i + 1] # q[1]
        BY <3>2 DEF Tidy, Once
      <3> QED
        BY <3>2, <3>3, <1>3, <1>5
    <2>2. ASSUME NEW x \in Range(q), x # h PROVE x \in Range(p)
      <3>1. PICK i \in 1..Len(q) : x = q[i]
        BY <1>5
      <3>2. i # 1
        BY <3>1, <2>2, <1>3
      <3>3. i - 1 \in 1..Len(p) /\ p[i - 1] = q[i]
        BY <3>2, <1>3
      <3> QED
        BY <3>1, <3>3, <1>5
    <2> QED
      BY <2>1, <2>2
  <1>8. Once(p)
    <2> SUFFICES ASSUME NEW i \in 1..Len(p), NEW j \in 1..Len(p), p[i] = p[j] PROVE i = j
      BY DEF Once
    <2>1. i + 1 \in 1..Len(q) /\ j + 1 \in 1..Len(q) /\ q[i + 1] = q[j + 1]
      BY <1>3
    <2>2. i + 1 = j + 1
      BY <2>1 DEF Tidy, Once
    <2> QED
      BY <2>2, <1>3
  <1>9. IsSeq(p)
    <2>1. p \in [1..Len(p) -> Range(p)] /\ Len(p) \in Nat
      BY <1>3, <1>4, <1>5
    <2> QED
      BY <2>1, SeqDef DEF IsSeq
  <1> QED
    BY <1>2, <1>6, <1>7, <1>8, <1>9 DEF Tidy

\* The empty channel.
LEMMA TidyEmpty == Tidy(<<>>) /\ Range(<<>>) = {}
  <1>1. Len(<<>>) = 0 /\ DOMAIN <<>> = 1..0 /\ <<>> \in Seq({})
    OBVIOUS
  <1>2. 1..0 = {}
    OBVIOUS
  <1>3. Range(<<>>) = {}
    BY <1>1, <1>2 DEF Range
  <1> QED
    BY <1>1, <1>3 DEF Tidy, IsSeq, Once

\* One frame in an inbox.
LEMMA SingleFrame ==
    ASSUME NEW f
    PROVE  Append(<<>>, f) = <<f>> /\ Head(<<f>>) = f /\ Tail(<<f>>) = <<>> /\ <<f>> # <<>>
  OBVIOUS

\* What a slot has in a channel after a send and after a receive.
LEMMA MineAppend ==
    ASSUME NEW q, NEW f, Tidy(q), f \notin Range(q), NEW s
    PROVE  Mine(Append(q, f), s) = IF f.slot = s THEN Mine(q, s) \cup {f} ELSE Mine(q, s)
  <1>1. Range(Append(q, f)) = Range(q) \cup {f}
    BY TidyAppend
  <1> QED
    BY <1>1 DEF Mine

\* The frames of a slot in a channel whose first frame was taken.
LEMMA MineTail ==
    ASSUME NEW q, Tidy(q), q # <<>>, NEW s
    PROVE  Mine(Tail(q), s) = IF Head(q).slot = s THEN Mine(q, s) \ {Head(q)} ELSE Mine(q, s)
  <1>1. Range(Tail(q)) = Range(q) \ {Head(q)}
    BY TidyTail
  <1> QED
    BY <1>1 DEF Mine

\* The first frame of a channel is one of the slot it names.
LEMMA HeadMine ==
    ASSUME NEW q, Tidy(q), q # <<>>
    PROVE  Head(q) \in Mine(q, Head(q).slot)
  BY TidyTail DEF Mine

\* The split has four ways; who has which.
LEMMA SplitIs ==
    /\ Ways = 4 /\ Len(SplitRank) = 4
    /\ SplitRank[1] = 4 /\ SplitRank[2] = 0 /\ SplitRank[3] = 1 /\ SplitRank[4] = 2
    /\ WayOf(0) = 2 /\ WayOf(1) = 3 /\ WayOf(2) = 4
  <1>1. Ways = 4 /\ Len(SplitRank) = 4
    BY DEF Ways, SplitRank
  <1>2. SplitRank[1] = 4 /\ SplitRank[2] = 0 /\ SplitRank[3] = 1 /\ SplitRank[4] = 2
    BY DEF SplitRank
  <1>3. \A r : WayOf(r) = CHOOSE w \in 1..4 : SplitRank[w] = r
    BY <1>1 DEF WayOf
  <1>4. 1..4 = {1, 2, 3, 4}
    OBVIOUS
  <1>5. WayOf(0) = 2
    BY <1>2, <1>3, <1>4
  <1>6. WayOf(1) = 3
    BY <1>2, <1>3, <1>4
  <1>7. WayOf(2) = 4
    BY <1>2, <1>3, <1>4
  <1> QED
    BY <1>1, <1>2, <1>5, <1>6, <1>7

\* The slices are intervals that make up the vocabulary.
LEMMA SpanIs ==
    ASSUME OutputSplitAssumption
    PROVE  \E n \in Nat \ {0} :
             /\ 3 * n < V
             /\ Span(1) = 0..(n - 1) /\ Span(2) = n..(2 * n - 1)
             /\ Span(3) = (2 * n)..(3 * n - 1) /\ Span(4) = (3 * n)..(V - 1)
  <1>1. V \in Nat /\ V >= 4
    BY SplitIs DEF OutputSplitAssumption
  <1>2. PICK n : n = V \div 4
    OBVIOUS
  <1>3. n \in Nat /\ 4 * n <= V /\ V < 4 * n + 4
    BY <1>1, <1>2
  <1>4. n # 0 /\ 3 * n < V
    BY <1>1, <1>3
  <1>5. \A w \in 1..4 : FirstRow(w) = (w - 1) * n
    BY <1>2, SplitIs DEF FirstRow
  <1>6. FirstRow(1) = 0 /\ FirstRow(2) = n /\ FirstRow(3) = 2 * n /\ FirstRow(4) = 3 * n
    <2>1. FirstRow(1) = 0 * n /\ FirstRow(2) = 1 * n
      BY <1>5
    <2>2. FirstRow(3) = 2 * n /\ FirstRow(4) = 3 * n
      BY <1>5
    <2> QED
      BY <2>1, <2>2, <1>3
  <1>7. \A w : Span(w) = FirstRow(w)..((IF w = 4 THEN V ELSE FirstRow(w) + n) - 1)
    BY <1>2, SplitIs DEF Span
  <1>8. Span(1) = 0..(n - 1) /\ Span(2) = n..(2 * n - 1)
    BY <1>3, <1>6, <1>7
  <1>9. Span(3) = (2 * n)..(3 * n - 1) /\ Span(4) = (3 * n)..(V - 1)
    BY <1>3, <1>6, <1>7
  <1> QED
    BY <1>3, <1>4, <1>8, <1>9

\* i beats every other row of S.
Wins(i, S, logits) == i \in S /\ \A j \in S \ {i} : Better(logits[i], i, logits[j], j)

\* A non-empty interval of rows has a best one: the first rows of it up to n have
\* one, for every n.
LEMMA WinnerExists ==
    ASSUME NEW a \in Nat, NEW b \in Nat, a <= b, NEW logits, \A v \in a..b : logits[v] \in Int
    PROVE  \E i \in a..b : Wins(i, a..b, logits)
  <1> DEFINE Lacks == {n \in Nat : a <= n /\ n <= b /\ ~ \E i \in a..n : Wins(i, a..n, logits)}
  <1> SUFFICES Lacks = {}
    OBVIOUS
  <1> SUFFICES ASSUME Lacks # {} PROVE FALSE
    OBVIOUS
  <1>1. PICK n \in Lacks : \A m \in Lacks : ~ (<<m, n>> \in OpToRel(<, Nat))
    BY NatLessThanWellFounded, WFMin
  <1>2. \A m \in Lacks : ~ (m < n)
    BY <1>1 DEF OpToRel
  <1>3. n # a
    <2> SUFFICES ASSUME n = a PROVE FALSE
      OBVIOUS
    <2>1. a..n = {a}
      OBVIOUS
    <2>2. Wins(a, a..n, logits)
      BY <2>1 DEF Wins
    <2> QED
      BY <2>1, <2>2
  <1>4. n - 1 \in Nat /\ a <= n - 1 /\ n - 1 <= b /\ n - 1 \notin Lacks
    BY <1>2, <1>3
  <1>5. PICK i \in a..(n - 1) : Wins(i, a..(n - 1), logits)
    BY <1>4
  <1>6. a..n = (a..(n - 1)) \cup {n} /\ n \notin a..(n - 1)
    BY <1>4
  <1>7. logits[i] \in Int /\ logits[n] \in Int /\ \A j \in a..(n - 1) : logits[j] \in Int
    BY <1>4, <1>5
  <1>8. CASE Better(logits[i], i, logits[n], n)
    <2>1. Wins(i, a..n, logits)
      BY <1>5, <1>6, <1>8 DEF Wins
    <2> QED
      BY <2>1, <1>6
  <1>9. CASE ~Better(logits[i], i, logits[n], n)
    <2>1. logits[n] > logits[i]
      BY <1>5, <1>7, <1>9, <1>4 DEF Better
    <2>2. ASSUME NEW j \in a..(n - 1) PROVE logits[j] <= logits[i]
      BY <1>5, <1>7 DEF Wins, Better
    <2>3. ASSUME NEW j \in a..(n - 1) PROVE Better(logits[n], n, logits[j], j)
      BY <2>1, <2>2, <1>7 DEF Better
    <2>4. Wins(n, a..n, logits)
      BY <2>3, <1>6 DEF Wins
    <2> QED
      BY <2>4, <1>6
  <1> QED
    BY <1>8, <1>9

\* There is at most one, and it is what the reduction returns.
LEMMA WinnerIsBest ==
    ASSUME NEW S, S \subseteq Nat, NEW logits, \A v \in S : logits[v] \in Int,
           NEW i \in S, Wins(i, S, logits)
    PROVE  BestOf(S, logits) = i
  <1>1. ASSUME NEW j \in S, Wins(j, S, logits) PROVE j = i
    BY <1>1 DEF Wins, Better
  <1>2. BestOf(S, logits) = CHOOSE j \in S : Wins(j, S, logits)
    BY DEF BestOf, Wins
  <1> QED
    BY <1>1, <1>2

\* The better of the winners of two sets of rows wins in both together.
LEMMA WinnersMeet ==
    ASSUME NEW S, NEW T, S \subseteq Nat, T \subseteq Nat, NEW logits,
           \A v \in S \cup T : logits[v] \in Int, NEW i, NEW j,
           Wins(i, S, logits), Wins(j, T, logits), S \cap T = {}
    PROVE  /\ Better(logits[j], j, logits[i], i) => Wins(j, S \cup T, logits)
           /\ ~Better(logits[j], j, logits[i], i) => Wins(i, S \cup T, logits)
  <1>1. /\ i \in S /\ j \in T /\ i # j /\ logits[i] \in Int /\ logits[j] \in Int /\ i \in Nat /\ j \in Nat
    BY DEF Wins
  <1>2. ASSUME NEW k \in S PROVE logits[k] < logits[i] \/ (logits[k] = logits[i] /\ i <= k)
    BY <1>1 DEF Wins, Better
  <1>3. ASSUME NEW k \in T PROVE logits[k] < logits[j] \/ (logits[k] = logits[j] /\ j <= k)
    BY <1>1 DEF Wins, Better
  <1>4. ASSUME Better(logits[j], j, logits[i], i), NEW k \in (S \cup T) \ {j}
        PROVE  Better(logits[j], j, logits[k], k)
    <2>1. CASE k \in S
      BY <2>1, <1>1, <1>2, <1>4 DEF Better
    <2>2. CASE k \in T
      BY <2>2, <1>4 DEF Wins
    <2> QED
      BY <2>1, <2>2
  <1>5. ASSUME ~Better(logits[j], j, logits[i], i), NEW k \in (S \cup T) \ {i}
        PROVE  Better(logits[i], i, logits[k], k)
    <2>0. logits[j] < logits[i] \/ (logits[j] = logits[i] /\ i < j)
      BY <1>1, <1>5 DEF Better
    <2>1. CASE k \in T
      BY <2>0, <2>1, <1>1, <1>3 DEF Better
    <2>2. CASE k \in S
      BY <2>2, <1>5 DEF Wins
    <2> QED
      BY <2>1, <2>2
  <1> QED
    BY <1>1, <1>4, <1>5 DEF Wins

\* A partial stands for the rows of S: it names their winner.
Stands(p, S, logits) == p.id \in S /\ p.value = logits[p.id] /\ Wins(p.id, S, logits)

\* Combining the winners of two sets of rows gives the winner of their union.
LEMMA CombineStands ==
    ASSUME NEW S, NEW T, S \subseteq Nat, T \subseteq Nat, S \cap T = {}, NEW logits,
           \A v \in S \cup T : logits[v] \in Int, NEW p, NEW q,
           Stands(p, S, logits), Stands(q, T, logits)
    PROVE  Stands(Combine(p, q), T \cup S, logits)
  <1>1. /\ p.id \in S /\ p.value = logits[p.id] /\ Wins(p.id, S, logits)
        /\ q.id \in T /\ q.value = logits[q.id] /\ Wins(q.id, T, logits)
    BY DEF Stands
  <1>2. /\ Better(logits[p.id], p.id, logits[q.id], q.id) => Wins(p.id, T \cup S, logits)
        /\ ~Better(logits[p.id], p.id, logits[q.id], q.id) => Wins(q.id, T \cup S, logits)
    BY <1>1, WinnersMeet
  <1>3. CASE Better(p.value, p.id, q.value, q.id)
    BY <1>1, <1>2, <1>3 DEF Stands, Combine
  <1>4. CASE ~Better(p.value, p.id, q.value, q.id)
    BY <1>1, <1>2, <1>4 DEF Stands, Combine
  <1> QED
    BY <1>3, <1>4

\* The spans: pairwise disjoint sets of rows, all of them together.
LEMMA SpansPartition ==
    ASSUME OutputSplitAssumption
    PROVE  /\ \A w \in 1..4 : Span(w) \subseteq Vocab
           /\ \A w, x \in 1..4 : w # x => Span(w) \cap Span(x) = {}
           /\ Vocab = Span(1) \cup Span(2) \cup Span(3) \cup Span(4)
           /\ Vocab \subseteq Nat
  <1>1. PICK n \in Nat \ {0} :
             /\ 3 * n < V
             /\ Span(1) = 0..(n - 1) /\ Span(2) = n..(2 * n - 1)
             /\ Span(3) = (2 * n)..(3 * n - 1) /\ Span(4) = (3 * n)..(V - 1)
    BY SpanIs
  <1>2. V \in Nat /\ Vocab = 0..(V - 1)
    BY DEF OutputSplitAssumption, Vocab
  <1>3. Span(1) \subseteq Vocab /\ Span(2) \subseteq Vocab /\ Span(3) \subseteq Vocab /\ Span(4) \subseteq Vocab
    BY <1>1, <1>2
  <1>40. /\ \A v \in Span(1) : v \in Nat /\ v < n
         /\ \A v \in Span(2) : v \in Nat /\ n <= v /\ v < 2 * n
         /\ \A v \in Span(3) : v \in Nat /\ 2 * n <= v /\ v < 3 * n
         /\ \A v \in Span(4) : v \in Nat /\ 3 * n <= v
    BY <1>1, <1>2
  <1>41. n \in Nat /\ n < 2 * n /\ 2 * n < 3 * n
    OBVIOUS
  <1>4. Span(1) \cap Span(2) = {} /\ Span(1) \cap Span(3) = {} /\ Span(1) \cap Span(4) = {}
    BY <1>40, <1>41
  <1>5. Span(2) \cap Span(3) = {} /\ Span(2) \cap Span(4) = {} /\ Span(3) \cap Span(4) = {}
    BY <1>40, <1>41
  <1>6. 1..4 = {1, 2, 3, 4}
    OBVIOUS
  <1>7. \A w \in 1..4 : Span(w) \subseteq Vocab
    BY <1>3, <1>6
  <1>8. \A w, x \in 1..4 : w # x => Span(w) \cap Span(x) = {}
    <2> SUFFICES ASSUME NEW w \in 1..4, NEW x \in 1..4, w # x PROVE Span(w) \cap Span(x) = {}
      OBVIOUS
    <2>1. CASE w = 1
      BY <2>1, <1>4, <1>6
    <2>2. CASE w = 2
      BY <2>2, <1>4, <1>5, <1>6
    <2>3. CASE w = 3
      BY <2>3, <1>4, <1>5, <1>6
    <2>4. CASE w = 4
      BY <2>4, <1>4, <1>5, <1>6
    <2> QED
      BY <2>1, <2>2, <2>3, <2>4, <1>6
  <1>9. ASSUME NEW v \in Vocab PROVE v \in Span(1) \cup Span(2) \cup Span(3) \cup Span(4)
    BY <1>1, <1>2
  <1>10. Vocab = Span(1) \cup Span(2) \cup Span(3) \cup Span(4)
    BY <1>3, <1>9
  <1> QED
    BY <1>2, <1>7, <1>8, <1>10

\* What a rank reduces its slice to stands for the slice.
LEMMA PartialStands ==
    ASSUME OutputSplitAssumption, NEW logits \in [Vocab -> Int], NEW w \in 1..4
    PROVE  /\ Stands(SlicePartial(w, logits), Span(w), logits)
           /\ SlicePartial(w, logits).rank = SplitRank[w]
  <1>1. PICK n \in Nat \ {0} :
             /\ 3 * n < V
             /\ Span(1) = 0..(n - 1) /\ Span(2) = n..(2 * n - 1)
             /\ Span(3) = (2 * n)..(3 * n - 1) /\ Span(4) = (3 * n)..(V - 1)
    BY SpanIs
  <1>2. V \in Nat
    BY DEF OutputSplitAssumption
  <1>3. PICK a \in Nat, b \in Nat : a <= b /\ Span(w) = a..b
    <2>1. w = 1 \/ w = 2 \/ w = 3 \/ w = 4
      OBVIOUS
    <2>2. CASE w = 1
      <3>1. 0 \in Nat /\ n - 1 \in Nat /\ 0 <= n - 1
        OBVIOUS
      <3> QED
        BY <3>1, <2>2, <1>1
    <2>3. CASE w = 2
      <3>1. n \in Nat /\ 2 * n - 1 \in Nat /\ n <= 2 * n - 1
        OBVIOUS
      <3> QED
        BY <3>1, <2>3, <1>1
    <2>4. CASE w = 3
      <3>1. 2 * n \in Nat /\ 3 * n - 1 \in Nat /\ 2 * n <= 3 * n - 1
        OBVIOUS
      <3> QED
        BY <3>1, <2>4, <1>1
    <2>5. CASE w = 4
      <3>1. 3 * n \in Nat /\ V - 1 \in Nat /\ 3 * n <= V - 1
        BY <1>1, <1>2
      <3> QED
        BY <3>1, <2>5, <1>1
    <2> QED
      BY <2>1, <2>2, <2>3, <2>4, <2>5
  <1>4. Span(w) \subseteq Vocab /\ Vocab \subseteq Nat
    BY SpansPartition
  <1>5. \A v \in a..b : logits[v] \in Int
    BY <1>3, <1>4
  <1>6. PICK i \in a..b : Wins(i, a..b, logits)
    BY <1>3, <1>5, WinnerExists
  <1>7. BestOf(Span(w), logits) = i
    BY <1>3, <1>4, <1>5, <1>6, WinnerIsBest
  <1>8. SlicePartial(w, logits) = [rank |-> SplitRank[w], value |-> logits[i], id |-> i]
    BY <1>7 DEF SlicePartial
  <1> QED
    BY <1>3, <1>6, <1>8 DEF Stands

\* Four partials of four slices, combined in the order of their arrival: the
\* choice of one head over the whole vocabulary.
LEMMA CombineExact ==
    ASSUME OutputSplitAssumption, NEW logits \in [Vocab -> Int], NEW remote,
           NEW a \in {2, 3, 4}, NEW b \in {2, 3, 4}, NEW c \in {2, 3, 4},
           a # b, a # c, b # c,
           remote[1] = SlicePartial(a, logits), remote[2] = SlicePartial(b, logits),
           remote[3] = SlicePartial(c, logits)
    PROVE  /\ CombineAll(SlicePartial(1, logits), remote).id = BestOf(Vocab, logits)
           /\ BestOf(Vocab, logits) \in Vocab
  <1>1. PICK p1, pa, pb, pc : /\ p1 = SlicePartial(1, logits) /\ pa = SlicePartial(a, logits)
                              /\ pb = SlicePartial(b, logits) /\ pc = SlicePartial(c, logits)
    OBVIOUS
  <1>2. PICK A, B, C, D : A = Span(1) /\ B = Span(a) /\ C = Span(b) /\ D = Span(c)
    OBVIOUS
  <1>3. a \in 1..4 /\ b \in 1..4 /\ c \in 1..4 /\ 1 \in 1..4 /\ a # 1 /\ b # 1 /\ c # 1
    OBVIOUS
  <1>4. Stands(p1, A, logits) /\ Stands(pa, B, logits) /\ Stands(pb, C, logits) /\ Stands(pc, D, logits)
    BY <1>1, <1>2, <1>3, PartialStands
  <1>5. /\ A \subseteq Vocab /\ B \subseteq Vocab /\ C \subseteq Vocab /\ D \subseteq Vocab
        /\ Vocab \subseteq Nat
    BY <1>2, <1>3, SpansPartition
  <1>51. A \cap B = {} /\ A \cap C = {} /\ A \cap D = {}
    BY <1>2, <1>3, SpansPartition
  <1>52. B \cap C = {} /\ B \cap D = {} /\ C \cap D = {}
    BY <1>2, <1>3, SpansPartition
  <1>53. Vocab = A \cup B \cup C \cup D
    <2>1. {a, b, c} = {2, 3, 4}
      OBVIOUS
    <2>2. Vocab = Span(1) \cup Span(2) \cup Span(3) \cup Span(4)
      BY SpansPartition
    <2>3. ASSUME NEW v \in Span(2) \cup Span(3) \cup Span(4) PROVE v \in B \cup C \cup D
      BY <1>2, <2>1
    <2> QED
      BY <1>2, <1>5, <2>2, <2>3
  <1>6. Stands(Combine(pa, p1), A \cup B, logits)
    BY <1>4, <1>5, <1>51, CombineStands
  <1>7. Stands(Combine(pb, Combine(pa, p1)), (A \cup B) \cup C, logits)
    <2>1. /\ C \subseteq Nat /\ A \cup B \subseteq Nat /\ C \cap (A \cup B) = {}
          /\ \A v \in C \cup (A \cup B) : logits[v] \in Int
      BY <1>5, <1>51, <1>52
    <2> QED
      BY <2>1, <1>4, <1>6, CombineStands
  <1>8. Stands(Combine(pc, Combine(pb, Combine(pa, p1))), ((A \cup B) \cup C) \cup D, logits)
    <2>1. /\ D \subseteq Nat /\ (A \cup B) \cup C \subseteq Nat /\ D \cap ((A \cup B) \cup C) = {}
          /\ \A v \in D \cup ((A \cup B) \cup C) : logits[v] \in Int
      BY <1>5, <1>51, <1>52
    <2> QED
      BY <2>1, <1>4, <1>7, CombineStands
  <1>9. CombineAll(p1, remote) = Combine(pc, Combine(pb, Combine(pa, p1)))
    BY <1>1 DEF CombineAll
  <1>10. PICK x : x = CombineAll(p1, remote).id /\ x \in Vocab /\ Wins(x, Vocab, logits)
    BY <1>8, <1>9, <1>53 DEF Stands
  <1>11. BestOf(Vocab, logits) = x
    BY <1>5, <1>10, WinnerIsBest
  <1> QED
    BY <1>1, <1>10, <1>11

\* The frames of a token, field by field.
LEMMA FrameIs ==
    ASSUME NEW s, NEW k, NEW b
    PROVE  /\ TokenFrame(s, k, b) = [slot |-> s, kind |-> k, ses |-> token[s].ses, body |-> b]
           /\ TokenFrame(s, k, b).slot = s /\ TokenFrame(s, k, b).kind = k
           /\ TokenFrame(s, k, b).ses = token[s].ses /\ TokenFrame(s, k, b).body = b
  BY DEF TokenFrame

\* They depend on rank 0's part of the slot alone.
LEMMA FramesSame ==
    ASSUME NEW s, SameAsk(s)
    PROVE  /\ ConfigOf(s)' = ConfigOf(s) /\ HiddenOf(s)' = HiddenOf(s) /\ RingWork(s)' = RingWork(s)
           /\ ConfigFrame(s)' = ConfigFrame(s) /\ SliceFrame(s)' = SliceFrame(s)
           /\ HiddenFrame(s)' = HiddenFrame(s) /\ WorkFrame(s)' = WorkFrame(s)
           /\ HistFrame(s)' = HistFrame(s) /\ BeginFrame(s)' = BeginFrame(s)
           /\ \A r : PartOf(s, r)' = PartOf(s, r) /\ PartFrame(s, r)' = PartFrame(s, r)
           /\ \A id : ResultFrame(s, id)' = ResultFrame(s, id)
  <1>1. \A k, b : TokenFrame(s, k, b)' = TokenFrame(s, k, b)
    BY DEF TokenFrame, SameAsk
  <1>2. ConfigOf(s)' = ConfigOf(s) /\ HiddenOf(s)' = HiddenOf(s) /\ RingWork(s)' = RingWork(s)
    BY DEF ConfigOf, HiddenOf, RingWork, SameAsk
  <1>3. \A r : PartOf(s, r)' = PartOf(s, r)
    BY DEF PartOf, SameAsk
  <1> QED
    BY <1>1, <1>2, <1>3 DEF ConfigFrame, SliceFrame, HiddenFrame, WorkFrame, HistFrame, BeginFrame,
       PartFrame, ResultFrame, TokenFrame, SameAsk

\* A slot that a step does not concern stays in its situation.
LEMMA SlotRestSame ==
    ASSUME NEW s, SameWire(s), SameOwner(s), NEW C, NEW in, NEW ack, SlotRest(s, C, in, ack)
    PROVE  SlotRest(s, C, in, ack)'
  <1>1. Calm(s)'
    BY DEF SameWire, SameOwner, SlotRest, Calm, CtlPeers, Helpers
  <1> QED
    BY <1>1 DEF SameWire, SameOwner, SlotRest, CtlPeers

\* A split token is still where it was after a step that does not concern it.
LEMMA SlicingSame ==
    ASSUME NEW s, SameAsk(s), SameWire(s), SameOwner(s), Slicing(s)
    PROVE  Slicing(s)'
  <1>1. /\ ConfigOf(s)' = ConfigOf(s) /\ HiddenOf(s)' = HiddenOf(s) /\ RingWork(s)' = RingWork(s)
        /\ ConfigFrame(s)' = ConfigFrame(s) /\ SliceFrame(s)' = SliceFrame(s)
        /\ \A r : PartOf(s, r)' = PartOf(s, r) /\ PartFrame(s, r)' = PartFrame(s, r)
    BY FramesSame
  <1>2. /\ handoff'[s] = handoff[s] /\ inbox'[s] = inbox[s] /\ ring'[s] = ring[s]
        /\ token'[s].mode = token[s].mode
        /\ Mine(splitCtl'[0], s) = Mine(splitCtl[0], s) /\ Mine(bulk', s) = Mine(bulk, s)
        /\ \A r \in Helpers : /\ Mine(splitCtl'[r], s) = Mine(splitCtl[r], s)
                              /\ Mine(slice'[r], s) = Mine(slice[r], s)
    BY DEF SameAsk, SameWire, SameOwner, CtlPeers, Helpers
  <1>3. HandoffShape(s, handoff[s])'
    BY <1>1, <1>2 DEF Slicing, SliceWith, HandoffShape
  <1>4. RemoteOK(s, handoff[s])'
    BY <1>1, <1>2 DEF Slicing, SliceWith, RemoteOK
  <1>5. \A r : Has(handoff[s], r)' <=> Has(handoff[s], r)
    BY <1>2 DEF Has
  <1> QED
    BY <1>1, <1>2, <1>3, <1>4, <1>5 DEF Slicing, SliceWith

\* So is a token that rank 4 samples alone.
LEMMA SamplingSame ==
    ASSUME NEW s, SameAsk(s), SameWire(s), SameOwner(s), Sampling(s)
    PROVE  Sampling(s)'
  <1>1. /\ ConfigOf(s)' = ConfigOf(s) /\ HiddenOf(s)' = HiddenOf(s) /\ RingWork(s)' = RingWork(s)
        /\ ConfigFrame(s)' = ConfigFrame(s) /\ HiddenFrame(s)' = HiddenFrame(s)
    BY FramesSame
  <1>2. /\ handoff'[s] = handoff[s] /\ inbox'[s] = inbox[s] /\ ring'[s] = ring[s]
        /\ token'[s].mode = token[s].mode
        /\ Mine(splitCtl'[0], s) = Mine(splitCtl[0], s) /\ Mine(bulk', s) = Mine(bulk, s)
        /\ \A r \in Helpers : /\ Mine(splitCtl'[r], s) = Mine(splitCtl[r], s)
                              /\ Mine(slice'[r], s) = Mine(slice[r], s)
    BY DEF SameAsk, SameWire, SameOwner, CtlPeers, Helpers
  <1>3. HandoffShape(s, handoff[s])'
    BY <1>1, <1>2 DEF Sampling, SampleWith, HandoffShape
  <1>4. /\ handoff'[s].hiddenSlice = NoHidden /\ handoff'[s].hidden \in {NoHidden, HiddenOf(s)'}
        /\ handoff'[s].remote = <<>> /\ token'[s].mode # "greedy"
    BY <1>1, <1>2 DEF Sampling, SampleWith
  <1>5. handoff'[s].local = FALSE
    BY <1>2, Zenon DEF Sampling, SampleWith
  <1>6. /\ Mine(splitCtl'[0], s) \subseteq {ConfigFrame(s)'} /\ Mine(bulk', s) \subseteq {HiddenFrame(s)'}
        /\ inbox'[s][7] = <<>>
        /\ \A r \in Helpers : Mine(slice'[r], s) = {} /\ Mine(splitCtl'[r], s) = {}
        /\ handoff'[s].hidden # NoHidden => Mine(bulk', s) = {}
        /\ ring'[s] # NoHidden => handoff'[s].hidden = NoHidden /\ Mine(bulk', s) = {}
    BY <1>1, <1>2 DEF Sampling, SampleWith
  <1> QED
    BY <1>3, <1>4, <1>5, <1>6, Zenon DEF Sampling, SampleWith

\* Every situation of a slot outlasts the steps that do not concern the slot.
LEMMA SituationSame ==
    ASSUME NEW s, SameAsk(s), SameWire(s), SameOwner(s)
    PROVE  /\ Synced(s) => Synced(s)'
           /\ SlotResting(s) => SlotResting(s)'
           /\ Opening(s) => Opening(s)'
           /\ Syncing(s) => Syncing(s)'
           /\ Relaying(s) => Relaying(s)'
           /\ Chosen(s) => Chosen(s)'
           /\ Choosing(s) => Choosing(s)'
  <1>1. /\ token'[s].ses = token[s].ses /\ token'[s].mode = token[s].mode
        /\ token'[s].hist = token[s].hist /\ token'[s].logits = token[s].logits
        /\ token'[s].index = token[s].index /\ counts'[s] = counts[s]
        /\ served'[s] = served[s] /\ inbox'[s] = inbox[s] /\ acks'[s] = acks[s]
    BY DEF SameAsk, SameOwner
  <1>2. /\ WorkFrame(s)' = WorkFrame(s) /\ HistFrame(s)' = HistFrame(s)
        /\ BeginFrame(s)' = BeginFrame(s) /\ \A id : ResultFrame(s, id)' = ResultFrame(s, id)
    BY <1>1, FramesSame
  <1>3. Synced(s) => Synced(s)'
    BY <1>1 DEF Synced
  <1>4. SlotResting(s) => SlotResting(s)'
    BY <1>1, SlotRestSame DEF SlotResting
  <1>5. Opening(s) => Opening(s)'
    <2>1. ASSUME SlotRest(s, {BeginFrame(s)}, <<>>, <<>>) PROVE SlotRest(s, {BeginFrame(s)}, <<>>, <<>>)'
      <3>1. PICK C : C = {BeginFrame(s)}
        OBVIOUS
      <3>2. SlotRest(s, C, <<>>, <<>>)'
        BY <2>1, <3>1, <1>1, SlotRestSame
      <3> QED
        BY <3>1, <3>2, <1>2 DEF SlotRest
    <2>2. SlotRest(s, {}, <<>>, <<"begin">>) => SlotRest(s, {}, <<>>, <<"begin">>)'
      BY <1>1, SlotRestSame
    <2> QED
      BY <2>1, <2>2, <1>1 DEF Opening
  <1>6. Syncing(s) => Syncing(s)'
    <2>1. ASSUME SlotRest(s, {HistFrame(s)}, <<>>, <<>>) PROVE SlotRest(s, {HistFrame(s)}, <<>>, <<>>)'
      <3>1. PICK C : C = {HistFrame(s)}
        OBVIOUS
      <3>2. SlotRest(s, C, <<>>, <<>>)'
        BY <2>1, <3>1, <1>1, SlotRestSame
      <3> QED
        BY <3>1, <3>2, <1>2 DEF SlotRest
    <2>2. SlotRest(s, {}, <<>>, <<"history">>) => SlotRest(s, {}, <<>>, <<"history">>)'
      BY <1>1, SlotRestSame
    <2> QED
      BY <2>1, <2>2, <1>1, <1>3 DEF Syncing
  <1>7. Relaying(s) => Relaying(s)'
    <2>1. ASSUME SlotRest(s, {WorkFrame(s)}, <<>>, <<>>) PROVE SlotRest(s, {WorkFrame(s)}, <<>>, <<>>)'
      <3>1. PICK C : C = {WorkFrame(s)}
        OBVIOUS
      <3>2. SlotRest(s, C, <<>>, <<>>)'
        BY <2>1, <3>1, <1>1, SlotRestSame
      <3> QED
        BY <3>1, <3>2, <1>2 DEF SlotRest
    <2> QED
      BY <2>1, <1>1, <1>3 DEF Relaying
  <1>8. Chosen(s) => Chosen(s)'
    <2> SUFFICES ASSUME Chosen(s) PROVE Chosen(s)'
      OBVIOUS
    <2>1. PICK id \in Vocab :
          /\ SlotRest(s, {}, <<ResultFrame(s, id)>>, <<>>)
          /\ id \in Sample(token[s].mode, token[s].logits, token[s].hist)
          /\ token[s].mode = "penalised" => counts[s] = [token[s].hist EXCEPT ![id] = @ + 1]
      BY DEF Chosen
    <2>2. PICK in : in = <<ResultFrame(s, id)>>
      OBVIOUS
    <2>3. SlotRest(s, {}, in, <<>>)'
      BY <2>1, <2>2, <1>1, SlotRestSame
    <2>4. SlotRest(s, {}, <<ResultFrame(s, id)>>, <<>>)'
      BY <2>2, <2>3, <1>2 DEF SlotRest
    <2> QED
      BY <2>1, <2>4, <1>1 DEF Chosen
  <1>9. Choosing(s) => Choosing(s)'
    BY <1>1, <1>3, SlicingSame, SamplingSame DEF Choosing
  <1> QED
    BY <1>1, <1>3, <1>4, <1>5, <1>6, <1>7, <1>8, <1>9

\* The invariant of a slot outlasts a step of another slot.
LEMMA PhaseSame ==
    ASSUME NEW s, SameSlot(s), PhaseOK(s)
    PROVE  PhaseOK(s)'
  <1>1. SameAsk(s) /\ SameWire(s) /\ SameOwner(s) /\ token'[s] = token[s]
    BY DEF SameSlot, SameAsk
  <1> QED
    BY <1>1, SituationSame DEF PhaseOK

\* A step that concerns one slot: the invariant follows from that slot's part.
LEMMA SlotStep ==
    ASSUME SplitIInv, NEW s \in SessionSlots, ChannelsOK', ShapesOK',
           \A p \in SessionSlots : p # s => SameSlot(p), PhaseOK(s)'
    PROVE  SplitIInv'
  <1>1. ASSUME NEW p \in SessionSlots, p # s PROVE PhaseOK(p)'
    <2>1. SameSlot(p)
      BY <1>1
    <2>2. PhaseOK(p)
      BY DEF SplitIInv
    <2> QED
      BY <2>1, <2>2, PhaseSame
  <1> QED
    BY <1>1 DEF SplitIInv

\* The channels after a send and after a receive.
LEMMA CtlSent ==
    ASSUME CtlOK, NEW r \in CtlPeers, NEW f, f.slot \in SessionSlots, f \notin Mine(splitCtl[r], f.slot),
           splitCtl' = [splitCtl EXCEPT ![r] = Append(@, f)]
    PROVE  /\ CtlOK'
           /\ Mine(splitCtl'[r], f.slot) = Mine(splitCtl[r], f.slot) \cup {f}
           /\ \A p : p # f.slot => Mine(splitCtl'[r], p) = Mine(splitCtl[r], p)
           /\ \A x \in CtlPeers : x # r => splitCtl'[x] = splitCtl[x]
  <1>1. DOMAIN splitCtl = CtlPeers /\ Addressed(splitCtl[r])
    BY DEF CtlOK
  <1>2. /\ splitCtl'[r] = Append(splitCtl[r], f) /\ DOMAIN splitCtl' = CtlPeers
        /\ \A x \in CtlPeers : x # r => splitCtl'[x] = splitCtl[x]
    BY <1>1
  <1>3. Tidy(splitCtl[r]) /\ f \notin Range(splitCtl[r])
    BY <1>1 DEF Addressed, Mine
  <1>4. PICK q : q = splitCtl[r]
    OBVIOUS
  <1>5. Tidy(Append(q, f)) /\ Range(Append(q, f)) = Range(q) \cup {f}
    BY <1>3, <1>4, TidyAppend
  <1>51. \A p : Mine(Append(q, f), p) = IF f.slot = p THEN Mine(q, p) \cup {f} ELSE Mine(q, p)
    BY <1>5 DEF Mine
  <1>6. Addressed(splitCtl'[r])
    BY <1>1, <1>2, <1>4, <1>5 DEF Addressed
  <1>7. CtlOK'
    BY <1>2, <1>6 DEF CtlOK
  <1> QED
    BY <1>2, <1>4, <1>51, <1>7

\* Rank 4 takes the first frame f of control connection r: the channel keeps its other
\* frames, and nothing changes for another slot or on another connection.
LEMMA CtlTaken ==
    ASSUME CtlOK, NEW r \in CtlPeers, splitCtl[r] # <<>>, NEW f, f = Head(splitCtl[r]),
           splitCtl' = [splitCtl EXCEPT ![r] = Tail(@)]
    PROVE  /\ CtlOK' /\ f.slot \in SessionSlots /\ f \in Mine(splitCtl[r], f.slot)
           /\ Mine(splitCtl'[r], f.slot) = Mine(splitCtl[r], f.slot) \ {f}
           /\ \A p : p # f.slot => Mine(splitCtl'[r], p) = Mine(splitCtl[r], p)
           /\ \A x \in CtlPeers : x # r => splitCtl'[x] = splitCtl[x]
  <1>1. DOMAIN splitCtl = CtlPeers /\ Addressed(splitCtl[r])
    BY DEF CtlOK
  <1>2. /\ splitCtl'[r] = Tail(splitCtl[r]) /\ DOMAIN splitCtl' = CtlPeers
        /\ \A x \in CtlPeers : x # r => splitCtl'[x] = splitCtl[x]
    BY <1>1
  <1>4. PICK q : q = splitCtl[r]
    OBVIOUS
  <1>5. /\ Tidy(Tail(q)) /\ Range(Tail(q)) = Range(q) \ {f} /\ f \in Range(q) /\ f \in Mine(q, f.slot)
        /\ \A p : Mine(Tail(q), p) = IF f.slot = p THEN Mine(q, p) \ {f} ELSE Mine(q, p)
    BY <1>1, <1>4, TidyTail, MineTail, HeadMine DEF Addressed
  <1>6. Addressed(splitCtl'[r]) /\ f.slot \in SessionSlots
    BY <1>1, <1>2, <1>4, <1>5 DEF Addressed
  <1>7. CtlOK'
    BY <1>2, <1>6 DEF CtlOK
  <1> QED
    BY <1>2, <1>4, <1>5, <1>6, <1>7

\* A new frame f of a slot at the end of a channel.
LEMMA FrameSent ==
    ASSUME NEW q, NEW f, Addressed(q), f.slot \in SessionSlots, f \notin Mine(q, f.slot)
    PROVE  /\ Addressed(Append(q, f))
           /\ Mine(Append(q, f), f.slot) = Mine(q, f.slot) \cup {f}
           /\ \A p : p # f.slot => Mine(Append(q, f), p) = Mine(q, p)
  <1>1. Tidy(q) /\ f \notin Range(q)
    BY DEF Addressed, Mine
  <1>2. Tidy(Append(q, f)) /\ Range(Append(q, f)) = Range(q) \cup {f}
    BY <1>1, TidyAppend
  <1>3. Addressed(Append(q, f))
    BY <1>2 DEF Addressed
  <1> QED
    BY <1>2, <1>3 DEF Mine

\* The first frame f of a channel taken.
LEMMA FrameTaken ==
    ASSUME NEW q, NEW f, Addressed(q), q # <<>>, f = Head(q)
    PROVE  /\ Addressed(Tail(q)) /\ f.slot \in SessionSlots /\ f \in Mine(q, f.slot)
           /\ Mine(Tail(q), f.slot) = Mine(q, f.slot) \ {f}
           /\ \A p : p # f.slot => Mine(Tail(q), p) = Mine(q, p)
  <1>1. Tidy(q)
    BY DEF Addressed
  <1>2. /\ Tidy(Tail(q)) /\ Range(Tail(q)) = Range(q) \ {f} /\ f \in Range(q)
    BY <1>1, TidyTail
  <1>3. Addressed(Tail(q))
    BY <1>2 DEF Addressed
  <1>4. f.slot \in SessionSlots /\ f \in Mine(q, f.slot)
    BY <1>2 DEF Addressed, Mine
  <1>5. \A g : g \in Mine(Tail(q), f.slot) <=> g \in Mine(q, f.slot) \ {f}
    BY <1>2 DEF Mine
  <1>6. ASSUME NEW p, p # f.slot PROVE Mine(Tail(q), p) = Mine(q, p)
    BY <1>2, <1>6 DEF Mine
  <1> QED
    BY <1>3, <1>4, <1>5, <1>6

\* What the phase of rank 0 says about the slot, as a list of situations.
SlotStage(s) ==
    LET ph == token[s].phase IN
    \/ ph \in {"idle", "timeout", "lost"} /\ SlotResting(s)
    \/ ph \in {"prefill", "decode"} /\ SlotResting(s) /\ Synced(s)
    \/ ph \in {"begin", "timeout", "lost"} /\ Opening(s)
    \/ ph \in {"history", "timeout", "lost"} /\ Syncing(s)
    \/ ph \in {"relay", "timeout", "lost"} /\ Relaying(s)
    \/ ph \in {"wait", "timeout", "lost"} /\ Choosing(s)
    \/ ph \in {"relay", "wait", "timeout", "lost"} /\ Chosen(s)

\* The invariant of a slot puts it in one of the situations,
LEMMA StageOfPhase ==
    ASSUME NEW s, token[s].phase \in Phases, PhaseOK(s)
    PROVE  SlotStage(s)
  BY DEF Phases, PhaseOK, SlotStage, Failed

\* and a slot in one of them satisfies the invariant.
LEMMA PhaseOfStage ==
    ASSUME NEW s, SlotStage(s)
    PROVE  PhaseOK(s)
  BY DEF PhaseOK, SlotStage, Failed

\* Nothing of a slot changes but the phase in which rank 0 is.
LEMMA PhaseMoves ==
    ASSUME NEW s, SameWire(s), SameOwner(s), NEW ph,
           token'[s] = [token[s] EXCEPT !.phase = ph], token[s] \in Tokens
    PROVE  /\ SlotResting(s) => SlotResting(s)'
           /\ Synced(s) => Synced(s)'
           /\ Opening(s) => Opening(s)'
           /\ Syncing(s) => Syncing(s)'
           /\ Relaying(s) => Relaying(s)'
           /\ Choosing(s) => Choosing(s)'
           /\ Chosen(s) => Chosen(s)'
  <1>1. SameAsk(s)
    BY DEF SameAsk, Tokens, Asks
  <1> QED
    BY <1>1, SituationSame

\* The ranks start with the invariant.
LEMMA SplitInitially ==
    ASSUME OutputSplitAssumption, SplitInit
    PROVE  SplitIInv
  <1>1. PICK l \in LogitChoices : l = CHOOSE x \in LogitChoices : TRUE
    BY DEF OutputSplitAssumption
  <1>2. /\ Fresh \in [phase : {"begin"}, ses : {1}, index : {0}, mode : AllModes,
                      hist : [Vocab -> Nat], logits : LogitChoices, chosen : {NoToken},
                      due : {{NoToken}}]
    BY <1>1 DEF Fresh, AllModes
  <1>3. \A s \in SessionSlots : token[s] \in Tokens /\ token[s].phase = "idle"
                                /\ token[s].ses = 1 /\ token[s].chosen \in token[s].due
    <2> SUFFICES ASSUME NEW s \in SessionSlots
                 PROVE  token[s] \in Tokens /\ token[s].phase = "idle"
                        /\ token[s].ses = 1 /\ token[s].chosen \in token[s].due
      OBVIOUS
    <2>1. token[s] = [Fresh EXCEPT !.phase = "idle"]
      BY DEF SplitInit
    <2>2. MaxIndex \in Nat /\ MaxBegins \in Nat
      BY DEF OutputSplitAssumption
    <2>3. 0 \in 0..MaxIndex /\ 1 \in 1..(MaxBegins + 1)
      BY <2>2
    <2> QED
      BY <1>2, <2>1, <2>3 DEF Tokens, Asks, Phases
  <1>4. ChannelsOK
    <2>1. Addressed(<<>>)
      BY TidyEmpty DEF Addressed
    <2> QED
      BY <2>1 DEF ChannelsOK, CtlOK, SliceOK, SplitInit, CtlPeers, Helpers
  <1>5. ShapesOK
    <2>1. token \in [SessionSlots -> Tokens]
      BY <1>3 DEF SplitInit
    <2> QED
      BY <2>1 DEF ShapesOK, SplitInit
  <1>6. ASSUME NEW s \in SessionSlots PROVE PhaseOK(s)
    <2>1. \A q : Mine(<<>>, q) = {}
      BY TidyEmpty DEF Mine
    <2>2. Calm(s)
      BY <2>1 DEF Calm, SplitInit, Helpers
    <2>3. SlotRest(s, {}, <<>>, <<>>)
      BY <2>1, <2>2 DEF SlotRest, SplitInit
    <2>4. SlotResting(s)
      BY <2>3, <1>3 DEF SlotResting, SplitInit
    <2> QED
      BY <1>3, <2>4, PhaseOfStage DEF SlotStage
  <1> QED
    BY <1>3, <1>4, <1>5, <1>6 DEF SplitIInv

\* What the invariant says of one slot.
LEMMA SlotOf ==
    ASSUME SplitIInv, NEW s \in SessionSlots
    PROVE  /\ token[s] \in Tokens /\ SlotStage(s) /\ token[s].chosen \in token[s].due
           /\ DOMAIN token = SessionSlots
  <1>1. token[s] \in Tokens /\ DOMAIN token = SessionSlots
    BY DEF SplitIInv, ShapesOK
  <1>2. token[s].phase \in Phases /\ token[s].chosen \in token[s].due
    BY <1>1 DEF Tokens, Asks
  <1> QED
    BY <1>1, <1>2, StageOfPhase DEF SplitIInv

\* A step of rank 0 that sends nothing.
LEMMA HostSilent ==
    ASSUME SplitIInv, NEW s \in SessionSlots, NEW t \in Tokens, token' = [token EXCEPT ![s] = t],
           UNCHANGED <<splitCtl, bulk, slice>>
    PROVE  /\ ChannelsOK' /\ \A p : SameWire(p)
           /\ token'[s] = t /\ \A p \in SessionSlots : p # s => token'[p] = token[p]
           /\ token' \in [SessionSlots -> Tokens]
  <1>1. ChannelsOK'
    BY DEF SplitIInv, ChannelsOK, CtlOK, SliceOK
  <1>2. \A p : SameWire(p)
    BY DEF SameWire
  <1>3. token \in [SessionSlots -> Tokens]
    BY DEF SplitIInv, ShapesOK
  <1> QED
    BY <1>1, <1>2, <1>3

\* A step of rank 0 that sends a frame to rank 4.
LEMMA HostSendsFrame ==
    ASSUME SplitIInv, NEW s \in SessionSlots, NEW t \in Tokens, token' = [token EXCEPT ![s] = t],
           NEW f, f.slot = s, f \notin Mine(splitCtl[0], s),
           splitCtl' = [splitCtl EXCEPT ![0] = Append(@, f)], UNCHANGED <<bulk, slice>>
    PROVE  /\ ChannelsOK' /\ \A p \in SessionSlots : p # s => SameWire(p)
           /\ Mine(splitCtl'[0], s) = Mine(splitCtl[0], s) \cup {f}
           /\ \A r \in Helpers : splitCtl'[r] = splitCtl[r]
           /\ token'[s] = t /\ \A p \in SessionSlots : p # s => token'[p] = token[p]
           /\ token' \in [SessionSlots -> Tokens]
  <1>1. CtlOK /\ SliceOK /\ Addressed(bulk) /\ 0 \in CtlPeers /\ 0 \notin Helpers
        /\ Helpers \subseteq CtlPeers
    BY DEF SplitIInv, ChannelsOK, CtlPeers, Helpers
  <1>2. /\ CtlOK' /\ Mine(splitCtl'[0], s) = Mine(splitCtl[0], s) \cup {f}
        /\ \A p : p # s => Mine(splitCtl'[0], p) = Mine(splitCtl[0], p)
        /\ \A x \in CtlPeers : x # 0 => splitCtl'[x] = splitCtl[x]
    BY <1>1, CtlSent
  <1>3. ChannelsOK'
    BY <1>1, <1>2 DEF ChannelsOK, SliceOK
  <1>4. \A p \in SessionSlots : p # s => SameWire(p)
    <2> SUFFICES ASSUME NEW p \in SessionSlots, p # s PROVE SameWire(p)
      OBVIOUS
    <2>1. \A r \in CtlPeers : Mine(splitCtl'[r], p) = Mine(splitCtl[r], p)
      <3> TAKE r \in CtlPeers
      <3>1. CASE r = 0
        BY <3>1, <1>2
      <3>2. CASE r # 0
        BY <3>2, <1>2
      <3> QED
        BY <3>1, <3>2
    <2> QED
      BY <2>1 DEF SameWire
  <1>5. token \in [SessionSlots -> Tokens]
    BY DEF SplitIInv, ShapesOK
  <1> QED
    BY <1>1, <1>2, <1>3, <1>4, <1>5

\* The start of a request, with or without a history to send.
LEMMA StartKeeps ==
    ASSUME OutputSplitAssumption, SplitIInv, NEW s \in SessionSlots, NEW m \in SamplerModes, StartRequest(s, m)
    PROVE  SplitIInv'
  <1> DEFINE hist == [token[s].hist EXCEPT ![0] = @ + 1]
             t == [token[s] EXCEPT !.mode = m, !.hist = hist,
                                   !.phase = IF m = "penalised" THEN "history" ELSE "prefill"]
  <1>1. token[s] \in Tokens /\ token[s].chosen \in token[s].due /\ SlotResting(s) /\ DOMAIN token = SessionSlots
    BY SlotOf DEF SplitIInv, PhaseOK, StartRequest
  <1>2. m \in AllModes /\ hist \in [Vocab -> Nat]
    <2>1. token[s].hist \in [Vocab -> Nat]
      BY <1>1 DEF Tokens, Asks
    <2>2. m \in AllModes
      BY DEF OutputSplitAssumption, AllModes
    <2>3. 0 \in Vocab
      BY SplitIs DEF OutputSplitAssumption, Vocab
    <2>4. hist \in [Vocab -> Nat]
      BY <2>1, <2>3
    <2> QED
      BY <2>2, <2>4
  <1>3. t \in Tokens
    BY <1>1, <1>2 DEF Tokens, Asks, Phases, StartRequest
  <1>4. token' = [token EXCEPT ![s] = t] /\ UNCHANGED <<bulk, slice>>
    BY DEF StartRequest
  <1>5. /\ t.ses = token[s].ses /\ t.mode = m /\ t.hist = hist /\ t.chosen \in t.due
        /\ t.phase = IF m = "penalised" THEN "history" ELSE "prefill"
    BY <1>1 DEF Tokens, Asks
  <1>6. \A p : SameOwner(p)
    BY DEF StartRequest, SameOwner
  <1>7. CASE m # "penalised"
    <2>1. UNCHANGED splitCtl
      BY <1>7 DEF StartRequest
    <2>2. /\ ChannelsOK' /\ \A p : SameWire(p)
          /\ token'[s] = t /\ \A p \in SessionSlots : p # s => token'[p] = token[p]
          /\ token' \in [SessionSlots -> Tokens]
      BY <2>1, <1>3, <1>4, HostSilent
    <2>3. SlotRest(s, {}, <<>>, <<>>)'
      BY <2>2, <1>1, <1>6, SlotRestSame DEF SlotResting
    <2>4. SlotStage(s)'
      BY <2>2, <2>3, <1>1, <1>5, <1>7, <1>6 DEF SlotResting, Synced, SlotStage, SameOwner
    <2>5. ShapesOK'
      BY <2>2 DEF StartRequest, SplitIInv, ShapesOK
    <2>6. PhaseOK(s)'
      BY <2>4, PhaseOfStage, PTL
    <2> QED
      BY <2>2, <2>5, <2>6, <1>5, <1>6, SlotStep DEF SameSlot
  <1>8. CASE m = "penalised"
    <2> DEFINE f == TokenFrame(s, "history", hist)
    <2>1. splitCtl' = [splitCtl EXCEPT ![0] = Append(@, f)]
      BY <1>8 DEF StartRequest, ToOwner
    <2>2. f.slot = s /\ f \notin Mine(splitCtl[0], s) /\ Mine(splitCtl[0], s) = {}
      BY <1>1, FrameIs DEF SlotResting, SlotRest
    <2>3. /\ ChannelsOK' /\ \A p \in SessionSlots : p # s => SameWire(p)
          /\ Mine(splitCtl'[0], s) = {f}
          /\ \A r \in Helpers : splitCtl'[r] = splitCtl[r]
          /\ token'[s] = t /\ \A p \in SessionSlots : p # s => token'[p] = token[p]
          /\ token' \in [SessionSlots -> Tokens]
      BY <2>1, <2>2, <1>3, <1>4, HostSendsFrame
    <2>4. HistFrame(s)' = f
      BY <2>3, <1>5 DEF HistFrame, TokenFrame
    <2>5. SlotRest(s, {HistFrame(s)}, <<>>, <<>>)'
      <3>1. Calm(s)'
        BY <2>3, <1>1, <1>4, <1>6 DEF Calm, SlotResting, SlotRest, SameOwner
      <3> QED
        BY <3>1, <2>3, <2>4, <1>1, <1>6 DEF SlotResting, SlotRest, SameOwner
    <2>6. SlotStage(s)'
      BY <2>3, <2>5, <1>1, <1>5, <1>8, <1>6 DEF SlotResting, Syncing, SlotStage, SameOwner
    <2>7. ShapesOK'
      BY <2>3 DEF StartRequest, SplitIInv, ShapesOK
    <2>8. PhaseOK(s)'
      BY <2>6, PhaseOfStage, PTL
    <2> QED
      BY <2>3, <2>7, <2>8, <1>5, <1>6, SlotStep DEF SameSlot
  <1> QED
    BY <1>7, <1>8

\* A slot that waits for nothing of the ring, of rank 7 or of the helpers still waits for
\* nothing of them.
LEMMA CalmSame ==
    ASSUME NEW s, SameWire(s), inbox'[s][7] = inbox[s][7], handoff'[s] = handoff[s],
           ring'[s] = ring[s], Calm(s)
    PROVE  Calm(s)'
  BY DEF SameWire, Calm, CtlPeers, Helpers

\* The first frame that rank 0 sends from rest.
LEMMA FirstFrame ==
    ASSUME NEW s, NEW f, SlotRest(s, {}, <<>>, <<>>), SameOwner(s), UNCHANGED <<bulk, slice>>,
           Mine(splitCtl'[0], s) = Mine(splitCtl[0], s) \cup {f},
           \A r \in Helpers : splitCtl'[r] = splitCtl[r]
    PROVE  SlotRest(s, {f}, <<>>, <<>>)'
  <1>1. Calm(s)'
    BY DEF Calm, SlotRest, SameOwner
  <1> QED
    BY <1>1 DEF SlotRest, SameOwner

\* Rank 0 takes the acknowledgement of a begin or of a history.
LEMMA AckKeeps ==
    ASSUME SplitIInv, NEW s \in SessionSlots, Acknowledged(s)
    PROVE  SplitIInv'
  <1> DEFINE t == [token[s] EXCEPT !.phase = IF @ = "history" THEN "prefill" ELSE "idle"]
  <1>1. token[s] \in Tokens /\ token[s].chosen \in token[s].due /\ DOMAIN token = SessionSlots
    BY SlotOf
  <1>2. t \in Tokens
    BY <1>1 DEF Tokens, Asks, Phases
  <1>3. token' = [token EXCEPT ![s] = t] /\ UNCHANGED <<splitCtl, bulk, slice>>
    BY DEF Acknowledged
  <1>4. /\ t.ses = token[s].ses /\ t.mode = token[s].mode /\ t.hist = token[s].hist /\ t.chosen \in t.due
        /\ t.phase = IF token[s].phase = "history" THEN "prefill" ELSE "idle"
    BY <1>1 DEF Tokens, Asks
  <1>5. /\ ChannelsOK' /\ \A p : SameWire(p)
        /\ token'[s] = t /\ \A p \in SessionSlots : p # s => token'[p] = token[p]
        /\ token' \in [SessionSlots -> Tokens]
    BY <1>2, <1>3, HostSilent
  <1>6. DOMAIN acks = SessionSlots
    BY DEF SplitIInv, ShapesOK
  <1>7. ShapesOK'
    BY <1>5, <1>6 DEF Acknowledged, SplitIInv, ShapesOK
  <1>8. \A p \in SessionSlots : p # s => SameOwner(p)
    BY <1>6 DEF Acknowledged, SameOwner
  <1>9. /\ acks[s] # <<>> /\ acks'[s] = Tail(acks[s]) /\ token[s].phase \in {"history", "begin"}
        /\ UNCHANGED <<ring, inbox, handoff, counts, served>>
    BY <1>6 DEF Acknowledged
  <1>10. /\ \A k : acks[s] = <<k>> => acks'[s] = <<>>
    BY <1>9, SingleFrame
  <1>11. /\ token[s].phase = "history" => SlotRest(s, {}, <<>>, <<"history">>) /\ Synced(s)
                                          /\ served[s] = token[s].ses
         /\ token[s].phase = "begin" => SlotRest(s, {}, <<>>, <<"begin">>) /\ served[s] = token[s].ses
    <2>1. PhaseOK(s)
      BY DEF SplitIInv
    <2> QED
      BY <1>9, <2>1 DEF PhaseOK, Syncing, Opening, SlotRest
  <1>12. SlotRest(s, {}, <<>>, <<>>)'
    <2>1. Calm(s)'
      BY <1>5, <1>9, <1>11, CalmSame DEF SlotRest
    <2> QED
      BY <2>1, <1>3, <1>9, <1>10, <1>11 DEF SlotRest
  <1>13. SlotStage(s)'
    BY <1>4, <1>5, <1>9, <1>11, <1>12 DEF SlotStage, SlotResting, Synced
  <1>14. PhaseOK(s)'
    BY <1>13, PhaseOfStage, PTL
  <1> QED
    BY <1>4, <1>5, <1>7, <1>8, <1>14, SlotStep DEF SameSlot

\* Rank 0 sends the token after a prefill to rank 4 whole.
LEMMA RelayKeeps ==
    ASSUME SplitIInv, NEW s \in SessionSlots, NEW l \in LogitChoices, Relay(s, l)
    PROVE  SplitIInv'
  <1> DEFINE t == [token[s] EXCEPT !.phase = "relay", !.logits = l]
             b == [tok |-> token[s].index, mode |-> token[s].mode, logits |-> l]
             f == TokenFrame(s, "work", b)
  <1>1. /\ token[s] \in Tokens /\ token[s].chosen \in token[s].due /\ DOMAIN token = SessionSlots
        /\ SlotResting(s) /\ Synced(s)
    BY SlotOf DEF SplitIInv, PhaseOK, Relay
  <1>2. t \in Tokens
    BY <1>1 DEF Tokens, Asks, Phases, Relay
  <1>3. token' = [token EXCEPT ![s] = t] /\ UNCHANGED <<bulk, slice>>
    BY <1>1 DEF Relay
  <1>4. /\ t.ses = token[s].ses /\ t.mode = token[s].mode /\ t.hist = token[s].hist /\ t.chosen \in t.due
        /\ t.phase = "relay" /\ t.index = token[s].index /\ t.logits = l
    BY <1>1 DEF Tokens, Asks
  <1>5. splitCtl' = [splitCtl EXCEPT ![0] = Append(@, f)]
    BY DEF Relay, ToOwner
  <1>6. f.slot = s /\ f \notin Mine(splitCtl[0], s) /\ SlotRest(s, {}, <<>>, <<>>)
    BY <1>1, FrameIs DEF SlotResting, SlotRest
  <1>7. /\ ChannelsOK' /\ \A p \in SessionSlots : p # s => SameWire(p)
        /\ Mine(splitCtl'[0], s) = Mine(splitCtl[0], s) \cup {f}
        /\ \A r \in Helpers : splitCtl'[r] = splitCtl[r]
        /\ token'[s] = t /\ \A p \in SessionSlots : p # s => token'[p] = token[p]
        /\ token' \in [SessionSlots -> Tokens]
    BY <1>2, <1>3, <1>5, <1>6, HostSendsFrame
  <1>8. \A p : SameOwner(p)
    BY DEF Relay, SameOwner
  <1>9. WorkFrame(s)' = f
    BY <1>7, <1>4 DEF WorkFrame, TokenFrame
  <1>10. PICK g : g = f
    OBVIOUS
  <1>11. SlotRest(s, {g}, <<>>, <<>>)'
    BY <1>3, <1>6, <1>7, <1>8, <1>10, FirstFrame
  <1>12. SlotRest(s, {WorkFrame(s)}, <<>>, <<>>)'
    BY <1>9, <1>10, <1>11 DEF SlotRest
  <1>13. SlotStage(s)'
    BY <1>1, <1>4, <1>7, <1>8, <1>12 DEF SlotStage, SlotResting, Relaying, Synced, SameOwner
  <1>14. ShapesOK'
    BY <1>7 DEF Relay, SplitIInv, ShapesOK
  <1>15. PhaseOK(s)'
    BY <1>13, PhaseOfStage, PTL
  <1> QED
    BY <1>4, <1>7, <1>8, <1>14, <1>15, SlotStep DEF SameSlot

\* Rank 0 begins a new session in a slot.
LEMMA BeginKeeps ==
    ASSUME OutputSplitAssumption, SplitIInv, NEW s \in SessionSlots, BeginSession(s)
    PROVE  SplitIInv'
  <1> DEFINE t == [Fresh EXCEPT !.ses = token[s].ses + 1]
             f == [slot |-> s, kind |-> "begin", ses |-> token[s].ses + 1, body |-> NoHidden]
  <1>1. /\ token[s] \in Tokens /\ DOMAIN token = SessionSlots /\ SlotResting(s)
    BY SlotOf DEF SplitIInv, PhaseOK, BeginSession
  <1>2. PICK l \in LogitChoices : l = CHOOSE x \in LogitChoices : TRUE
    BY DEF OutputSplitAssumption
  <1>3. Fresh \in [phase : {"begin"}, ses : {1}, index : {0}, mode : AllModes,
                   hist : [Vocab -> Nat], logits : LogitChoices, chosen : {NoToken},
                   due : {{NoToken}}]
    BY <1>2 DEF Fresh, AllModes
  <1>4. MaxIndex \in Nat /\ MaxBegins \in Nat /\ token[s].ses \in 1..(MaxBegins + 1) /\ token[s].ses <= MaxBegins
    BY <1>1 DEF OutputSplitAssumption, BeginSession, Tokens, Asks
  <1>5. 0 \in 0..MaxIndex /\ token[s].ses + 1 \in 1..(MaxBegins + 1) /\ token[s].ses < token[s].ses + 1
    BY <1>4
  <1>6. /\ t \in Tokens /\ t.ses = token[s].ses + 1 /\ t.phase = "begin" /\ t.chosen \in t.due
    BY <1>3, <1>5 DEF Tokens, Asks, Phases
  <1>7. token' = [token EXCEPT ![s] = t] /\ UNCHANGED <<bulk, slice>>
    BY DEF BeginSession
  <1>8. splitCtl' = [splitCtl EXCEPT ![0] = Append(@, f)]
    BY DEF BeginSession
  <1>9. f.slot = s /\ f \notin Mine(splitCtl[0], s) /\ SlotRest(s, {}, <<>>, <<>>)
    BY <1>1 DEF SlotResting, SlotRest
  <1> HIDE DEF t, f
  <1>10. /\ ChannelsOK' /\ \A p \in SessionSlots : p # s => SameWire(p)
         /\ Mine(splitCtl'[0], s) = Mine(splitCtl[0], s) \cup {f}
         /\ \A r \in Helpers : splitCtl'[r] = splitCtl[r]
         /\ token'[s] = t /\ \A p \in SessionSlots : p # s => token'[p] = token[p]
         /\ token' \in [SessionSlots -> Tokens]
    BY <1>6, <1>7, <1>8, <1>9, HostSendsFrame
  <1>11. \A p : SameOwner(p)
    BY DEF BeginSession, SameOwner
  <1>12. BeginFrame(s)' = f
    BY <1>10, <1>6 DEF BeginFrame, TokenFrame, f
  <1>13. PICK g : g = f
    OBVIOUS
  <1>14. SlotRest(s, {g}, <<>>, <<>>)'
    BY <1>7, <1>9, <1>10, <1>11, <1>13, FirstFrame
  <1>15. SlotRest(s, {BeginFrame(s)}, <<>>, <<>>)'
    BY <1>12, <1>13, <1>14 DEF SlotRest
  <1>16. served'[s] < token'[s].ses
    BY <1>1, <1>5, <1>6, <1>10, <1>11 DEF SlotResting, SameOwner
  <1>17. SlotStage(s)'
    BY <1>6, <1>10, <1>15, <1>16 DEF SlotStage, Opening
  <1>18. ShapesOK'
    BY <1>10 DEF BeginSession, SplitIInv, ShapesOK
  <1>19. PhaseOK(s)'
    BY <1>17, PhaseOfStage, PTL
  <1> QED
    BY <1>6, <1>10, <1>11, <1>18, <1>19, SlotStep DEF SameSlot

\* Steps that only move the phase of rank 0.
LEMMA PhaseStepKeeps ==
    ASSUME SplitIInv, NEW s \in SessionSlots, NEW ph \in Phases,
           token' = [token EXCEPT ![s].phase = ph],
           UNCHANGED <<ring, splitCtl, bulk, slice, inbox, acks, handoff, counts, served, ended, wedged>>,
           \/ ph = "idle" /\ token[s].phase = "decode"
           \/ ph = "timeout" /\ token[s].phase = "wait"
           \/ ph = "lost" /\ token[s].phase \in {"begin", "history", "relay", "wait"}
    PROVE  SplitIInv'
  <1> DEFINE t == [token[s] EXCEPT !.phase = ph]
  <1>1. token[s] \in Tokens /\ token[s].chosen \in token[s].due /\ DOMAIN token = SessionSlots /\ SlotStage(s)
    BY SlotOf
  <1>2. t \in Tokens /\ t.phase = ph /\ t.chosen \in t.due
    BY <1>1 DEF Tokens, Asks
  <1>3. token' = [token EXCEPT ![s] = t]
    BY <1>1
  <1>4. /\ ChannelsOK' /\ \A p : SameWire(p)
        /\ token'[s] = t /\ \A p \in SessionSlots : p # s => token'[p] = token[p]
        /\ token' \in [SessionSlots -> Tokens]
    BY <1>2, <1>3, HostSilent
  <1>5. \A p : SameOwner(p)
    BY DEF SameOwner
  <1>6. /\ SlotResting(s) => SlotResting(s)'
        /\ Synced(s) => Synced(s)'
        /\ Opening(s) => Opening(s)'
        /\ Syncing(s) => Syncing(s)'
        /\ Relaying(s) => Relaying(s)'
        /\ Choosing(s) => Choosing(s)'
        /\ Chosen(s) => Chosen(s)'
    BY <1>1, <1>4, <1>5, PhaseMoves
  <1>7. SlotStage(s)'
    <2> HIDE DEF t
    <2>1. token'[s].phase = ph
      BY <1>2, <1>4
    <2>2. CASE ph = "idle"
      BY <2>1, <2>2, <1>1, <1>6 DEF SlotStage
    <2>3. CASE ph = "timeout"
      BY <2>1, <2>3, <1>1, <1>6 DEF SlotStage
    <2>4. CASE ph = "lost"
      BY <2>1, <2>4, <1>1, <1>6 DEF SlotStage
    <2> QED
      BY <2>2, <2>3, <2>4
  <1>8. ShapesOK'
    BY <1>4 DEF SplitIInv, ShapesOK
  <1>9. PhaseOK(s)'
    BY <1>7, PhaseOfStage, PTL
  <1> QED
    BY <1>2, <1>4, <1>5, <1>8, <1>9, SlotStep DEF SameSlot

\* Steps that no slot takes part in.
LEMMA QuietStepKeeps ==
    ASSUME SplitIInv, UNCHANGED <<token, ring, splitCtl, bulk, slice, inbox, acks, handoff, counts, served>>,
           ended' \in {"", "timeout"}, wedged' \subseteq Helpers \cup {7}
    PROVE  SplitIInv'
  <1>1. \A s : SameSlot(s)
    BY DEF SameSlot, SameWire, SameOwner
  <1>2. \A s \in SessionSlots : PhaseOK(s)'
    BY <1>1, PhaseSame DEF SplitIInv
  <1>3. ChannelsOK'
    BY DEF SplitIInv, ChannelsOK, CtlOK, SliceOK
  <1>4. ShapesOK'
    BY DEF SplitIInv, ShapesOK
  <1> QED
    BY <1>2, <1>3, <1>4 DEF SplitIInv

\* The full head returns a token of the vocabulary; the penalty table only
\* matters to a penalised token.
LEMMA SampleIn ==
    ASSUME OutputSplitAssumption, NEW m \in AllModes, NEW logits \in LogitChoices,
           NEW seen \in [Vocab -> Nat]
    PROVE  /\ Sample(m, logits, seen) \subseteq Vocab
           /\ m # "penalised" => \A other : Sample(m, logits, other) = Sample(m, logits, seen)
           /\ m = "greedy" => Sample(m, logits, seen) = {BestOf(Vocab, logits)}
  <1>1. logits \in [Vocab -> Int] /\ V \in Nat /\ V >= 4
    BY SplitIs DEF OutputSplitAssumption
  <1>2. ASSUME NEW l, \A v \in Vocab : l[v] \in Int PROVE BestOf(Vocab, l) \in Vocab
    <2>1. Vocab = 0..(V - 1) /\ V - 1 \in Nat /\ 0 <= V - 1 /\ Vocab \subseteq Nat
      BY <1>1 DEF Vocab
    <2>2. PICK i \in Vocab : Wins(i, Vocab, l)
      BY <1>2, <2>1, WinnerExists
    <2> QED
      BY <2>1, <2>2, <1>2, WinnerIsBest
  <1>3. BestOf(Vocab, logits) \in Vocab
    BY <1>1, <1>2
  <1>4. BestOf(Vocab, Penalised(logits, seen)) \in Vocab
    <2>1. \A v \in Vocab : Penalised(logits, seen)[v] \in Int
      BY <1>1 DEF Penalised
    <2> QED
      BY <2>1, <1>2
  <1>5. CASE m = "greedy"
    BY <1>3, <1>5 DEF Sample
  <1>6. CASE m = "penalised"
    BY <1>4, <1>6 DEF Sample
  <1>7. CASE m = "sampled"
    BY <1>7 DEF Sample
  <1> QED
    BY <1>5, <1>6, <1>7 DEF AllModes

\* The fields of an empty handoff record.
LEMMA EmptyIs ==
    /\ EmptyHandoff.config = NoConfig /\ EmptyHandoff.hidden = NoHidden
    /\ EmptyHandoff.hiddenSlice = NoHidden /\ EmptyHandoff.local = FALSE
    /\ EmptyHandoff.remote = <<>>
  BY DEF EmptyHandoff

\* Rank 0 accepts a result: it is one of the tokens a single head would have chosen.
LEMMA ResultKeeps ==
    ASSUME OutputSplitAssumption, SplitIInv, NEW s \in SessionSlots, HostResult(s)
    PROVE  SplitIInv'
  <1>1. /\ token[s] \in Tokens /\ DOMAIN token = SessionSlots /\ SlotStage(s)
        /\ token[s].phase \in {"relay", "wait"} /\ inbox[s][4] # <<>>
    BY SlotOf DEF HostResult
  <1>2. Chosen(s)
    BY <1>1 DEF SlotStage, Relaying, Choosing, SlotRest
  <1>3. PICK id \in Vocab :
          /\ SlotRest(s, {}, <<ResultFrame(s, id)>>, <<>>)
          /\ id \in Sample(token[s].mode, token[s].logits, token[s].hist)
          /\ token[s].mode = "penalised" => counts[s] = [token[s].hist EXCEPT ![id] = @ + 1]
    BY <1>2 DEF Chosen
  <1>4. PICK f : f = ResultFrame(s, id)
    OBVIOUS
  <1>5. inbox[s][4] = <<f>> /\ Head(<<f>>) = f /\ Tail(<<f>>) = <<>>
    BY <1>3, <1>4, SingleFrame DEF SlotRest
  <1>6. f.ses = token[s].ses /\ f.body.tok = token[s].index /\ f.body.id = id
    BY <1>4 DEF ResultFrame, TokenFrame
  <1> DEFINE due == Sample(token[s].mode, token[s].logits, token[s].hist)
             hist == [token[s].hist EXCEPT ![id] = @ + 1]
             t == [token[s] EXCEPT !.phase = "decode", !.index = @ + 1, !.hist = hist,
                                   !.chosen = id, !.due = due]
  <1>7. token[s].hist \in [Vocab -> Nat] /\ token[s].mode \in AllModes /\ token[s].logits \in LogitChoices
        /\ token[s].index \in 0..MaxIndex /\ token[s].index < MaxIndex /\ MaxIndex \in Nat
    BY <1>1 DEF Tokens, Asks, OutputSplitAssumption
  <1>8. due \subseteq Vocab /\ hist \in [Vocab -> Nat] /\ token[s].index + 1 \in 0..MaxIndex
    BY <1>7, SampleIn
  <1>9. id \in due
    BY <1>3
  <1>10. /\ t.phase = "decode" /\ t.ses = token[s].ses /\ t.hist = hist /\ t.mode = token[s].mode
         /\ t.chosen = id /\ t.due = due
    BY <1>1 DEF Tokens, Asks
  <1>11. t \in Tokens
    <2> HIDE DEF due, hist
    <2> QED
      BY <1>1, <1>8, <1>9 DEF Tokens, Asks, Phases
  <1>12. token' = [token EXCEPT ![s] = t] /\ inbox' = [inbox EXCEPT ![s][4] = <<>>]
         /\ UNCHANGED <<ring, splitCtl, bulk, slice, acks, handoff, counts, served, ended, wedged>>
    <2>1. Head(inbox[s][4]) = f /\ Tail(inbox[s][4]) = <<>>
      BY <1>5
    <2>3. token' = [token EXCEPT ![s] = t]
      BY <2>1, <1>6 DEF HostResult, Reference
    <2>4. inbox' = [inbox EXCEPT ![s][4] = <<>>]
      BY <2>1 DEF HostResult
    <2> QED
      BY <2>3, <2>4 DEF HostResult
  <1> HIDE DEF t, due, hist
  <1>13. /\ ChannelsOK' /\ \A p : SameWire(p)
         /\ token'[s] = t /\ \A p \in SessionSlots : p # s => token'[p] = token[p]
         /\ token' \in [SessionSlots -> Tokens]
    BY <1>11, <1>12, HostSilent
  <1>14. DOMAIN inbox = SessionSlots /\ DOMAIN inbox[s] = {4, 7}
    BY DEF SplitIInv, ShapesOK
  <1>15. inbox'[s][4] = <<>> /\ inbox'[s][7] = inbox[s][7]
         /\ \A p \in SessionSlots : p # s => inbox'[p] = inbox[p]
    BY <1>12, <1>14
  <1>16. \A p \in SessionSlots : p # s => SameOwner(p)
    BY <1>12, <1>15 DEF SameOwner
  <1>17. ShapesOK'
    <2>1. DOMAIN inbox' = SessionSlots /\ \A p \in SessionSlots : DOMAIN inbox'[p] = {4, 7}
      BY <1>12 DEF SplitIInv, ShapesOK
    <2> QED
      BY <2>1, <1>12, <1>13 DEF SplitIInv, ShapesOK
  <1>18. SlotRest(s, {}, <<>>, <<>>)'
    <2>1. Calm(s)'
      BY <1>3, <1>12, <1>13, <1>15, CalmSame DEF SlotRest
    <2> QED
      BY <2>1, <1>3, <1>12, <1>15 DEF SlotRest
  <1>19. Synced(s)'
    BY <1>3, <1>10, <1>12, <1>13 DEF Synced, hist
  <1>20. SlotResting(s)'
    BY <1>2, <1>10, <1>12, <1>13, <1>18 DEF SlotResting, Chosen
  <1>21. SlotStage(s)'
    BY <1>10, <1>13, <1>19, <1>20 DEF SlotStage
  <1>22. PhaseOK(s)'
    BY <1>21, PhaseOfStage, PTL
  <1> QED
    BY <1>13, <1>16, <1>17, <1>22, SlotStep DEF SameSlot

\* Rank 0 sends a token round the ring and its configuration to rank 4.
LEMMA DecodeTokenKeeps ==
    ASSUME OutputSplitAssumption, SplitIInv, NEW s \in SessionSlots, NEW l \in LogitChoices,
           DecodeToken(s, l)
    PROVE  SplitIInv'
  <1> DEFINE t == [token[s] EXCEPT !.phase = "wait", !.logits = l]
             f == TokenFrame(s, "config", [tok |-> token[s].index, mode |-> token[s].mode])
             w == [tok |-> token[s].index, ses |-> token[s].ses, logits |-> l,
                   split |-> AsksForSlices(token[s].mode)]
  <1>1. /\ token[s] \in Tokens /\ DOMAIN token = SessionSlots /\ SlotResting(s) /\ Synced(s)
    BY SlotOf DEF SplitIInv, PhaseOK, DecodeToken
  <1>2. t \in Tokens
    BY <1>1 DEF Tokens, Asks, Phases, DecodeToken
  <1>3. token' = [token EXCEPT ![s] = t] /\ UNCHANGED <<bulk, slice>>
    BY <1>1 DEF DecodeToken
  <1>4. /\ t.ses = token[s].ses /\ t.mode = token[s].mode /\ t.hist = token[s].hist
        /\ t.phase = "wait" /\ t.index = token[s].index /\ t.logits = l
    BY <1>1 DEF Tokens, Asks
  <1>5. splitCtl' = [splitCtl EXCEPT ![0] = Append(@, f)]
    BY DEF DecodeToken, ToOwner
  <1>6. f.slot = s /\ f \notin Mine(splitCtl[0], s) /\ SlotRest(s, {}, <<>>, <<>>)
    BY <1>1, FrameIs DEF SlotResting, SlotRest
  <1> HIDE DEF t, f
  <1>7. /\ ChannelsOK' /\ \A p \in SessionSlots : p # s => SameWire(p)
        /\ Mine(splitCtl'[0], s) = Mine(splitCtl[0], s) \cup {f}
        /\ \A r \in Helpers : splitCtl'[r] = splitCtl[r]
        /\ token'[s] = t /\ \A p \in SessionSlots : p # s => token'[p] = token[p]
        /\ token' \in [SessionSlots -> Tokens]
    BY <1>2, <1>3, <1>5, <1>6, HostSendsFrame
  <1>8. DOMAIN ring = SessionSlots
    BY DEF SplitIInv, ShapesOK
  <1>9. /\ \A p \in SessionSlots : p # s => SameOwner(p)
        /\ ring'[s] = w /\ UNCHANGED <<inbox, acks, handoff, counts, served, ended, wedged>>
        /\ DOMAIN ring' = SessionSlots
    BY <1>8 DEF DecodeToken, SameOwner
  <1>10. ConfigFrame(s)' = f /\ RingWork(s)' = w /\ token'[s].mode = token[s].mode
    BY <1>7, <1>4 DEF ConfigFrame, ConfigOf, TokenFrame, RingWork, f
  <1>11. /\ \A r \in Helpers : Mine(splitCtl'[r], s) = {} /\ Mine(slice'[r], s) = {}
         /\ Mine(bulk', s) = {} /\ inbox'[s][7] = <<>> /\ inbox'[s][4] = <<>> /\ acks'[s] = <<>>
         /\ handoff'[s] = EmptyHandoff /\ Mine(splitCtl'[0], s) = {f}
    BY <1>3, <1>6, <1>7, <1>9 DEF SlotRest, Calm
  <1>12. HandoffShape(s, handoff[s])'
    BY <1>9, <1>10, <1>11 DEF HandoffShape, EmptyHandoff
  <1>13. ASSUME token[s].mode = "greedy" PROVE Slicing(s)'
    <2>1. RemoteOK(s, handoff[s])' /\ \A r : ~Has(handoff[s], r)'
      BY <1>11 DEF RemoteOK, Has, EmptyHandoff, IsSeq
    <2>2. PartFrame(s, 0)' \notin Mine(splitCtl'[0], s)
      BY <1>11, FrameIs DEF PartFrame, TokenFrame, f
    <2>3. /\ handoff'[s].hidden = NoHidden /\ handoff'[s].hiddenSlice = NoHidden
          /\ handoff'[s].remote = <<>>
      BY <1>11, EmptyIs
    <2> QED
      BY <2>1, <2>2, <2>3, <1>10, <1>11, <1>12, <1>13 DEF Slicing, SliceWith
  <1>14. ASSUME token[s].mode # "greedy" PROVE Sampling(s)'
    <2>1. handoff'[s].local = FALSE
      BY <1>11, EmptyIs, Zenon
    <2>2. /\ handoff'[s].hiddenSlice = NoHidden /\ handoff'[s].hidden \in {NoHidden, HiddenOf(s)'}
          /\ handoff'[s].remote = <<>> /\ token'[s].mode # "greedy"
      BY <1>10, <1>11, <1>14, EmptyIs
    <2>3. /\ Mine(splitCtl'[0], s) \subseteq {ConfigFrame(s)'} /\ Mine(bulk', s) \subseteq {HiddenFrame(s)'}
          /\ inbox'[s][7] = <<>>
          /\ \A r \in Helpers : Mine(slice'[r], s) = {} /\ Mine(splitCtl'[r], s) = {}
          /\ handoff'[s].hidden # NoHidden => Mine(bulk', s) = {}
          /\ ring'[s] # NoHidden => handoff'[s].hidden = NoHidden /\ Mine(bulk', s) = {}
      BY <1>10, <1>11, EmptyIs
    <2> QED
      BY <2>1, <2>2, <2>3, <1>12, Zenon DEF Sampling, SampleWith
  <1>15. Choosing(s)'
    BY <1>1, <1>4, <1>7, <1>9, <1>11, <1>13, <1>14 DEF Choosing, Synced, SlotResting
  <1>16. SlotStage(s)'
    BY <1>4, <1>7, <1>15 DEF SlotStage
  <1>17. ShapesOK'
    BY <1>7, <1>9 DEF SplitIInv, ShapesOK
  <1>18. PhaseOK(s)'
    BY <1>16, PhaseOfStage, PTL
  <1> QED
    BY <1>7, <1>9, <1>17, <1>18, SlotStep DEF SameSlot

\* Only a token that is being chosen has anything at rank 7 or a helper.
LEMMA SlicePending ==
    ASSUME NEW s, SlotStage(s),
           \/ inbox[s][7] # <<>>
           \/ \E r \in Helpers : Mine(slice[r], s) # {} \/ Mine(splitCtl[r], s) # {}
    PROVE  Choosing(s) /\ Slicing(s) /\ token[s].phase \in {"wait", "timeout", "lost"}
  <1>1. ~Calm(s)
    BY DEF Calm
  <1>2. Choosing(s) /\ token[s].phase \in {"wait", "timeout", "lost"}
    BY <1>1 DEF SlotStage, SlotResting, Opening, Syncing, Relaying, Chosen, SlotRest
  <1>3. ~Sampling(s)
    BY DEF Sampling, SampleWith
  <1> QED
    BY <1>2, <1>3 DEF Choosing

\* Work on the ring, or a frame of rank 7 at rank 4, is that of a token being chosen.
LEMMA RingPending ==
    ASSUME NEW s, SlotStage(s), ring[s] # NoHidden \/ Mine(bulk, s) # {}
    PROVE  Choosing(s) /\ token[s].phase \in {"wait", "timeout", "lost"}
  <1>1. ~Calm(s)
    BY DEF Calm
  <1> QED
    BY <1>1 DEF SlotStage, SlotResting, Opening, Syncing, Relaying, Chosen, SlotRest

\* A configuration is not a partial.
LEMMA FramesDiffer ==
    ASSUME NEW s, NEW r
    PROVE  ConfigFrame(s) # PartFrame(s, r)
  <1>1. ConfigFrame(s).kind = "config" /\ PartFrame(s, r).kind = "partial"
    BY FrameIs DEF ConfigFrame, PartFrame
  <1> QED
    BY <1>1

\* Rank 0 reduces its own slice and sends the partial.
LEMMA HostSliceKeeps ==
    ASSUME SplitIInv, NEW s \in SessionSlots, HostSlice(s)
    PROVE  SplitIInv'
  <1>1. /\ token[s] \in Tokens /\ DOMAIN token = SessionSlots /\ SlotStage(s)
        /\ token[s].phase = "wait" /\ inbox[s][7] # <<>>
    BY SlotOf DEF HostSlice
  <1>2. Choosing(s) /\ Slicing(s)
    BY <1>1, SlicePending
  <1>3. PICK f : f = SliceFrame(s)
    OBVIOUS
  <1>4. inbox[s][7] = <<f>> /\ Head(<<f>>) = f /\ Tail(<<f>>) = <<>>
    BY <1>1, <1>2, <1>3, SingleFrame DEF Slicing, SliceWith
  <1>5. f.ses = token[s].ses /\ f.body.tok = token[s].index /\ f.body.logits = token[s].logits
    BY <1>3 DEF SliceFrame, HiddenOf, TokenFrame
  <1>6. PICK g : g = PartFrame(s, 0)
    OBVIOUS
  <1>7. g = TokenFrame(s, "partial", [tok |-> f.body.tok, part |-> SlicePartial(2, f.body.logits)])
    BY <1>5, <1>6, SplitIs DEF PartFrame, PartOf
  <1>8. g.slot = s
    BY <1>6, FrameIs DEF PartFrame
  <1>9. /\ splitCtl' = [splitCtl EXCEPT ![0] = Append(@, g)] /\ token' = token
        /\ inbox' = [inbox EXCEPT ![s][7] = <<>>]
        /\ UNCHANGED <<ring, bulk, slice, acks, handoff, counts, served, ended, wedged>>
    <2>1. Head(inbox[s][7]) = f /\ Tail(inbox[s][7]) = <<>>
      BY <1>4
    <2> QED
      BY <2>1, <1>5, <1>7 DEF HostSlice, ToOwner
  <1>10. DOMAIN inbox = SessionSlots /\ DOMAIN inbox[s] = {4, 7}
    BY DEF SplitIInv, ShapesOK
  <1>11. /\ inbox'[s][7] = <<>> /\ inbox'[s][4] = inbox[s][4]
         /\ \A p \in SessionSlots : p # s => inbox'[p] = inbox[p]
    BY <1>9, <1>10
  <1>12. g \notin Mine(splitCtl[0], s) /\ ~Has(handoff[s], 0) /\ ring[s] = NoHidden
    BY <1>1, <1>2, <1>6 DEF Slicing, SliceWith
  <1>13. token' = [token EXCEPT ![s] = token[s]]
    <2>1. token \in [SessionSlots -> Tokens]
      BY DEF SplitIInv, ShapesOK
    <2> QED
      BY <2>1, <1>9
  <1>14. /\ ChannelsOK' /\ \A p \in SessionSlots : p # s => SameWire(p)
         /\ Mine(splitCtl'[0], s) = Mine(splitCtl[0], s) \cup {g}
         /\ \A r \in Helpers : splitCtl'[r] = splitCtl[r]
         /\ token' \in [SessionSlots -> Tokens]
    <2>1. PICK t \in Tokens : t = token[s]
      BY <1>1
    <2>2. token' = [token EXCEPT ![s] = t]
      BY <2>1, <1>13
    <2> QED
      BY <2>2, <1>8, <1>9, <1>12, HostSendsFrame
  <1>15. \A p \in SessionSlots : p # s => SameOwner(p)
    BY <1>9, <1>11 DEF SameOwner
  <1>16. ShapesOK'
    <2>1. DOMAIN inbox' = SessionSlots /\ \A p \in SessionSlots : DOMAIN inbox'[p] = {4, 7}
      BY <1>9 DEF SplitIInv, ShapesOK
    <2> QED
      BY <2>1, <1>9, <1>14 DEF SplitIInv, ShapesOK
  <1>17. /\ ConfigOf(s)' = ConfigOf(s) /\ HiddenOf(s)' = HiddenOf(s) /\ RingWork(s)' = RingWork(s)
         /\ ConfigFrame(s)' = ConfigFrame(s) /\ SliceFrame(s)' = SliceFrame(s)
         /\ \A r : PartOf(s, r)' = PartOf(s, r) /\ PartFrame(s, r)' = PartFrame(s, r)
    BY <1>9, FramesSame DEF SameAsk
  <1>18. Slicing(s)'
    <2>1. HandoffShape(s, handoff[s])'
      BY <1>2, <1>6, <1>9, <1>14, <1>17, FramesDiffer DEF Slicing, SliceWith, HandoffShape
    <2>2. RemoteOK(s, handoff[s])'
      BY <1>2, <1>9, <1>17 DEF Slicing, SliceWith, RemoteOK
    <2>3. \A r : Has(handoff[s], r)' <=> Has(handoff[s], r)
      BY <1>9 DEF Has
    <2> QED
      BY <2>1, <2>2, <2>3, <1>2, <1>6, <1>9, <1>11, <1>12, <1>14, <1>17 DEF Slicing, SliceWith
  <1>19. SlotStage(s)'
    BY <1>1, <1>2, <1>9, <1>11, <1>18 DEF SlotStage, Choosing, Synced
  <1>20. PhaseOK(s)'
    BY <1>19, PhaseOfStage, PTL
  <1> QED
    BY <1>9, <1>14, <1>15, <1>16, <1>20, SlotStep DEF SameSlot

\* A helper reduces its slice and sends the partial.
LEMMA HelperKeeps ==
    ASSUME SplitIInv, NEW r \in Helpers, HelperSlice(r)
    PROVE  SplitIInv'
  <1>1. CtlOK /\ SliceOK /\ Addressed(bulk) /\ Addressed(slice[r]) /\ slice[r] # <<>>
        /\ DOMAIN slice = Helpers /\ r \in CtlPeers
    BY DEF SplitIInv, ChannelsOK, SliceOK, HelperSlice, CtlPeers, Helpers
  <1>2. PICK f : f = Head(slice[r])
    OBVIOUS
  <1>3. PICK s \in SessionSlots : s = f.slot
    BY <1>1, <1>2, FrameTaken
  <1>4. /\ Addressed(Tail(slice[r])) /\ f \in Mine(slice[r], s)
        /\ Mine(Tail(slice[r]), s) = Mine(slice[r], s) \ {f}
        /\ \A p : p # s => Mine(Tail(slice[r]), p) = Mine(slice[r], p)
    <2>1. PICK q : q = slice[r]
      OBVIOUS
    <2> QED
      BY <2>1, <1>1, <1>2, <1>3, FrameTaken
  <1>5. SlotStage(s)
    BY SlotOf
  <1>6. Choosing(s) /\ Slicing(s) /\ token[s].phase \in {"wait", "timeout", "lost"}
    BY <1>4, <1>5, SlicePending
  <1>7. f = SliceFrame(s) /\ Mine(slice[r], s) = {f}
    BY <1>4, <1>6 DEF Slicing, SliceWith
  <1>8. PICK g : g = PartFrame(s, r)
    OBVIOUS
  <1>9. g = [slot |-> f.slot, kind |-> "partial", ses |-> f.ses,
             body |-> [tok |-> f.body.tok, part |-> SlicePartial(WayOf(r), f.body.logits)]]
        /\ g.slot = s
    <2>1. PICK b : b = [tok |-> token[s].index, part |-> PartOf(s, r)]
      OBVIOUS
    <2>2. f = [slot |-> s, kind |-> "slice", ses |-> token[s].ses, body |-> HiddenOf(s)]
      BY <1>7 DEF SliceFrame, TokenFrame
    <2>3. g = [slot |-> s, kind |-> "partial", ses |-> token[s].ses, body |-> b]
      BY <1>8, <2>1 DEF PartFrame, TokenFrame
    <2>4. b = [tok |-> f.body.tok, part |-> SlicePartial(WayOf(r), f.body.logits)]
      BY <2>1, <2>2 DEF HiddenOf, PartOf
    <2> QED
      BY <2>2, <2>3, <2>4
  <1>10. /\ splitCtl' = [splitCtl EXCEPT ![r] = Append(@, g)]
         /\ slice' = [slice EXCEPT ![r] = Tail(@)]
         /\ UNCHANGED <<token, ring, bulk, inbox, acks, handoff, counts, served, ended, wedged>>
    BY <1>2, <1>9 DEF HelperSlice
  <1>11. Mine(splitCtl[r], s) = {} /\ ~Has(handoff[s], r) /\ ring[s] = NoHidden
    BY <1>6, <1>7 DEF Slicing, SliceWith
  <1>12. /\ CtlOK' /\ Mine(splitCtl'[r], s) = {g}
         /\ \A p : p # s => Mine(splitCtl'[r], p) = Mine(splitCtl[r], p)
         /\ \A x \in CtlPeers : x # r => splitCtl'[x] = splitCtl[x]
    <2>1. g \notin Mine(splitCtl[r], g.slot) /\ g.slot \in SessionSlots /\ g.slot = s
      BY <1>9, <1>11
    <2>2. splitCtl' = [splitCtl EXCEPT ![r] = Append(@, g)] /\ r \in CtlPeers /\ CtlOK
      BY <1>1, <1>10
    <2>3. /\ CtlOK' /\ Mine(splitCtl'[r], g.slot) = Mine(splitCtl[r], g.slot) \cup {g}
          /\ \A p : p # g.slot => Mine(splitCtl'[r], p) = Mine(splitCtl[r], p)
          /\ \A x \in CtlPeers : x # r => splitCtl'[x] = splitCtl[x]
      BY <2>1, <2>2, CtlSent
    <2> QED
      BY <2>1, <2>3, <1>11
  <1>13. /\ slice'[r] = Tail(slice[r]) /\ DOMAIN slice' = Helpers
         /\ \A x \in Helpers : x # r => slice'[x] = slice[x]
    BY <1>1, <1>10
  <1>14. ChannelsOK'
    <2>1. SliceOK'
      BY <1>1, <1>4, <1>13 DEF SliceOK
    <2> QED
      BY <2>1, <1>1, <1>10, <1>12 DEF ChannelsOK
  <1>15. \A p \in SessionSlots : p # s => SameWire(p)
    <2> SUFFICES ASSUME NEW p \in SessionSlots, p # s PROVE SameWire(p)
      OBVIOUS
    <2>1. \A x \in CtlPeers : Mine(splitCtl'[x], p) = Mine(splitCtl[x], p)
      <3> TAKE x \in CtlPeers
      <3>1. CASE x = r
        BY <3>1, <1>12
      <3>2. CASE x # r
        BY <3>2, <1>12
      <3> QED
        BY <3>1, <3>2
    <2>2. \A x \in Helpers : Mine(slice'[x], p) = Mine(slice[x], p)
      <3> TAKE x \in Helpers
      <3>1. CASE x = r
        BY <3>1, <1>4, <1>13
      <3>2. CASE x # r
        BY <3>2, <1>13
      <3> QED
        BY <3>1, <3>2
    <2> QED
      BY <2>1, <2>2, <1>10 DEF SameWire
  <1>16. ShapesOK'
    BY <1>10 DEF SplitIInv, ShapesOK
  <1>17. /\ ConfigOf(s)' = ConfigOf(s) /\ HiddenOf(s)' = HiddenOf(s) /\ RingWork(s)' = RingWork(s)
         /\ ConfigFrame(s)' = ConfigFrame(s) /\ SliceFrame(s)' = SliceFrame(s)
         /\ \A x : PartOf(s, x)' = PartOf(s, x) /\ PartFrame(s, x)' = PartFrame(s, x)
    BY <1>10, FramesSame DEF SameAsk
  <1>18. Slicing(s)'
    <2>0. splitCtl'[0] = splitCtl[0]
      BY <1>12 DEF CtlPeers, Helpers
    <2>1. HandoffShape(s, handoff[s])'
      BY <2>0, <1>6, <1>10, <1>17 DEF Slicing, SliceWith, HandoffShape
    <2>2. RemoteOK(s, handoff[s])'
      BY <1>6, <1>10, <1>17 DEF Slicing, SliceWith, RemoteOK
    <2>3. \A x : Has(handoff[s], x)' <=> Has(handoff[s], x)
      BY <1>10 DEF Has
    <2>4. Mine(slice'[r], s) = {}
      BY <1>4, <1>7, <1>13
    <2>5. ASSUME NEW x \in Helpers
          PROVE  /\ Mine(slice'[x], s) \subseteq {SliceFrame(s)}
                 /\ Mine(splitCtl'[x], s) \subseteq {PartFrame(s, x)}
                 /\ Mine(slice'[x], s) # {} => Mine(splitCtl'[x], s) = {}
                 /\ Has(handoff[s], x) => Mine(slice'[x], s) = {} /\ Mine(splitCtl'[x], s) = {}
      <3>1. CASE x = r
        BY <3>1, <2>4, <1>8, <1>11, <1>12
      <3>2. CASE x # r
        <4>1. splitCtl'[x] = splitCtl[x] /\ slice'[x] = slice[x]
          BY <3>2, <1>12, <1>13 DEF Helpers, CtlPeers
        <4> QED
          BY <4>1, <1>6 DEF Slicing, SliceWith
      <3> QED
        BY <3>1, <3>2
    <2> QED
      BY <2>0, <2>1, <2>2, <2>3, <2>5, <1>6, <1>10, <1>11, <1>17 DEF Slicing, SliceWith
  <1>19. SlotStage(s)'
    BY <1>6, <1>10, <1>18 DEF SlotStage, Choosing, Synced
  <1>20. PhaseOK(s)'
    BY <1>19, PhaseOfStage, PTL
  <1>21. \A p : SameOwner(p)
    BY <1>10 DEF SameOwner
  <1> QED
    BY <1>10, <1>14, <1>15, <1>16, <1>20, <1>21, SlotStep DEF SameSlot

\* Rank 7 sends the hidden state of a split token to the slices,
LEMMA FinalSliceKeeps ==
    ASSUME SplitIInv, NEW s \in SessionSlots, FinalOwner(s), Choosing(s), Slicing(s),
           token[s].phase \in {"wait", "timeout", "lost"}
    PROVE  SplitIInv'
  <1>1. ring[s] = RingWork(s) /\ ring[s] # NoHidden /\ token[s].mode = "greedy"
    BY DEF Slicing, SliceWith, HandoffShape, FinalOwner
  <1>2. PICK g : g = SliceFrame(s)
    OBVIOUS
  <1>3. /\ g = [slot |-> s, kind |-> "slice", ses |-> ring[s].ses,
                body |-> [tok |-> ring[s].tok, logits |-> ring[s].logits]]
        /\ g.slot = s
    BY <1>1, <1>2 DEF SliceFrame, TokenFrame, HiddenOf, RingWork
  <1>4. ring[s].split
    <2>1. RingWork(s).split = (token[s].mode = "greedy")
      BY Zenon DEF RingWork, AsksForSlices
    <2> QED
      BY <1>1, <2>1, Zenon
  <1>5. /\ bulk' = Append(bulk, g)
        /\ slice' = [r \in Helpers |-> Append(slice[r], g)]
        /\ inbox' = [inbox EXCEPT ![s][7] = Append(@, g)]
        /\ ring' = [ring EXCEPT ![s] = NoHidden]
        /\ UNCHANGED <<token, splitCtl, acks, handoff, counts, served, ended, wedged>>
    BY <1>3, <1>4 DEF FinalOwner
  <1>6. /\ handoff[s].hiddenSlice = NoHidden /\ handoff[s].remote = <<>> /\ Mine(bulk, s) = {}
        /\ inbox[s][7] = <<>> /\ PartFrame(s, 0) \notin Mine(splitCtl[0], s)
        /\ \A r \in Helpers : Mine(slice[r], s) = {} /\ Mine(splitCtl[r], s) = {}
    BY <1>1 DEF Slicing, SliceWith
  <1>7. /\ Addressed(bulk) /\ \A r \in Helpers : Addressed(slice[r])
        /\ DOMAIN inbox = SessionSlots /\ DOMAIN inbox[s] = {4, 7} /\ DOMAIN ring = SessionSlots
    BY DEF SplitIInv, ChannelsOK, SliceOK, ShapesOK
  <1>8. /\ Addressed(bulk') /\ Mine(bulk', s) = {g}
        /\ \A p : p # s => Mine(bulk', p) = Mine(bulk, p)
    <2>1. g \notin Mine(bulk, g.slot) /\ g.slot \in SessionSlots /\ g.slot = s
      BY <1>3, <1>6
    <2>2. /\ Addressed(Append(bulk, g)) /\ Mine(Append(bulk, g), g.slot) = Mine(bulk, g.slot) \cup {g}
          /\ \A p : p # g.slot => Mine(Append(bulk, g), p) = Mine(bulk, p)
      BY <2>1, <1>7, FrameSent
    <2> QED
      BY <2>1, <2>2, <1>5, <1>6
  <1>9. ASSUME NEW r \in Helpers
        PROVE  /\ Addressed(slice'[r]) /\ Mine(slice'[r], s) = {g}
               /\ \A p : p # s => Mine(slice'[r], p) = Mine(slice[r], p)
    <2>1. PICK q : q = slice[r]
      OBVIOUS
    <2>2. slice'[r] = Append(q, g)
      BY <2>1, <1>5
    <2> QED
      <3>1. g \notin Mine(q, g.slot) /\ g.slot \in SessionSlots /\ g.slot = s /\ Addressed(q)
        BY <2>1, <1>3, <1>6, <1>7
      <3>2. /\ Addressed(Append(q, g)) /\ Mine(Append(q, g), g.slot) = Mine(q, g.slot) \cup {g}
            /\ \A p : p # g.slot => Mine(Append(q, g), p) = Mine(q, p)
        BY <3>1, FrameSent
      <3> QED
        BY <3>1, <3>2, <2>1, <2>2, <1>6
  <1>10. ChannelsOK'
    BY <1>5, <1>8, <1>9 DEF SplitIInv, ChannelsOK, CtlOK, SliceOK
  <1>11. /\ inbox'[s][7] = <<g>> /\ inbox'[s][4] = inbox[s][4]
         /\ \A p \in SessionSlots : p # s => inbox'[p] = inbox[p]
         /\ ring'[s] = NoHidden /\ \A p \in SessionSlots : p # s => ring'[p] = ring[p]
         /\ DOMAIN ring' = SessionSlots
    BY <1>5, <1>6, <1>7, SingleFrame
  <1>12. \A p \in SessionSlots : p # s => SameSlot(p)
    <2> SUFFICES ASSUME NEW p \in SessionSlots, p # s PROVE SameSlot(p)
      OBVIOUS
    <2>1. SameWire(p)
      BY <1>5, <1>8, <1>9 DEF SameWire
    <2>2. SameOwner(p)
      BY <1>5, <1>11 DEF SameOwner
    <2> QED
      BY <2>1, <2>2, <1>5 DEF SameSlot
  <1>13. ShapesOK'
    <2>1. DOMAIN inbox' = SessionSlots /\ \A p \in SessionSlots : DOMAIN inbox'[p] = {4, 7}
      BY <1>5 DEF SplitIInv, ShapesOK
    <2> QED
      BY <2>1, <1>5, <1>11 DEF SplitIInv, ShapesOK
  <1>14. /\ ConfigOf(s)' = ConfigOf(s) /\ HiddenOf(s)' = HiddenOf(s) /\ RingWork(s)' = RingWork(s)
         /\ ConfigFrame(s)' = ConfigFrame(s) /\ SliceFrame(s)' = SliceFrame(s)
         /\ \A x : PartOf(s, x)' = PartOf(s, x) /\ PartFrame(s, x)' = PartFrame(s, x)
    BY <1>5, FramesSame DEF SameAsk
  <1>15. Slicing(s)'
    <2>1. HandoffShape(s, handoff[s])'
      BY <1>5, <1>11, <1>14 DEF Slicing, SliceWith, HandoffShape
    <2>2. RemoteOK(s, handoff[s])'
      BY <1>5, <1>14 DEF Slicing, SliceWith, RemoteOK
    <2>3. \A x : ~Has(handoff[s], x)'
      BY <1>5, <1>6 DEF Has
    <2>4. /\ token'[s].mode = "greedy" /\ handoff'[s].hidden = NoHidden
          /\ handoff'[s].hiddenSlice = NoHidden /\ handoff'[s].remote = <<>>
          /\ Mine(splitCtl'[0], s) \subseteq {ConfigFrame(s)', PartFrame(s, 0)'}
          /\ PartFrame(s, 0)' \notin Mine(splitCtl'[0], s)
      BY <1>1, <1>5, <1>6, <1>14 DEF Slicing, SliceWith
    <2>5. /\ Mine(bulk', s) = {SliceFrame(s)'} /\ inbox'[s][7] = <<SliceFrame(s)'>> /\ ring'[s] = NoHidden
          /\ \A r \in Helpers : Mine(slice'[r], s) = {SliceFrame(s)'} /\ Mine(splitCtl'[r], s) = {}
      BY <1>2, <1>5, <1>6, <1>8, <1>9, <1>11, <1>14
    <2> QED
      BY <2>1, <2>2, <2>3, <2>4, <2>5 DEF Slicing, SliceWith
  <1>16. SlotStage(s)'
    BY <1>5, <1>11, <1>15 DEF SlotStage, Choosing, Synced
  <1>17. PhaseOK(s)'
    BY <1>16, PhaseOfStage, PTL
  <1> QED
    BY <1>10, <1>12, <1>13, <1>17, SlotStep

\* that of any other token to rank 4 alone,
LEMMA FinalHiddenKeeps ==
    ASSUME SplitIInv, NEW s \in SessionSlots, FinalOwner(s), Choosing(s), Sampling(s),
           token[s].phase \in {"wait", "timeout", "lost"}
    PROVE  SplitIInv'
  <1>1. ring[s] = RingWork(s) /\ ring[s] # NoHidden /\ token[s].mode # "greedy"
    BY DEF Sampling, SampleWith, HandoffShape, FinalOwner
  <1>2. PICK g : g = HiddenFrame(s)
    OBVIOUS
  <1>3. /\ g = [slot |-> s, kind |-> "hidden", ses |-> ring[s].ses,
                body |-> [tok |-> ring[s].tok, logits |-> ring[s].logits]]
        /\ g.slot = s
    BY <1>1, <1>2 DEF HiddenFrame, TokenFrame, HiddenOf, RingWork
  <1>4. ~ring[s].split
    <2>1. RingWork(s).split = (token[s].mode = "greedy")
      BY Zenon DEF RingWork, AsksForSlices
    <2> QED
      BY <1>1, <2>1, Zenon
  <1>5. /\ bulk' = Append(bulk, g)
        /\ ring' = [ring EXCEPT ![s] = NoHidden]
        /\ UNCHANGED <<token, splitCtl, slice, inbox, acks, handoff, counts, served, ended, wedged>>
    BY <1>3, <1>4 DEF FinalOwner
  <1>6. handoff[s].hidden = NoHidden /\ Mine(bulk, s) = {}
    BY <1>1 DEF Sampling, SampleWith
  <1>7. Addressed(bulk) /\ DOMAIN ring = SessionSlots
    BY DEF SplitIInv, ChannelsOK, ShapesOK
  <1>8. /\ Addressed(bulk') /\ Mine(bulk', s) = {g}
        /\ \A p : p # s => Mine(bulk', p) = Mine(bulk, p)
    <2>1. g \notin Mine(bulk, g.slot) /\ g.slot \in SessionSlots /\ g.slot = s
      BY <1>3, <1>6
    <2>2. /\ Addressed(Append(bulk, g)) /\ Mine(Append(bulk, g), g.slot) = Mine(bulk, g.slot) \cup {g}
          /\ \A p : p # g.slot => Mine(Append(bulk, g), p) = Mine(bulk, p)
      BY <2>1, <1>7, FrameSent
    <2> QED
      BY <2>1, <2>2, <1>5, <1>6
  <1>10. ChannelsOK'
    BY <1>5, <1>8 DEF SplitIInv, ChannelsOK, CtlOK, SliceOK
  <1>11. /\ ring'[s] = NoHidden /\ \A p \in SessionSlots : p # s => ring'[p] = ring[p]
         /\ DOMAIN ring' = SessionSlots
    BY <1>5, <1>7
  <1>12. \A p \in SessionSlots : p # s => SameSlot(p)
    BY <1>5, <1>8, <1>11 DEF SameSlot, SameWire, SameOwner
  <1>13. ShapesOK'
    BY <1>5, <1>11 DEF SplitIInv, ShapesOK
  <1>14. /\ ConfigOf(s)' = ConfigOf(s) /\ HiddenOf(s)' = HiddenOf(s) /\ RingWork(s)' = RingWork(s)
         /\ ConfigFrame(s)' = ConfigFrame(s) /\ HiddenFrame(s)' = HiddenFrame(s)
    BY <1>5, FramesSame DEF SameAsk
  <1>15. Sampling(s)'
    <2>1. HandoffShape(s, handoff[s])'
      BY <1>5, <1>11, <1>14 DEF Sampling, SampleWith, HandoffShape
    <2>2. handoff'[s].local = FALSE
      BY <1>5, Zenon DEF Sampling, SampleWith
    <2>3. /\ handoff'[s].hiddenSlice = NoHidden /\ handoff'[s].hidden \in {NoHidden, HiddenOf(s)'}
          /\ handoff'[s].remote = <<>> /\ token'[s].mode # "greedy"
      BY <1>5, <1>14 DEF Sampling, SampleWith
    <2>4. /\ Mine(splitCtl'[0], s) \subseteq {ConfigFrame(s)'} /\ Mine(bulk', s) \subseteq {HiddenFrame(s)'}
          /\ inbox'[s][7] = <<>>
          /\ \A r \in Helpers : Mine(slice'[r], s) = {} /\ Mine(splitCtl'[r], s) = {}
          /\ handoff'[s].hidden # NoHidden => Mine(bulk', s) = {}
          /\ ring'[s] # NoHidden => handoff'[s].hidden = NoHidden /\ Mine(bulk', s) = {}
      BY <1>2, <1>5, <1>6, <1>8, <1>11, <1>14 DEF Sampling, SampleWith
    <2> QED
      BY <2>1, <2>2, <2>3, <2>4, Zenon DEF Sampling, SampleWith
  <1>16. SlotStage(s)'
    BY <1>5, <1>11, <1>15 DEF SlotStage, Choosing, Synced
  <1>17. PhaseOK(s)'
    BY <1>16, PhaseOfStage, PTL
  <1> QED
    BY <1>10, <1>12, <1>13, <1>17, SlotStep

\* and there is no third case.
LEMMA FinalOwnerKeeps ==
    ASSUME SplitIInv, NEW s \in SessionSlots, FinalOwner(s)
    PROVE  SplitIInv'
  <1>1. Choosing(s) /\ token[s].phase \in {"wait", "timeout", "lost"}
    BY SlotOf, RingPending DEF FinalOwner
  <1> QED
    BY <1>1, FinalSliceKeeps, FinalHiddenKeeps DEF Choosing

\* What a step of rank 4 changes concerns slot s alone.
OwnerTouches(s) ==
    /\ UNCHANGED <<token, ring, wedged, ended>>
    /\ DOMAIN inbox' = SessionSlots /\ DOMAIN acks' = SessionSlots /\ DOMAIN handoff' = SessionSlots
    /\ \A p \in SessionSlots : DOMAIN inbox'[p] = {4, 7}
    /\ counts' \in [SessionSlots -> [Vocab -> Nat]] /\ served' \in [SessionSlots -> Nat]
    /\ \A p \in SessionSlots : p # s =>
          /\ inbox'[p] = inbox[p] /\ acks'[p] = acks[p] /\ handoff'[p] = handoff[p]
          /\ counts'[p] = counts[p] /\ served'[p] = served[p]

\* A step of rank 4 for slot s preserves the invariant when it leaves s in a situation.
LEMMA OwnerSlot ==
    ASSUME SplitIInv, NEW s \in SessionSlots, ChannelsOK', OwnerTouches(s),
           \A p \in SessionSlots : p # s => SameWire(p), SlotStage(s)'
    PROVE  SplitIInv'
  <1>1. ShapesOK'
    BY DEF OwnerTouches, SplitIInv, ShapesOK
  <1>2. \A p \in SessionSlots : p # s => SameSlot(p)
    BY DEF OwnerTouches, SameSlot, SameOwner
  <1>3. PhaseOK(s)'
    BY PhaseOfStage, PTL
  <1> QED
    BY <1>1, <1>2, <1>3, SlotStep

\* The partial of a rank names that rank, and different ranks have different slices.
LEMMA PartIs ==
    ASSUME OutputSplitAssumption, NEW s, token[s] \in Tokens
    PROVE  /\ token[s].logits \in [Vocab -> Int]
           /\ \A r \in CtlPeers : /\ WayOf(r) \in {2, 3, 4}
                                 /\ PartOf(s, r) = SlicePartial(WayOf(r), token[s].logits)
                                 /\ PartOf(s, r).rank = r
           /\ \A r, x \in CtlPeers : WayOf(r) = WayOf(x) => r = x
  <1>1. token[s].logits \in [Vocab -> Int]
    BY DEF Tokens, Asks, OutputSplitAssumption
  <1>2. \A r \in CtlPeers : WayOf(r) \in {2, 3, 4} /\ SplitRank[WayOf(r)] = r
    BY SplitIs DEF CtlPeers
  <1>3. \A r \in CtlPeers : SlicePartial(WayOf(r), token[s].logits).rank = r
    BY <1>2 DEF SlicePartial
  <1> QED
    BY <1>1, <1>2, <1>3 DEF PartOf

\* Three partials of the token: one of each rank, and their combination is the
\* best of the whole vocabulary.
LEMMA AllPartials ==
    ASSUME OutputSplitAssumption, NEW s, token[s] \in Tokens, NEW h, RemoteOK(s, h), Len(h.remote) >= 3
    PROVE  /\ CombineAll(SlicePartial(1, token[s].logits), h.remote).id = BestOf(Vocab, token[s].logits)
           /\ BestOf(Vocab, token[s].logits) \in Vocab
           /\ \A r \in CtlPeers : Has(h, r)
  <1>1. 1 \in 1..Len(h.remote) /\ 2 \in 1..Len(h.remote) /\ 3 \in 1..Len(h.remote)
    <2>1. Len(h.remote) \in Nat
      BY DEF RemoteOK, IsSeq
    <2> QED
      BY <2>1
  <1>2. PICK a \in CtlPeers : h.remote[1] = PartOf(s, a)
    BY <1>1 DEF RemoteOK
  <1>3. PICK b \in CtlPeers : h.remote[2] = PartOf(s, b)
    BY <1>1 DEF RemoteOK
  <1>4. PICK c \in CtlPeers : h.remote[3] = PartOf(s, c)
    BY <1>1 DEF RemoteOK
  <1>5. h.remote[1].rank = a /\ h.remote[2].rank = b /\ h.remote[3].rank = c
    BY <1>2, <1>3, <1>4, PartIs
  <1>6. a # b /\ a # c /\ b # c
    BY <1>1, <1>5 DEF RemoteOK
  <1>7. \A r \in CtlPeers : r = a \/ r = b \/ r = c
    BY <1>6 DEF CtlPeers
  <1>8. \A r \in CtlPeers : Has(h, r)
    BY <1>1, <1>5, <1>7 DEF Has
  <1>9. /\ WayOf(a) \in {2, 3, 4} /\ WayOf(b) \in {2, 3, 4} /\ WayOf(c) \in {2, 3, 4}
        /\ WayOf(a) # WayOf(b) /\ WayOf(a) # WayOf(c) /\ WayOf(b) # WayOf(c)
        /\ h.remote[1] = SlicePartial(WayOf(a), token[s].logits)
        /\ h.remote[2] = SlicePartial(WayOf(b), token[s].logits)
        /\ h.remote[3] = SlicePartial(WayOf(c), token[s].logits)
        /\ token[s].logits \in [Vocab -> Int]
    BY <1>2, <1>3, <1>4, <1>6, PartIs
  <1> QED
    BY <1>8, <1>9, CombineExact

\* A rank that has not answered yet: there are at most two partials.
LEMMA RoomForPartial ==
    ASSUME OutputSplitAssumption, NEW s, token[s] \in Tokens, NEW h, RemoteOK(s, h),
           NEW r \in CtlPeers, ~Has(h, r)
    PROVE  Len(h.remote) \in 0..2
  <1>1. Len(h.remote) \in Nat
    BY DEF RemoteOK, IsSeq
  <1>2. ~(Len(h.remote) >= 3)
    BY AllPartials
  <1>3. PICK n \in Nat : n = Len(h.remote)
    BY <1>1
  <1>4. ~(n >= 3)
    BY <1>2, <1>3
  <1>5. n \in 0..2
    BY <1>4
  <1> QED
    BY <1>3, <1>5

\* A partial of a rank that rank 4 has none of yet.
LEMMA PartialAdded ==
    ASSUME OutputSplitAssumption, NEW s, token[s] \in Tokens, NEW h, RemoteOK(s, h),
           NEW r \in CtlPeers, ~Has(h, r), NEW h2, h2.remote = Append(h.remote, PartOf(s, r))
    PROVE  RemoteOK(s, h2) /\ \A x : Has(h2, x) <=> Has(h, x) \/ x = r
  <1>1. PICK q : q = h.remote
    OBVIOUS
  <1>2. PICK p : p = PartOf(s, r)
    OBVIOUS
  <1>3. p.rank = r
    BY <1>2, PartIs
  <1>4. q \in Seq(Range(q)) /\ Len(q) \in Nat
    BY <1>1 DEF RemoteOK, IsSeq
  <1>5. /\ Append(q, p) \in Seq(Range(q) \cup {p}) /\ Len(Append(q, p)) = Len(q) + 1
        /\ \A i \in 1..Len(q) : Append(q, p)[i] = q[i]
        /\ Append(q, p)[Len(q) + 1] = p
    BY <1>4
  <1>6. PICK t : t = Append(q, p)
    OBVIOUS
  <1>7. t = h2.remote /\ \A i \in 1..Len(t) : i \in 1..Len(q) \/ i = Len(q) + 1
    BY <1>1, <1>2, <1>4, <1>5, <1>6
  <1>8. t \in Seq(Range(t))
    <2>1. DOMAIN t = 1..Len(t) /\ Len(t) \in Nat
      BY <1>5, <1>6
    <2> QED
      BY <2>1, <1>5, <1>6 DEF Range
  <1>9. \A i \in 1..Len(t) : \E x \in CtlPeers : t[i] = PartOf(s, x)
    BY <1>1, <1>2, <1>5, <1>6, <1>7 DEF RemoteOK
  <1>10. \A i \in 1..Len(q) : q[i].rank # r
    BY <1>1 DEF Has
  <1>11. \A i, j \in 1..Len(t) : t[i].rank = t[j].rank => i = j
    <2> SUFFICES ASSUME NEW i \in 1..Len(t), NEW j \in 1..Len(t), t[i].rank = t[j].rank PROVE i = j
      OBVIOUS
    <2>1. CASE i \in 1..Len(q) /\ j \in 1..Len(q)
      BY <2>1, <1>1, <1>5, <1>6 DEF RemoteOK
    <2>2. CASE i = Len(q) + 1 \/ j = Len(q) + 1
      BY <2>2, <1>3, <1>5, <1>6, <1>7, <1>10
    <2> QED
      BY <2>1, <2>2, <1>7
  <1>12. \A x : Has(h2, x) <=> Has(h, x) \/ x = r
    <2>1. Len(q) + 1 \in 1..Len(t) /\ \A i \in 1..Len(q) : i \in 1..Len(t)
      BY <1>4, <1>5, <1>6
    <2>2. ASSUME NEW x, Has(h2, x) PROVE Has(h, x) \/ x = r
      BY <2>2, <1>1, <1>3, <1>5, <1>6, <1>7 DEF Has
    <2>3. ASSUME NEW x, Has(h, x) PROVE Has(h2, x)
      BY <2>1, <2>3, <1>1, <1>5, <1>6, <1>7 DEF Has
    <2>4. Has(h2, r)
      BY <2>1, <1>3, <1>5, <1>6, <1>7 DEF Has
    <2> QED
      BY <2>2, <2>3, <2>4
  <1> QED
    BY <1>7, <1>8, <1>9, <1>11, <1>12 DEF RemoteOK, IsSeq

\* A token number is never the mark of an absent token.
LEMMA IndexIs ==
    ASSUME OutputSplitAssumption, NEW t \in Tokens
    PROVE  t.index \in Nat /\ t.index # NoToken
  <1>1. t.index \in 0..MaxIndex /\ MaxIndex \in Nat
    BY DEF Tokens, Asks, OutputSplitAssumption
  <1> QED
    BY <1>1 DEF NoToken

\* The answer of rank 4, and what it leaves behind.
LEMMA Answers ==
    ASSUME OutputSplitAssumption, ShapesOK, NEW s \in SessionSlots, NEW id \in Vocab,
           UNCHANGED <<token, ring, wedged, ended, acks, served>>,
           AnswerToken(s, token[s].index, id), Counted(s, token[s].mode, id),
           \/ handoff' = [handoff EXCEPT ![s] = EmptyHandoff]
           \/ handoff' = handoff /\ handoff[s] = EmptyHandoff,
           served[s] = token[s].ses, acks[s] = <<>>, inbox[s][4] = <<>>, inbox[s][7] = <<>>, Synced(s),
           id \in Sample(token[s].mode, token[s].logits, token[s].hist),
           ring[s] = NoHidden, Mine(bulk', s) = {}, Mine(splitCtl'[0], s) = {},
           \A r \in Helpers : Mine(splitCtl'[r], s) = {} /\ Mine(slice'[r], s) = {}
    PROVE  OwnerTouches(s) /\ Chosen(s)'
  <1>1. /\ token[s] \in Tokens /\ counts \in [SessionSlots -> [Vocab -> Nat]] /\ served \in [SessionSlots -> Nat]
        /\ DOMAIN inbox = SessionSlots /\ DOMAIN acks = SessionSlots /\ DOMAIN handoff = SessionSlots
        /\ \A p \in SessionSlots : DOMAIN inbox[p] = {4, 7}
    BY DEF ShapesOK
  <1>2. PICK g : g = ResultFrame(s, id)
    OBVIOUS
  <1>3. g = [slot |-> s, kind |-> "result", ses |-> served[s], body |-> [tok |-> token[s].index, id |-> id]]
    BY <1>2 DEF ResultFrame, TokenFrame
  <1>4. inbox' = [inbox EXCEPT ![s][4] = Append(@, g)]
    BY <1>3 DEF AnswerToken
  <1>5. /\ inbox'[s][4] = <<g>> /\ inbox'[s][7] = <<>> /\ DOMAIN inbox' = SessionSlots
        /\ \A p \in SessionSlots : p # s => inbox'[p] = inbox[p]
        /\ \A p \in SessionSlots : DOMAIN inbox'[p] = {4, 7}
    <2>1. inbox'[s] = [inbox[s] EXCEPT ![4] = Append(@, g)]
      BY <1>1, <1>4
    <2>2. inbox'[s][4] = Append(<<>>, g) /\ inbox'[s][7] = <<>> /\ DOMAIN inbox'[s] = {4, 7}
      BY <2>1, <1>1
    <2>3. DOMAIN inbox' = SessionSlots /\ \A p \in SessionSlots : p # s => inbox'[p] = inbox[p]
      BY <1>1, <1>4
    <2> QED
      BY <2>2, <2>3, <1>1, SingleFrame
  <1>6. /\ counts' \in [SessionSlots -> [Vocab -> Nat]]
        /\ \A p \in SessionSlots : p # s => counts'[p] = counts[p]
        /\ token[s].mode = "penalised" => counts'[s] = [token[s].hist EXCEPT ![id] = @ + 1]
    <2>1. CASE token[s].mode = "penalised"
      <3>1. counts' = [counts EXCEPT ![s] = [counts[s] EXCEPT ![id] = counts[s][id] + 1]]
        BY <2>1, <1>1 DEF Counted
      <3>2. counts[s] = token[s].hist /\ counts[s] \in [Vocab -> Nat]
        BY <2>1, <1>1 DEF Synced
      <3>3. [counts[s] EXCEPT ![id] = counts[s][id] + 1] \in [Vocab -> Nat]
        BY <3>2
      <3> QED
        BY <3>1, <3>2, <3>3, <1>1
    <2>2. CASE token[s].mode # "penalised"
      BY <2>2, <1>1 DEF Counted
    <2> QED
      BY <2>1, <2>2
  <1>7. /\ handoff'[s] = EmptyHandoff /\ DOMAIN handoff' = SessionSlots
        /\ \A p \in SessionSlots : p # s => handoff'[p] = handoff[p]
    BY <1>1
  <1>8. OwnerTouches(s)
    BY <1>1, <1>5, <1>6, <1>7 DEF OwnerTouches
  <1>9. Calm(s)'
    BY <1>5, <1>7 DEF Calm
  <1>10. ResultFrame(s, id)' = g
    BY <1>2 DEF ResultFrame, TokenFrame
  <1>11. SlotRest(s, {}, <<ResultFrame(s, id)>>, <<>>)'
    BY <1>5, <1>9, <1>10 DEF SlotRest
  <1> QED
    BY <1>6, <1>8, <1>11 DEF Chosen

\* A handler that only changes the handoff record of the slot.
LEMMA HandoffOnly ==
    ASSUME ShapesOK, NEW s \in SessionSlots, NEW h, handoff' = [handoff EXCEPT ![s] = h],
           UNCHANGED <<token, ring, wedged, ended, acks, served, counts, inbox>>
    PROVE  OwnerTouches(s) /\ handoff'[s] = h
  BY DEF ShapesOK, OwnerTouches

\* The flush of a split token's record waits for partials or chooses the token: with all
\* of them the combined winner is that of the whole vocabulary.
LEMMA FlushSlice ==
    ASSUME OutputSplitAssumption, ShapesOK, NEW s \in SessionSlots, NEW h, Flush(s, h), SliceWith(s, h)',
           UNCHANGED <<token, ring, wedged, ended, acks, served>>,
           served[s] = token[s].ses, acks[s] = <<>>, inbox[s][4] = <<>>
    PROVE  OwnerTouches(s) /\ (Choosing(s)' \/ Chosen(s)')
  <1>1. /\ ConfigOf(s)' = ConfigOf(s) /\ HiddenOf(s)' = HiddenOf(s) /\ RingWork(s)' = RingWork(s)
        /\ ConfigFrame(s)' = ConfigFrame(s) /\ SliceFrame(s)' = SliceFrame(s)
        /\ \A x : PartOf(s, x)' = PartOf(s, x) /\ PartFrame(s, x)' = PartFrame(s, x)
    BY FramesSame DEF SameAsk
  <1>2. /\ token[s].mode = "greedy" /\ h.config \in {NoConfig, ConfigOf(s)}
        /\ h.hiddenSlice \in {NoHidden, HiddenOf(s)}
    BY <1>1 DEF SliceWith, HandoffShape
  <1>3. token[s] \in Tokens /\ token[s].index # NoToken /\ Synced(s) /\ Synced(s)'
    BY <1>2, IndexIs DEF ShapesOK, Synced
  <1>4. ASSUME inbox' = inbox, Slicing(s)' PROVE Choosing(s)'
    BY <1>3, <1>4 DEF Choosing
  <1>5. CASE ~Ready(h)
    <2>1. handoff' = [handoff EXCEPT ![s] = h] /\ UNCHANGED <<counts, inbox>>
      BY <1>5 DEF Flush
    <2>2. OwnerTouches(s) /\ handoff'[s] = h
      BY <2>1, HandoffOnly
    <2>3. Slicing(s)'
      BY <2>2 DEF Slicing
    <2> QED
      BY <2>1, <2>2, <2>3, <1>4
  <1>6. ASSUME Ready(h) PROVE h.config = ConfigOf(s) /\ h.hiddenSlice = HiddenOf(s) /\ Split(h)
                              /\ h.config.tok = token[s].index
    <2>1. h.config = ConfigOf(s) /\ h.config.mode = "greedy" /\ h.config.tok = token[s].index
      BY <1>2, <1>6 DEF Ready, NoConfig, ConfigOf
    <2>2. Split(h)
      BY <2>1 DEF Split
    <2>3. h.hiddenSlice.tok = token[s].index
      BY <2>1, <2>2, <1>6 DEF Ready
    <2> QED
      BY <2>1, <2>2, <2>3, <1>2, <1>3 DEF NoHidden
  <1>7. CASE Ready(h) /\ Len(h.remote) < 3
    <2>1. PICK k : k = [h EXCEPT !.local = TRUE]
      OBVIOUS
    <2>2. handoff' = [handoff EXCEPT ![s] = k] /\ UNCHANGED <<counts, inbox>>
      BY <2>1, <1>6, <1>7, SplitIs DEF Flush
    <2>3. OwnerTouches(s) /\ handoff'[s] = k
      BY <2>2, HandoffOnly
    <2>4. /\ h = [config |-> h.config, hidden |-> h.hidden, hiddenSlice |-> h.hiddenSlice,
                  local |-> h.local, remote |-> h.remote]
      BY DEF SliceWith, HandoffShape
    <2>5. /\ k = [config |-> h.config, hidden |-> h.hidden, hiddenSlice |-> h.hiddenSlice,
                  local |-> TRUE, remote |-> h.remote]
      BY <2>1, <2>4
    <2>6. /\ k.config = h.config /\ k.hidden = h.hidden /\ k.hiddenSlice = h.hiddenSlice
          /\ k.remote = h.remote
          /\ k = [config |-> k.config, hidden |-> k.hidden, hiddenSlice |-> k.hiddenSlice,
                  local |-> k.local, remote |-> k.remote]
      BY <2>5
    <2>7. HandoffShape(s, k)'
      BY <2>6 DEF SliceWith, HandoffShape
    <2>8. RemoteOK(s, k)'
      BY <2>6 DEF SliceWith, RemoteOK
    <2>9. \A r : Has(k, r) <=> Has(h, r)
      BY <2>6 DEF Has
    <2>10. SliceWith(s, k)'
      BY <2>6, <2>7, <2>8, <2>9 DEF SliceWith
    <2>11. Slicing(s)'
      BY <2>3, <2>10 DEF Slicing
    <2> QED
      BY <2>2, <2>3, <2>11, <1>4
  <1>8. CASE Ready(h) /\ ~(Len(h.remote) < 3)
    <2>1. RemoteOK(s, h)
      BY <1>1 DEF SliceWith, RemoteOK
    <2>2. Len(h.remote) >= 3
      BY <2>1, <1>8 DEF RemoteOK, IsSeq
    <2> DEFINE id == BestOf(Vocab, token[s].logits)
    <2>3. /\ CombineAll(SlicePartial(1, token[s].logits), h.remote).id = id
          /\ id \in Vocab /\ \A r \in CtlPeers : Has(h, r)
      BY <2>1, <2>2, <1>3, AllPartials
    <2>4. h.hiddenSlice.logits = token[s].logits
      BY <1>6, <1>8 DEF HiddenOf
    <2>5. /\ AnswerToken(s, token[s].index, id)
          /\ handoff' = [handoff EXCEPT ![s] = EmptyHandoff] /\ UNCHANGED counts
      BY <2>3, <2>4, <1>6, <1>8, SplitIs DEF Flush
    <2>6. Counted(s, token[s].mode, id)
      BY <2>5, <1>2 DEF Counted
    <2>7. id \in Sample(token[s].mode, token[s].logits, token[s].hist)
      BY <1>2 DEF Sample
    <2>8. h.config # NoConfig /\ h.hiddenSlice # NoHidden /\ h.remote # <<>>
      <3>1. h.remote # <<>>
        BY <2>2
      <3>2. h.config.tok # NoToken /\ h.hiddenSlice.tok # NoToken
        BY <1>3, <1>6, <1>8 DEF HiddenOf
      <3> QED
        BY <3>1, <3>2 DEF NoConfig, NoHidden
    <2>9. /\ ring[s] = NoHidden /\ Mine(bulk', s) = {} /\ inbox'[s][7] = <<>>
          /\ Mine(splitCtl'[0], s) = {}
          /\ \A r \in Helpers : Mine(splitCtl'[r], s) = {} /\ Mine(slice'[r], s) = {}
      <3>1. Has(h, 0) /\ \A r \in Helpers : Has(h, r)
        BY <2>3 DEF CtlPeers, Helpers
      <3> QED
        BY <3>1, <2>8, <1>1 DEF SliceWith, HandoffShape
    <2>10. inbox[s][7] = <<>>
      BY <2>5, <2>9 DEF AnswerToken, ShapesOK
    <2> HIDE DEF id
    <2> QED
      BY <2>3, <2>5, <2>6, <2>7, <2>9, <2>10, <1>3, Answers
  <1> QED
    BY <1>5, <1>7, <1>8

\* The flush of a sampled token's record waits for configuration or hidden state, or
\* chooses with the history of the session and counts what it chose.
LEMMA FlushSample ==
    ASSUME OutputSplitAssumption, ShapesOK, NEW s \in SessionSlots, NEW h, Flush(s, h), SampleWith(s, h)',
           UNCHANGED <<token, ring, wedged, ended, acks, served>>, Synced(s),
           served[s] = token[s].ses, acks[s] = <<>>, inbox[s][4] = <<>>
    PROVE  OwnerTouches(s) /\ (Choosing(s)' \/ Chosen(s)')
  <1>1. /\ ConfigOf(s)' = ConfigOf(s) /\ HiddenOf(s)' = HiddenOf(s) /\ RingWork(s)' = RingWork(s)
        /\ ConfigFrame(s)' = ConfigFrame(s) /\ HiddenFrame(s)' = HiddenFrame(s)
    BY FramesSame DEF SameAsk
  <1>2. /\ token[s].mode # "greedy" /\ h.config \in {NoConfig, ConfigOf(s)}
        /\ h.hidden \in {NoHidden, HiddenOf(s)} /\ inbox'[s][7] = <<>>
    BY <1>1 DEF SampleWith, HandoffShape
  <1>3. token[s] \in Tokens /\ token[s].index # NoToken
    BY IndexIs DEF ShapesOK
  <1>4. CASE ~Ready(h)
    <2>1. handoff' = [handoff EXCEPT ![s] = h] /\ UNCHANGED <<counts, inbox>>
      BY <1>4 DEF Flush
    <2>2. OwnerTouches(s) /\ handoff'[s] = h
      BY <2>1, HandoffOnly
    <2>3. Sampling(s)'
      BY <2>2 DEF Sampling
    <2>4. Synced(s)'
      BY <2>1 DEF Synced
    <2> QED
      BY <2>1, <2>2, <2>3, <2>4 DEF Choosing
  <1>5. CASE Ready(h)
    <2>1. h.config.tok # NoToken
      BY <1>5 DEF Ready
    <2>2. h.config = ConfigOf(s) /\ h.config.mode = token[s].mode /\ h.config.tok = token[s].index
      BY <2>1, <1>2 DEF NoConfig, ConfigOf
    <2>3. ~Split(h)
      BY <2>2, <1>2 DEF Split
    <2>4. h.hidden.tok = token[s].index
      BY <2>2, <2>3, <1>5 DEF Ready
    <2>5. h.hidden = HiddenOf(s) /\ h.hidden.logits = token[s].logits /\ h.hidden # NoHidden
      <3>1. h.hidden # NoHidden
        BY <2>4, <1>3 DEF NoHidden
      <3>2. h.hidden = HiddenOf(s)
        BY <3>1, <1>2
      <3> QED
        BY <3>1, <3>2 DEF HiddenOf
    <2>6. PICK id \in Sample(token[s].mode, token[s].logits, counts[s]) :
             AnswerToken(s, token[s].index, id) /\ Counted(s, token[s].mode, id)
      BY <2>2, <2>3, <2>5, <1>5 DEF Flush
    <2>7. handoff' = [handoff EXCEPT ![s] = EmptyHandoff]
      BY <2>3, <1>5 DEF Flush
    <2>8. id \in Vocab /\ id \in Sample(token[s].mode, token[s].logits, token[s].hist)
      <3>1. /\ token[s].mode \in AllModes /\ token[s].logits \in LogitChoices
            /\ token[s].hist \in [Vocab -> Nat] /\ counts[s] \in [Vocab -> Nat]
        BY <1>3 DEF Tokens, Asks, ShapesOK
      <3>2. Sample(token[s].mode, token[s].logits, token[s].hist) \subseteq Vocab
        BY <3>1, SampleIn
      <3>3. Sample(token[s].mode, token[s].logits, counts[s]) = Sample(token[s].mode, token[s].logits, token[s].hist)
        <4>1. CASE token[s].mode = "penalised"
          BY <4>1 DEF Synced
        <4>2. CASE token[s].mode # "penalised"
          BY <4>2, <3>1, SampleIn
        <4> QED
          BY <4>1, <4>2
      <3> QED
        BY <2>6, <3>2, <3>3
    <2>9. h.config # NoConfig
      BY <2>1 DEF NoConfig
    <2>10. /\ ring[s] = NoHidden /\ Mine(bulk', s) = {} /\ Mine(splitCtl'[0], s) = {}
           /\ \A r \in Helpers : Mine(splitCtl'[r], s) = {} /\ Mine(slice'[r], s) = {}
      BY <2>5, <2>9, <1>1 DEF SampleWith, HandoffShape
    <2>11. inbox[s][7] = <<>>
      BY <2>6, <1>2 DEF AnswerToken, ShapesOK
    <2> QED
      BY <2>6, <2>7, <2>8, <2>10, <2>11, Answers
  <1> QED
    BY <1>4, <1>5

\* A record of rank 4, field by field.
Record4(c, x, y, l, m) == [config |-> c, hidden |-> x, hiddenSlice |-> y, local |-> l, remote |-> m]

Off == FALSE

\* A record that is given field by field, and its updates.
LEMMA RecordIs ==
    ASSUME NEW c, NEW x, NEW y, NEW l, NEW m, NEW h, h = Record4(c, x, y, l, m)
    PROVE  /\ h.config = c /\ h.hidden = x /\ h.hiddenSlice = y /\ h.remote = m
           /\ \A v : [h EXCEPT !.config = v] = Record4(v, x, y, l, m)
           /\ \A v : [h EXCEPT !.hidden = v] = Record4(c, v, y, l, m)
           /\ \A v : [h EXCEPT !.hiddenSlice = v] = Record4(c, x, v, l, m)
           /\ \A v : [h EXCEPT !.remote = v] = Record4(c, x, y, l, v)
  BY DEF Record4

\* A record without its partials.
LEMMA Clears ==
    ASSUME NEW c, NEW x, NEW y, NEW l, NEW m, NEW h, h = Record4(c, x, y, l, m)
    PROVE  ClearPartials(h) = Record4(c, x, y, Off, <<>>)
  <1>1. PICK k : k = [h EXCEPT !.local = FALSE]
    OBVIOUS
  <1>2. k = Record4(c, x, y, Off, m)
    BY <1>1 DEF Record4, Off
  <1>3. [k EXCEPT !.remote = <<>>] = Record4(c, x, y, Off, <<>>)
    BY <1>2, RecordIs
  <1>4. ClearPartials(h) = [k EXCEPT !.remote = <<>>]
    BY <1>1 DEF ClearPartials
  <1> QED
    BY <1>3, <1>4

\* A configuration meets only hidden states of its own token, and keeps them.
LEMMA ConfigLands ==
    ASSUME NEW c, NEW h, NEW x, NEW y, NEW l, NEW m, h = Record4(NoConfig, x, y, l, m),
           c.tok \in Nat, \/ x = NoHidden \/ x.tok = c.tok, \/ y = NoHidden \/ y.tok = c.tok
    PROVE  HandoffConfig(h, c) = Record4(c, x, y, Off, <<>>)
  <1>0. h.config = NoConfig /\ h.hidden = x /\ h.hiddenSlice = y
    BY RecordIs
  <1>1. /\ h.config.tok # c.tok /\ ~(c.tok < h.config.tok) /\ ~(c.tok < h.hidden.tok) /\ ~(c.tok < h.hiddenSlice.tok)
        /\ (IF c.tok > x.tok THEN NoHidden ELSE x) = x /\ (IF c.tok > y.tok THEN NoHidden ELSE y) = y
    BY <1>0 DEF NoConfig, NoHidden, NoToken
  <1>3. PICK k : k = ClearPartials(h)
    OBVIOUS
  <1>4. k = Record4(NoConfig, x, y, Off, <<>>) /\ k.hidden = x /\ k.hiddenSlice = y
    BY <1>3, Clears, RecordIs
  <1>2. HandoffConfig(h, c) = [k EXCEPT !.config = c,
                                 !.hidden = IF c.tok > k.hidden.tok THEN NoHidden ELSE k.hidden,
                                 !.hiddenSlice = IF c.tok > k.hiddenSlice.tok THEN NoHidden ELSE k.hiddenSlice]
    BY <1>1, <1>3 DEF HandoffConfig
  <1>5. HandoffConfig(h, c) = [k EXCEPT !.config = c, !.hidden = x, !.hiddenSlice = y]
    BY <1>1, <1>2, <1>4
  <1>6. PICK k1 : k1 = [k EXCEPT !.config = c]
    OBVIOUS
  <1>7. k1 = Record4(c, x, y, Off, <<>>)
    BY <1>4, <1>6, RecordIs
  <1>8. [k1 EXCEPT !.hidden = x] = k1 /\ [k1 EXCEPT !.hiddenSlice = y] = k1
    BY <1>7, RecordIs
  <1> QED
    BY <1>5, <1>6, <1>7, <1>8

\* A slice meets only the configuration of its own token, and keeps what came with it.
LEMMA SliceLands ==
    ASSUME NEW h, NEW c, NEW l, NEW m, NEW z, h = Record4(c, NoHidden, NoHidden, l, m), z.tok \in Nat,
           c = NoConfig \/ c.tok = z.tok
    PROVE  HandoffHidden(h, "hiddenSlice", "hidden", z) =
             IF c = NoConfig THEN Record4(c, NoHidden, z, Off, <<>>)
                             ELSE Record4(c, NoHidden, z, l, m)
  <1>1. /\ h["hiddenSlice"] = NoHidden /\ h["hidden"] = NoHidden /\ h.config = c
        /\ z.tok > NoHidden.tok /\ NoConfig.tok < z.tok /\ ~(z.tok < NoHidden.tok) /\ z.tok # NoHidden.tok
        /\ ~(z.tok < c.tok)
    BY DEF Record4, NoConfig, NoHidden, NoToken
  <1>2. [h EXCEPT !["hidden"] = NoHidden] = h
    BY DEF Record4
  <1>3. CASE c = NoConfig
    <2>1. PICK k : k = ClearPartials([h EXCEPT !.config = NoConfig])
      OBVIOUS
    <2>2. k = Record4(NoConfig, NoHidden, NoHidden, Off, <<>>)
      <3>1. [h EXCEPT !.config = NoConfig] = Record4(NoConfig, NoHidden, NoHidden, l, m)
        BY RecordIs
      <3> QED
        BY <3>1, <2>1, Clears
    <2>3. HandoffHidden(h, "hiddenSlice", "hidden", z) = [k EXCEPT !["hiddenSlice"] = z]
      <3>1. z.tok > h.config.tok /\ z.tok > h["hidden"].tok /\ z.tok # h["hiddenSlice"].tok
            /\ ~(z.tok < h["hiddenSlice"].tok) /\ ~(z.tok < h["hidden"].tok) /\ ~(z.tok < h.config.tok)
        BY <1>1, <1>3
      <3> QED
        BY <3>1, <2>1, <1>2 DEF HandoffHidden
    <2>4. [k EXCEPT !["hiddenSlice"] = z] = Record4(NoConfig, NoHidden, z, Off, <<>>)
      BY <2>2 DEF Record4
    <2> QED
      BY <2>3, <2>4, <1>3
  <1>4. CASE c # NoConfig
    <2>1. ~(z.tok > c.tok)
      BY <1>4
    <2>2. HandoffHidden(h, "hiddenSlice", "hidden", z) = [h EXCEPT !["hiddenSlice"] = z]
      BY <1>1, <1>2, <2>1 DEF HandoffHidden
    <2>3. [h EXCEPT !["hiddenSlice"] = z] = Record4(c, NoHidden, z, l, m)
      BY DEF Record4
    <2> QED
      BY <2>2, <2>3, <1>4
  <1> QED
    BY <1>3, <1>4

\* So does the hidden state of a sampled token.
LEMMA HiddenLands ==
    ASSUME NEW h, NEW c, NEW l, NEW m, NEW z, h = Record4(c, NoHidden, NoHidden, l, m), z.tok \in Nat,
           c = NoConfig \/ c.tok = z.tok
    PROVE  HandoffHidden(h, "hidden", "hiddenSlice", z) =
             IF c = NoConfig THEN Record4(c, z, NoHidden, Off, <<>>)
                             ELSE Record4(c, z, NoHidden, l, m)
  <1>1. /\ h["hiddenSlice"] = NoHidden /\ h["hidden"] = NoHidden /\ h.config = c
        /\ z.tok > NoHidden.tok /\ NoConfig.tok < z.tok /\ ~(z.tok < NoHidden.tok) /\ z.tok # NoHidden.tok
        /\ ~(z.tok < c.tok)
    BY DEF Record4, NoConfig, NoHidden, NoToken
  <1>2. [h EXCEPT !["hiddenSlice"] = NoHidden] = h
    BY DEF Record4
  <1>3. CASE c = NoConfig
    <2>1. PICK k : k = ClearPartials([h EXCEPT !.config = NoConfig])
      OBVIOUS
    <2>2. k = Record4(NoConfig, NoHidden, NoHidden, Off, <<>>)
      <3>1. [h EXCEPT !.config = NoConfig] = Record4(NoConfig, NoHidden, NoHidden, l, m)
        BY RecordIs
      <3> QED
        BY <3>1, <2>1, Clears
    <2>3. HandoffHidden(h, "hidden", "hiddenSlice", z) = [k EXCEPT !["hidden"] = z]
      <3>1. z.tok > h.config.tok /\ z.tok > h["hiddenSlice"].tok /\ z.tok # h["hidden"].tok
            /\ ~(z.tok < h["hidden"].tok) /\ ~(z.tok < h["hiddenSlice"].tok) /\ ~(z.tok < h.config.tok)
        BY <1>1, <1>3
      <3> QED
        BY <3>1, <2>1, <1>2 DEF HandoffHidden
    <2>4. [k EXCEPT !["hidden"] = z] = Record4(NoConfig, z, NoHidden, Off, <<>>)
      BY <2>2 DEF Record4
    <2> QED
      BY <2>3, <2>4, <1>3
  <1>4. CASE c # NoConfig
    <2>1. ~(z.tok > c.tok)
      BY <1>4
    <2>2. HandoffHidden(h, "hidden", "hiddenSlice", z) = [h EXCEPT !["hidden"] = z]
      BY <1>1, <1>2, <2>1 DEF HandoffHidden
    <2>3. [h EXCEPT !["hidden"] = z] = Record4(c, z, NoHidden, l, m)
      BY DEF Record4
    <2> QED
      BY <2>2, <2>3, <1>4
  <1> QED
    BY <1>3, <1>4

\* Rank 4 takes the frame f of slot s from a control connection, from the bulk one.
TakesCtl(s, r, f) ==
    /\ f \in Mine(splitCtl[r], s) /\ f.slot = s /\ ended = ""
    /\ Mine(splitCtl'[r], s) = Mine(splitCtl[r], s) \ {f}
    /\ \A x \in CtlPeers : x # r => splitCtl'[x] = splitCtl[x]
    /\ UNCHANGED <<token, ring, bulk, slice, wedged>>
TakesBulk(s, f) ==
    /\ f \in Mine(bulk, s) /\ f.slot = s /\ ended = ""
    /\ Mine(bulk', s) = Mine(bulk, s) \ {f}
    /\ UNCHANGED <<token, ring, splitCtl, slice, wedged>>

\* The frame that rank 4 takes from a control connection belongs to one slot.
LEMMA CtlArrives ==
    ASSUME SplitIInv, NEW r \in CtlPeers, OwnerControl(r)
    PROVE  \E s \in SessionSlots : \E f \in Mine(splitCtl[r], s) :
              /\ TakesCtl(s, r, f) /\ Handle(f) /\ ChannelsOK'
              /\ \A p \in SessionSlots : p # s => SameWire(p)
  <1>1. CtlOK /\ splitCtl[r] # <<>> /\ SliceOK /\ Addressed(bulk)
    BY DEF SplitIInv, ChannelsOK, OwnerControl
  <1>2. PICK f : f = Head(splitCtl[r])
    OBVIOUS
  <1>3. /\ CtlOK' /\ f.slot \in SessionSlots /\ f \in Mine(splitCtl[r], f.slot)
        /\ Mine(splitCtl'[r], f.slot) = Mine(splitCtl[r], f.slot) \ {f}
        /\ \A p : p # f.slot => Mine(splitCtl'[r], p) = Mine(splitCtl[r], p)
        /\ \A x \in CtlPeers : x # r => splitCtl'[x] = splitCtl[x]
    BY <1>1, <1>2, CtlTaken DEF OwnerControl
  <1>4. Handle(f) /\ UNCHANGED <<token, ring, bulk, slice, wedged>> /\ ended = ""
    BY <1>2 DEF OwnerControl
  <1>5. TakesCtl(f.slot, r, f)
    BY <1>3, <1>4 DEF TakesCtl
  <1>6. ChannelsOK'
    BY <1>1, <1>3, <1>4 DEF ChannelsOK, SliceOK
  <1>7. \A p \in SessionSlots : p # f.slot => SameWire(p)
    <2> SUFFICES ASSUME NEW p \in SessionSlots, p # f.slot PROVE SameWire(p)
      OBVIOUS
    <2>1. \A x \in CtlPeers : Mine(splitCtl'[x], p) = Mine(splitCtl[x], p)
      <3> TAKE x \in CtlPeers
      <3>1. CASE x = r
        BY <3>1, <1>3
      <3>2. CASE x # r
        BY <3>2, <1>3
      <3> QED
        BY <3>1, <3>2
    <2> QED
      BY <2>1, <1>4 DEF SameWire
  <1> QED
    BY <1>3, <1>4, <1>5, <1>6, <1>7

\* So does the one it takes from rank 7.
LEMMA BulkArrives ==
    ASSUME SplitIInv, OwnerBulk
    PROVE  \E s \in SessionSlots : \E f \in Mine(bulk, s) :
              /\ TakesBulk(s, f) /\ Handle(f) /\ ChannelsOK'
              /\ \A p \in SessionSlots : p # s => SameWire(p)
  <1>1. CtlOK /\ bulk # <<>> /\ SliceOK /\ Addressed(bulk)
    BY DEF SplitIInv, ChannelsOK, OwnerBulk
  <1>2. PICK f : f = Head(bulk)
    OBVIOUS
  <1>3. /\ Addressed(Tail(bulk)) /\ f.slot \in SessionSlots /\ f \in Mine(bulk, f.slot)
        /\ Mine(Tail(bulk), f.slot) = Mine(bulk, f.slot) \ {f}
        /\ \A p : p # f.slot => Mine(Tail(bulk), p) = Mine(bulk, p)
    BY <1>1, <1>2, FrameTaken
  <1>4. /\ Handle(f) /\ UNCHANGED <<token, ring, splitCtl, slice, wedged>> /\ bulk' = Tail(bulk)
        /\ ended = ""
    BY <1>2 DEF OwnerBulk
  <1>5. TakesBulk(f.slot, f)
    BY <1>3, <1>4 DEF TakesBulk
  <1>6. ChannelsOK'
    BY <1>1, <1>3, <1>4 DEF ChannelsOK, SliceOK, CtlOK
  <1>7. \A p \in SessionSlots : p # f.slot => SameWire(p)
    BY <1>3, <1>4 DEF SameWire
  <1> QED
    BY <1>3, <1>4, <1>5, <1>6, <1>7

\* What a control frame of rank 0 can be.
LEMMA CtlPending ==
    ASSUME NEW s, SlotStage(s), NEW f \in Mine(splitCtl[0], s)
    PROVE  LET ph == token[s].phase IN
           \/ /\ f = BeginFrame(s) /\ SlotRest(s, {f}, <<>>, <<>>) /\ served[s] < token[s].ses
              /\ ph \in {"begin", "timeout", "lost"}
           \/ /\ f = HistFrame(s) /\ SlotRest(s, {f}, <<>>, <<>>) /\ served[s] = token[s].ses
              /\ ph \in {"history", "timeout", "lost"}
           \/ /\ f = WorkFrame(s) /\ SlotRest(s, {f}, <<>>, <<>>) /\ served[s] = token[s].ses
              /\ ph \in {"relay", "timeout", "lost"} /\ Synced(s)
           \/ /\ Choosing(s) /\ ph \in {"wait", "timeout", "lost"}
              /\ \/ Slicing(s) /\ f \in {ConfigFrame(s), PartFrame(s, 0)}
                 \/ Sampling(s) /\ f = ConfigFrame(s)
  <1>1. \A in, ack : ~SlotRest(s, {}, in, ack)
    BY DEF SlotRest
  <1>2. \A g : SlotRest(s, {g}, <<>>, <<>>) => f = g
    BY DEF SlotRest
  <1>3. CASE Opening(s) /\ token[s].phase \in {"begin", "timeout", "lost"}
    BY <1>1, <1>2, <1>3 DEF Opening
  <1>4. CASE Syncing(s) /\ token[s].phase \in {"history", "timeout", "lost"}
    BY <1>1, <1>2, <1>4 DEF Syncing
  <1>5. CASE Relaying(s) /\ token[s].phase \in {"relay", "timeout", "lost"}
    BY <1>1, <1>2, <1>5 DEF Relaying
  <1>6. CASE Choosing(s) /\ token[s].phase \in {"wait", "timeout", "lost"}
    BY <1>6 DEF Choosing, Slicing, SliceWith, Sampling, SampleWith
  <1> QED
    BY <1>1, <1>3, <1>4, <1>5, <1>6 DEF SlotStage, SlotResting, Chosen

\* Rank 4 handles the begin of a session,
LEMMA BeginArrives ==
    ASSUME OutputSplitAssumption, ShapesOK, NEW s \in SessionSlots, NEW f, TakesCtl(s, 0, f), Handle(f), f = BeginFrame(s),
           SlotRest(s, {f}, <<>>, <<>>), served[s] < token[s].ses
    PROVE  OwnerTouches(s) /\ Opening(s)'
  <1>1. f.slot = s /\ f.kind = "begin" /\ f.ses = token[s].ses
    BY FrameIs DEF BeginFrame
  <1>2. token[s].ses \in Nat /\ served[s] \in Nat
    <2>1. token[s].ses \in 1..(MaxBegins + 1) /\ MaxBegins \in Nat
      BY DEF ShapesOK, Tokens, Asks, OutputSplitAssumption
    <2>2. served[s] \in Nat
      BY DEF ShapesOK
    <2> QED
      BY <2>1, <2>2
  <1>3. /\ handoff' = [handoff EXCEPT ![s] = EmptyHandoff]
        /\ counts' = [counts EXCEPT ![s] = [v \in Vocab |-> 0]]
        /\ served' = [served EXCEPT ![s] = token[s].ses]
        /\ acks' = [acks EXCEPT ![s] = Append(@, "begin")] /\ UNCHANGED <<inbox, ended>>
    BY <1>1, <1>2 DEF Handle, HandleBegin, Acks
  <1>4. OwnerTouches(s)
    <2>1. counts' \in [SessionSlots -> [Vocab -> Nat]]
      BY <1>3 DEF ShapesOK
    <2>2. served' \in [SessionSlots -> Nat]
      BY <1>2, <1>3 DEF ShapesOK
    <2> QED
      BY <2>1, <2>2, <1>3 DEF OwnerTouches, ShapesOK, TakesCtl
  <1>5. /\ handoff'[s] = EmptyHandoff /\ served'[s] = token'[s].ses /\ acks'[s] = <<"begin">>
        /\ inbox'[s][4] = <<>> /\ inbox'[s][7] = <<>> /\ ring'[s] = NoHidden
    <2>1. acks[s] = <<>> /\ inbox[s][4] = <<>> /\ inbox[s][7] = <<>> /\ ring[s] = NoHidden
      BY DEF SlotRest, Calm
    <2> QED
      BY <2>1, <1>3, SingleFrame DEF ShapesOK, TakesCtl
  <1>6. /\ Mine(splitCtl'[0], s) = {} /\ Mine(bulk', s) = {}
        /\ \A r \in Helpers : Mine(splitCtl'[r], s) = {} /\ Mine(slice'[r], s) = {}
    BY DEF SlotRest, Calm, TakesCtl, CtlPeers, Helpers
  <1>7. SlotRest(s, {}, <<>>, <<"begin">>)'
    BY <1>5, <1>6 DEF SlotRest, Calm
  <1> QED
    BY <1>4, <1>5, <1>7 DEF Opening

\* the history of a penalised request,
LEMMA HistoryArrives ==
    ASSUME ShapesOK, NEW s \in SessionSlots, NEW f, TakesCtl(s, 0, f), Handle(f), f = HistFrame(s),
           SlotRest(s, {f}, <<>>, <<>>), served[s] = token[s].ses
    PROVE  OwnerTouches(s) /\ Syncing(s)'
  <1>1. f.slot = s /\ f.kind = "history" /\ f.ses = token[s].ses /\ f.body = token[s].hist
    BY FrameIs DEF HistFrame
  <1>2. ~Stale(f) /\ token[s].hist \in [Vocab -> Nat]
    BY <1>1 DEF Stale, ShapesOK, Tokens, Asks
  <1>3. /\ counts' = [counts EXCEPT ![s] = token[s].hist]
        /\ acks' = [acks EXCEPT ![s] = Append(@, "history")] /\ UNCHANGED <<handoff, inbox, served, ended>>
    BY <1>1, <1>2 DEF Handle, HandleHistory, Acks
  <1>4. OwnerTouches(s)
    <2>1. counts' \in [SessionSlots -> [Vocab -> Nat]]
      BY <1>2, <1>3 DEF ShapesOK
    <2> QED
      BY <2>1, <1>3 DEF OwnerTouches, ShapesOK, TakesCtl
  <1>5. /\ handoff'[s] = EmptyHandoff /\ acks'[s] = <<"history">> /\ counts'[s] = token[s].hist
        /\ inbox'[s][4] = <<>> /\ inbox'[s][7] = <<>> /\ ring'[s] = NoHidden
    <2>1. acks[s] = <<>> /\ inbox[s][4] = <<>> /\ inbox[s][7] = <<>> /\ ring[s] = NoHidden
          /\ handoff[s] = EmptyHandoff
      BY DEF SlotRest, Calm
    <2> QED
      BY <2>1, <1>3, SingleFrame DEF ShapesOK, TakesCtl
  <1>6. /\ Mine(splitCtl'[0], s) = {} /\ Mine(bulk', s) = {}
        /\ \A r \in Helpers : Mine(splitCtl'[r], s) = {} /\ Mine(slice'[r], s) = {}
    BY DEF SlotRest, Calm, TakesCtl, CtlPeers, Helpers
  <1>7. SlotRest(s, {}, <<>>, <<"history">>)'
    BY <1>5, <1>6 DEF SlotRest, Calm
  <1> QED
    BY <1>3, <1>4, <1>5, <1>7 DEF Syncing, Synced, TakesCtl

\* and the token after a prefill.
LEMMA WorkArrives ==
    ASSUME OutputSplitAssumption, ShapesOK, NEW s \in SessionSlots, NEW f, TakesCtl(s, 0, f), Handle(f),
           f = WorkFrame(s), SlotRest(s, {f}, <<>>, <<>>), served[s] = token[s].ses, Synced(s)
    PROVE  OwnerTouches(s) /\ Chosen(s)'
  <1>1. /\ f.slot = s /\ f.kind = "work" /\ f.ses = token[s].ses /\ f.body.tok = token[s].index
        /\ f.body.mode = token[s].mode /\ f.body.logits = token[s].logits
    BY DEF WorkFrame, TokenFrame
  <1>2. ~Stale(f)
    BY <1>1 DEF Stale
  <1>3. HandleWork(f)
    BY <1>1, <1>2 DEF Handle
  <1>4. PICK id \in Sample(token[s].mode, token[s].logits, counts[s]) :
           AnswerToken(s, token[s].index, id) /\ Counted(s, token[s].mode, id)
    BY <1>1, <1>3 DEF HandleWork
  <1>5. id \in Vocab /\ id \in Sample(token[s].mode, token[s].logits, token[s].hist)
    <2>1. /\ token[s].mode \in AllModes /\ token[s].logits \in LogitChoices
          /\ token[s].hist \in [Vocab -> Nat] /\ counts[s] \in [Vocab -> Nat]
      BY DEF Tokens, Asks, ShapesOK
    <2>2. Sample(token[s].mode, token[s].logits, token[s].hist) \subseteq Vocab
      BY <2>1, SampleIn
    <2>3. Sample(token[s].mode, token[s].logits, counts[s]) = Sample(token[s].mode, token[s].logits, token[s].hist)
      <3>1. CASE token[s].mode = "penalised"
        BY <3>1 DEF Synced
      <3>2. CASE token[s].mode # "penalised"
        BY <3>2, <2>1, SampleIn
      <3> QED
        BY <3>1, <3>2
    <2> QED
      BY <1>4, <2>2, <2>3
  <1>6. UNCHANGED <<token, ring, wedged, ended, acks, served, handoff>>
    BY <1>3 DEF HandleWork, TakesCtl
  <1>7. /\ Mine(splitCtl'[0], s) = {} /\ Mine(bulk', s) = {}
        /\ \A r \in Helpers : Mine(splitCtl'[r], s) = {} /\ Mine(slice'[r], s) = {}
    BY DEF SlotRest, Calm, TakesCtl, CtlPeers, Helpers
  <1>8. acks[s] = <<>> /\ inbox[s][4] = <<>> /\ inbox[s][7] = <<>> /\ ring[s] = NoHidden
        /\ handoff[s] = EmptyHandoff
    BY DEF SlotRest, Calm
  <1> QED
    BY <1>4, <1>5, <1>6, <1>7, <1>8, Answers

\* A flush sends no slice to rank 0.
LEMMA FlushInbox ==
    ASSUME ShapesOK, NEW s \in SessionSlots, NEW h, Flush(s, h)
    PROVE  inbox'[s][7] = inbox[s][7]
  <1>1. DOMAIN inbox = SessionSlots /\ DOMAIN inbox[s] = {4, 7}
    BY DEF ShapesOK
  <1>2. ASSUME NEW tok, NEW id, AnswerToken(s, tok, id) PROVE inbox'[s][7] = inbox[s][7]
    BY <1>1, <1>2 DEF AnswerToken
  <1>3. \/ UNCHANGED inbox
        \/ \E tok, id : AnswerToken(s, tok, id)
    BY DEF Flush
  <1> QED
    BY <1>2, <1>3

\* What rank 4 leaves alone when it takes a frame of rank 0.
LEMMA CtlRest ==
    ASSUME NEW s, NEW f, TakesCtl(s, 0, f)
    PROVE  /\ Mine(splitCtl'[0], s) = Mine(splitCtl[0], s) \ {f}
           /\ \A r \in Helpers : splitCtl'[r] = splitCtl[r]
           /\ UNCHANGED <<token, ring, bulk, slice, wedged>>
  <1>1. Helpers \subseteq CtlPeers \ {0}
    BY DEF Helpers, CtlPeers
  <1> QED
    BY <1>1 DEF TakesCtl

\* Rank 4 handles the configuration of a split token,
LEMMA ConfigSlice ==
    ASSUME OutputSplitAssumption, ShapesOK, NEW s \in SessionSlots, NEW f, TakesCtl(s, 0, f), Handle(f),
           f = ConfigFrame(s), Choosing(s), Slicing(s)
    PROVE  OwnerTouches(s) /\ (Choosing(s)' \/ Chosen(s)')
  <1>1. f.slot = s /\ f.kind = "config" /\ f.ses = token[s].ses /\ f.body = ConfigOf(s)
    BY FrameIs DEF ConfigFrame
  <1>2. ~Stale(f) /\ served[s] = token[s].ses /\ acks[s] = <<>> /\ inbox[s][4] = <<>>
    BY <1>1 DEF Stale, Choosing
  <1>3. Flush(s, HandoffConfig(handoff[s], ConfigOf(s))) /\ UNCHANGED <<acks, served, ended>>
    BY <1>1, <1>2 DEF Handle, HandleConfig
  <1>4. token[s] \in Tokens /\ token[s].index \in Nat /\ ConfigOf(s).tok = token[s].index
        /\ HiddenOf(s).tok = token[s].index /\ token[s].index # NoToken
    BY IndexIs DEF ShapesOK, ConfigOf, HiddenOf
  <1>5. PICK h : h = handoff[s]
    OBVIOUS
  <1>6. /\ h = Record4(NoConfig, NoHidden, h.hiddenSlice, h.local, h.remote)
        /\ h.hiddenSlice \in {NoHidden, HiddenOf(s)}
    BY <1>5 DEF Slicing, SliceWith, HandoffShape, Record4, TakesCtl
  <1>7. PICK k : k = HandoffConfig(h, ConfigOf(s))
    OBVIOUS
  <1>8. k = Record4(ConfigOf(s), NoHidden, h.hiddenSlice, Off, <<>>)
    BY <1>4, <1>6, <1>7, ConfigLands
  <1>9. k.config = ConfigOf(s) /\ k.hidden = NoHidden /\ k.hiddenSlice = h.hiddenSlice /\ k.remote = <<>>
    BY <1>8, RecordIs
  <1>10. /\ ConfigOf(s)' = ConfigOf(s) /\ HiddenOf(s)' = HiddenOf(s) /\ RingWork(s)' = RingWork(s)
         /\ ConfigFrame(s)' = ConfigFrame(s) /\ SliceFrame(s)' = SliceFrame(s)
         /\ \A x : PartOf(s, x)' = PartOf(s, x) /\ PartFrame(s, x)' = PartFrame(s, x)
    BY FramesSame DEF SameAsk, TakesCtl
  <1>11. k = [config |-> k.config, hidden |-> k.hidden, hiddenSlice |-> k.hiddenSlice,
              local |-> k.local, remote |-> k.remote]
    BY <1>8 DEF Record4
  <1>12. /\ Mine(splitCtl'[0], s) = Mine(splitCtl[0], s) \ {f}
         /\ \A r \in Helpers : splitCtl'[r] = splitCtl[r]
         /\ UNCHANGED <<token, ring, bulk, slice, wedged>>
    BY CtlRest
  <1>13. HandoffShape(s, k)'
    BY <1>9, <1>10, <1>11, <1>12 DEF HandoffShape, Slicing, SliceWith
  <1>14. RemoteOK(s, k)' /\ \A r : ~Has(k, r)
    BY <1>9 DEF RemoteOK, Has, IsSeq
  <1>15. inbox'[s][7] = inbox[s][7]
    BY <1>3, FlushInbox
  <1>16. SliceWith(s, k)'
    BY <1>5, <1>9, <1>10, <1>12, <1>13, <1>14, <1>15 DEF Slicing, SliceWith
  <1>17. Flush(s, k)
    BY <1>3, <1>5, <1>7
  <1> QED
    BY <1>2, <1>3, <1>12, <1>16, <1>17, FlushSlice

\* and that of a sampled one.
LEMMA ConfigSample ==
    ASSUME OutputSplitAssumption, ShapesOK, NEW s \in SessionSlots, NEW f, TakesCtl(s, 0, f), Handle(f),
           f = ConfigFrame(s), Choosing(s), Sampling(s)
    PROVE  OwnerTouches(s) /\ (Choosing(s)' \/ Chosen(s)')
  <1>1. f.slot = s /\ f.kind = "config" /\ f.ses = token[s].ses /\ f.body = ConfigOf(s)
    BY FrameIs DEF ConfigFrame
  <1>2. ~Stale(f) /\ served[s] = token[s].ses /\ acks[s] = <<>> /\ inbox[s][4] = <<>> /\ Synced(s)
    BY <1>1 DEF Stale, Choosing
  <1>3. Flush(s, HandoffConfig(handoff[s], ConfigOf(s))) /\ UNCHANGED <<acks, served, ended>>
    BY <1>1, <1>2 DEF Handle, HandleConfig
  <1>4. token[s] \in Tokens /\ token[s].index \in Nat /\ ConfigOf(s).tok = token[s].index
        /\ HiddenOf(s).tok = token[s].index /\ token[s].index # NoToken
    BY IndexIs DEF ShapesOK, ConfigOf, HiddenOf
  <1>5. PICK h : h = handoff[s]
    OBVIOUS
  <1>6. /\ h = Record4(NoConfig, h.hidden, NoHidden, h.local, h.remote)
        /\ h.hidden \in {NoHidden, HiddenOf(s)}
    BY <1>5 DEF Sampling, SampleWith, HandoffShape, Record4, TakesCtl
  <1>7. PICK k : k = HandoffConfig(h, ConfigOf(s))
    OBVIOUS
  <1>8. k = Record4(ConfigOf(s), h.hidden, NoHidden, Off, <<>>)
    BY <1>4, <1>6, <1>7, ConfigLands
  <1>9. k.config = ConfigOf(s) /\ k.hiddenSlice = NoHidden /\ k.hidden = h.hidden /\ k.remote = <<>>
    BY <1>8, RecordIs
  <1>10. /\ ConfigOf(s)' = ConfigOf(s) /\ HiddenOf(s)' = HiddenOf(s) /\ RingWork(s)' = RingWork(s)
         /\ ConfigFrame(s)' = ConfigFrame(s) /\ HiddenFrame(s)' = HiddenFrame(s)
    BY FramesSame DEF SameAsk, TakesCtl
  <1>11. k = [config |-> k.config, hidden |-> k.hidden, hiddenSlice |-> k.hiddenSlice,
              local |-> k.local, remote |-> k.remote]
    BY <1>8 DEF Record4
  <1>12. /\ Mine(splitCtl'[0], s) = Mine(splitCtl[0], s) \ {f}
         /\ \A r \in Helpers : splitCtl'[r] = splitCtl[r]
         /\ UNCHANGED <<token, ring, bulk, slice, wedged>>
    BY CtlRest
  <1>13. HandoffShape(s, k)'
    BY <1>9, <1>10, <1>11, <1>12 DEF HandoffShape, Sampling, SampleWith
  <1>14. inbox'[s][7] = inbox[s][7]
    BY <1>3, FlushInbox
  <1>15. k.local = Off
    BY <1>8 DEF Record4
  <1>16. k.local = FALSE
    BY <1>15, Zenon DEF Off
  <1>17. /\ k.hiddenSlice = NoHidden /\ k.hidden \in {NoHidden, HiddenOf(s)'}
         /\ k.remote = <<>> /\ token'[s].mode # "greedy"
    BY <1>6, <1>9, <1>10, <1>12 DEF Sampling, SampleWith
  <1>18. /\ Mine(splitCtl'[0], s) \subseteq {ConfigFrame(s)'} /\ Mine(bulk', s) \subseteq {HiddenFrame(s)'}
         /\ inbox'[s][7] = <<>>
         /\ \A r \in Helpers : Mine(slice'[r], s) = {} /\ Mine(splitCtl'[r], s) = {}
         /\ k.hidden # NoHidden => Mine(bulk', s) = {}
         /\ ring'[s] # NoHidden => k.hidden = NoHidden /\ Mine(bulk', s) = {}
    BY <1>5, <1>9, <1>10, <1>12, <1>14 DEF Sampling, SampleWith
  <1>19. SampleWith(s, k)'
    BY <1>13, <1>16, <1>17, <1>18, Zenon DEF SampleWith
  <1>20. Flush(s, k)
    BY <1>3, <1>5, <1>7
  <1> QED
    BY <1>2, <1>3, <1>12, <1>19, <1>20, FlushSample

\* The channels of a split token once a partial of rank r is taken.
LEMMA WireAfterPart ==
    ASSUME NEW s, NEW r \in CtlPeers, NEW f, TakesCtl(s, r, f), f = PartFrame(s, r), Slicing(s)
    PROVE  /\ Mine(splitCtl'[0], s) \subseteq Mine(splitCtl[0], s)
           /\ \A x \in Helpers : Mine(splitCtl'[x], s) \subseteq Mine(splitCtl[x], s)
           /\ r = 0 => f \notin Mine(splitCtl'[0], s) /\ inbox[s][7] = <<>>
           /\ r \in Helpers => Mine(splitCtl'[r], s) = {} /\ Mine(slice[r], s) = {}
           /\ ~Has(handoff[s], r) /\ ring[s] = NoHidden
           /\ UNCHANGED <<token, ring, bulk, slice, wedged>>
  <1>1. 0 \in CtlPeers /\ Helpers \subseteq CtlPeers /\ (r = 0 \/ r \in Helpers) /\ 0 \notin Helpers
    BY DEF CtlPeers, Helpers
  <1>2. \A x \in CtlPeers : Mine(splitCtl'[x], s) \subseteq Mine(splitCtl[x], s)
    <2> TAKE x \in CtlPeers
    <2>1. CASE x = r
      BY <2>1 DEF TakesCtl
    <2>2. CASE x # r
      BY <2>2 DEF TakesCtl
    <2> QED
      BY <2>1, <2>2
  <1>3. /\ Mine(splitCtl'[r], s) = Mine(splitCtl[r], s) \ {f} /\ f \in Mine(splitCtl[r], s)
        /\ UNCHANGED <<token, ring, bulk, slice, wedged>>
    BY DEF TakesCtl
  <1>4. CASE r = 0
    BY <1>1, <1>2, <1>3, <1>4 DEF Slicing, SliceWith
  <1>5. CASE r \in Helpers
    BY <1>1, <1>2, <1>3, <1>5 DEF Slicing, SliceWith
  <1> QED
    BY <1>1, <1>4, <1>5

\* The token's situation goes on with the record k of rank 4, in which rank r may have answered.
LEMMA SliceMore ==
    ASSUME NEW s, NEW r \in CtlPeers, NEW f, TakesCtl(s, r, f), f = PartFrame(s, r), Slicing(s),
           NEW k, RemoteOK(s, k), \A x : Has(k, x) => Has(handoff[s], x) \/ x = r,
           k = [config |-> k.config, hidden |-> k.hidden, hiddenSlice |-> k.hiddenSlice,
                local |-> k.local, remote |-> k.remote],
           k.config = handoff[s].config, k.hidden = handoff[s].hidden,
           k.hiddenSlice = handoff[s].hiddenSlice, k.config = NoConfig => k.remote = <<>>,
           inbox'[s][7] = inbox[s][7]
    PROVE  SliceWith(s, k)'
  <1>1. /\ Mine(splitCtl'[0], s) \subseteq Mine(splitCtl[0], s)
        /\ \A x \in Helpers : Mine(splitCtl'[x], s) \subseteq Mine(splitCtl[x], s)
        /\ r = 0 => f \notin Mine(splitCtl'[0], s) /\ inbox[s][7] = <<>>
        /\ r \in Helpers => Mine(splitCtl'[r], s) = {} /\ Mine(slice[r], s) = {}
        /\ ring[s] = NoHidden
        /\ UNCHANGED <<token, ring, bulk, slice, wedged>>
    BY WireAfterPart
  <1>2. /\ ConfigOf(s)' = ConfigOf(s) /\ HiddenOf(s)' = HiddenOf(s) /\ RingWork(s)' = RingWork(s)
        /\ ConfigFrame(s)' = ConfigFrame(s) /\ SliceFrame(s)' = SliceFrame(s)
        /\ \A x : PartOf(s, x)' = PartOf(s, x) /\ PartFrame(s, x)' = PartFrame(s, x)
    BY <1>1, FramesSame DEF SameAsk
  <1>3. HandoffShape(s, k)'
    BY <1>1, <1>2 DEF Slicing, SliceWith, HandoffShape
  <1>4. RemoteOK(s, k)'
    BY <1>2 DEF RemoteOK
  <1>5. Has(k, 0) => inbox'[s][7] = <<>> /\ PartFrame(s, 0) \notin Mine(splitCtl'[0], s)
    <2>1. CASE r = 0
      BY <2>1, <1>1
    <2>2. CASE r # 0
      BY <2>2, <1>1 DEF Slicing, SliceWith
    <2> QED
      BY <2>1, <2>2
  <1>6. ASSUME NEW x \in Helpers
        PROVE  /\ Mine(slice'[x], s) \subseteq {SliceFrame(s)}
               /\ Mine(splitCtl'[x], s) \subseteq {PartFrame(s, x)}
               /\ Mine(slice'[x], s) # {} => Mine(splitCtl'[x], s) = {}
               /\ Has(k, x) => Mine(slice'[x], s) = {} /\ Mine(splitCtl'[x], s) = {}
    <2>0. /\ Mine(slice[x], s) \subseteq {SliceFrame(s)}
          /\ Mine(splitCtl[x], s) \subseteq {PartFrame(s, x)}
          /\ Mine(slice[x], s) # {} => Mine(splitCtl[x], s) = {}
          /\ Has(handoff[s], x) => Mine(slice[x], s) = {} /\ Mine(splitCtl[x], s) = {}
          /\ Mine(splitCtl'[x], s) \subseteq Mine(splitCtl[x], s) /\ slice' = slice
      BY <1>1 DEF Slicing, SliceWith
    <2>1. CASE x = r
      BY <2>0, <2>1, <1>1
    <2>2. CASE x # r
      BY <2>0, <2>2
    <2> QED
      BY <2>1, <2>2
  <1>7. /\ token'[s].mode = "greedy" /\ k.hidden = NoHidden /\ k.hiddenSlice \in {NoHidden, HiddenOf(s)}
        /\ Mine(splitCtl'[0], s) \subseteq {ConfigFrame(s), PartFrame(s, 0)}
        /\ Mine(bulk', s) \subseteq {SliceFrame(s)}
        /\ inbox'[s][7] \in {<<>>, <<SliceFrame(s)>>}
        /\ k.hiddenSlice # NoHidden => Mine(bulk', s) = {}
        /\ inbox'[s][7] # <<>> => PartFrame(s, 0) \notin Mine(splitCtl'[0], s)
        /\ ring'[s] = NoHidden
    BY <1>1 DEF Slicing, SliceWith
  <1> QED
    BY <1>2, <1>3, <1>4, <1>5, <1>6, <1>7 DEF SliceWith

\* Rank 4 handles a partial: without a configuration it is dropped, and it is never one of
\* another token or of a rank that has answered already.
LEMMA PartialArrives ==
    ASSUME OutputSplitAssumption, ShapesOK, NEW s \in SessionSlots, NEW r \in CtlPeers, NEW f,
           TakesCtl(s, r, f), Handle(f), f = PartFrame(s, r), Choosing(s), Slicing(s)
    PROVE  OwnerTouches(s) /\ (Choosing(s)' \/ Chosen(s)')
  <1>1. /\ f.slot = s /\ f.kind = "partial" /\ f.ses = token[s].ses
        /\ f.body.tok = token[s].index /\ f.body.part = PartOf(s, r)
    BY DEF PartFrame, TokenFrame
  <1>2. /\ ~Stale(f) /\ served[s] = token[s].ses /\ acks[s] = <<>> /\ inbox[s][4] = <<>>
        /\ Synced(s)
    BY <1>1 DEF Stale, Choosing
  <1>3. HandlePartial(f)
    BY <1>1, <1>2 DEF Handle
  <1>4. token[s] \in Tokens /\ token[s].index # NoToken
    BY IndexIs DEF ShapesOK
  <1>5. PICK h : h = handoff[s]
    OBVIOUS
  <1>6. /\ h = [config |-> h.config, hidden |-> h.hidden, hiddenSlice |-> h.hiddenSlice,
                local |-> h.local, remote |-> h.remote]
        /\ h.config \in {NoConfig, ConfigOf(s)} /\ RemoteOK(s, h) /\ (h.config = NoConfig => h.remote = <<>>)
    BY <1>5 DEF Slicing, SliceWith, HandoffShape
  <1>7. ~Has(h, r) /\ UNCHANGED <<token, ring, bulk, slice, wedged>>
    BY <1>5, WireAfterPart
  <1>8. CASE h.config.tok = NoToken
    <2>1. UNCHANGED <<handoff, counts, inbox, acks, served, ended>>
      BY <1>1, <1>3, <1>5, <1>8 DEF HandlePartial
    <2>2. SliceWith(s, h)'
      BY <2>1, <1>5, <1>6, SliceMore
    <2>3. OwnerTouches(s)
      BY <2>1, <1>7 DEF OwnerTouches, ShapesOK
    <2>4. Slicing(s)'
      BY <2>1, <2>2, <1>5 DEF Slicing
    <2> QED
      BY <2>1, <2>3, <2>4, <1>2, <1>7 DEF Choosing, Synced
  <1>9. CASE h.config.tok # NoToken
    <2>1. h.config = ConfigOf(s) /\ h.config.tok = token[s].index
      BY <1>6, <1>9 DEF NoConfig, ConfigOf
    <2>2. Len(h.remote) \in 0..2
      BY <1>4, <1>6, <1>7, RoomForPartial
    <2>3. PICK k : k = [h EXCEPT !.remote = Append(h.remote, PartOf(s, r))]
      OBVIOUS
    <2>4. /\ k = [config |-> h.config, hidden |-> h.hidden, hiddenSlice |-> h.hiddenSlice,
                  local |-> h.local, remote |-> Append(h.remote, PartOf(s, r))]
      BY <2>3, <1>6
    <2>5. /\ k.config = h.config /\ k.hidden = h.hidden /\ k.hiddenSlice = h.hiddenSlice
          /\ k.remote = Append(h.remote, PartOf(s, r))
          /\ k = [config |-> k.config, hidden |-> k.hidden, hiddenSlice |-> k.hiddenSlice,
                  local |-> k.local, remote |-> k.remote]
      BY <2>4
    <2>6. RemoteOK(s, k) /\ \A x : Has(k, x) <=> Has(h, x) \/ x = r
      BY <2>5, <1>4, <1>6, <1>7, PartialAdded
    <2>7. Flush(s, k) /\ UNCHANGED <<acks, served, ended>>
      <3>1. ~(f.body.tok # h.config.tok \/ Len(h.remote) >= Ways)
        <4>1. PICK n \in 0..2 : n = Len(h.remote)
          BY <2>2
        <4>2. \A i \in 0..2 : ~(i >= 4)
          OBVIOUS
        <4> QED
          BY <4>1, <4>2, <2>1, <1>1, SplitIs
      <3> QED
        BY <3>1, <2>3, <1>1, <1>3, <1>5, <1>9 DEF HandlePartial
    <2>8. inbox'[s][7] = inbox[s][7]
      BY <2>7, FlushInbox
    <2>9. k.config # NoConfig
      BY <2>5, <1>9 DEF NoConfig
    <2>10. SliceWith(s, k)'
      BY <2>5, <2>6, <2>8, <2>9, <1>5, SliceMore
    <2> QED
      BY <2>7, <2>10, <1>2, <1>7, FlushSlice
  <1> QED
    BY <1>8, <1>9

\* Rank 4 handles the hidden state of a split token,
LEMMA SliceArrives ==
    ASSUME OutputSplitAssumption, ShapesOK, NEW s \in SessionSlots, NEW f,
           TakesBulk(s, f), Handle(f), f = SliceFrame(s), Choosing(s), Slicing(s)
    PROVE  OwnerTouches(s) /\ (Choosing(s)' \/ Chosen(s)')
  <1>1. f.slot = s /\ f.kind = "slice" /\ f.ses = token[s].ses /\ f.body = HiddenOf(s)
    BY FrameIs DEF SliceFrame
  <1>2. /\ ~Stale(f) /\ served[s] = token[s].ses /\ acks[s] = <<>> /\ inbox[s][4] = <<>>
    BY <1>1 DEF Stale, Choosing
  <1>3. /\ Flush(s, HandoffHidden(handoff[s], "hiddenSlice", "hidden", HiddenOf(s)))
        /\ UNCHANGED <<acks, served, ended>>
    <2>1. HandleHidden(f)
      BY <1>1, <1>2 DEF Handle
    <2> QED
      BY <2>1, <1>1 DEF HandleHidden
  <1>4. token[s] \in Tokens /\ token[s].index \in Nat /\ ConfigOf(s).tok = token[s].index
        /\ HiddenOf(s).tok = token[s].index /\ token[s].index # NoToken
    BY IndexIs DEF ShapesOK, ConfigOf, HiddenOf
  <1>5. PICK h : h = handoff[s]
    OBVIOUS
  <1>6. f \in Mine(bulk, s) /\ UNCHANGED <<token, ring, splitCtl, slice, wedged>>
        /\ Mine(bulk', s) = Mine(bulk, s) \ {f}
    BY DEF TakesBulk
  <1>7. h.hiddenSlice = NoHidden /\ ring[s] = NoHidden /\ Mine(bulk', s) = {}
    BY <1>5, <1>6 DEF Slicing, SliceWith
  <1>8. /\ h = Record4(h.config, NoHidden, NoHidden, h.local, h.remote)
        /\ h.config \in {NoConfig, ConfigOf(s)} /\ (h.config = NoConfig => h.remote = <<>>)
    BY <1>5, <1>7 DEF Slicing, SliceWith, HandoffShape, Record4
  <1>9. PICK k : k = HandoffHidden(h, "hiddenSlice", "hidden", HiddenOf(s))
    OBVIOUS
  <1>10. k = IF h.config = NoConfig THEN Record4(h.config, NoHidden, HiddenOf(s), Off, <<>>)
             ELSE Record4(h.config, NoHidden, HiddenOf(s), h.local, h.remote)
    BY <1>4, <1>8, <1>9, SliceLands
  <1>11. /\ k.config = h.config /\ k.hidden = NoHidden /\ k.hiddenSlice = HiddenOf(s) /\ k.remote = h.remote
    BY <1>8, <1>10, RecordIs
  <1>12. k = [config |-> k.config, hidden |-> k.hidden, hiddenSlice |-> k.hiddenSlice,
              local |-> k.local, remote |-> k.remote]
    BY <1>10 DEF Record4
  <1>13. /\ ConfigOf(s)' = ConfigOf(s) /\ HiddenOf(s)' = HiddenOf(s) /\ RingWork(s)' = RingWork(s)
         /\ ConfigFrame(s)' = ConfigFrame(s) /\ SliceFrame(s)' = SliceFrame(s)
         /\ \A x : PartOf(s, x)' = PartOf(s, x) /\ PartFrame(s, x)' = PartFrame(s, x)
    BY <1>6, FramesSame DEF SameAsk
  <1>14. HandoffShape(s, k)'
    BY <1>5, <1>6, <1>11, <1>12, <1>13 DEF HandoffShape, Slicing, SliceWith
  <1>15. RemoteOK(s, k)' /\ \A r : Has(k, r) <=> Has(h, r)
    BY <1>5, <1>11, <1>13 DEF Slicing, SliceWith, RemoteOK, Has
  <1>16. Flush(s, k)
    BY <1>3, <1>5, <1>9
  <1>17. inbox'[s][7] = inbox[s][7]
    BY <1>16, FlushInbox
  <1>18. SliceWith(s, k)'
    BY <1>5, <1>6, <1>7, <1>8, <1>11, <1>13, <1>14, <1>15, <1>17 DEF Slicing, SliceWith
  <1> QED
    BY <1>2, <1>3, <1>6, <1>16, <1>18, FlushSlice

\* and that of a sampled one.
LEMMA HiddenArrives ==
    ASSUME OutputSplitAssumption, ShapesOK, NEW s \in SessionSlots, NEW f,
           TakesBulk(s, f), Handle(f), f = HiddenFrame(s), Choosing(s), Sampling(s)
    PROVE  OwnerTouches(s) /\ (Choosing(s)' \/ Chosen(s)')
  <1>1. f.slot = s /\ f.kind = "hidden" /\ f.ses = token[s].ses /\ f.body = HiddenOf(s)
    BY FrameIs DEF HiddenFrame
  <1>2. /\ ~Stale(f) /\ served[s] = token[s].ses /\ acks[s] = <<>> /\ inbox[s][4] = <<>> /\ Synced(s)
    BY <1>1 DEF Stale, Choosing
  <1>3. /\ Flush(s, HandoffHidden(handoff[s], "hidden", "hiddenSlice", HiddenOf(s)))
        /\ UNCHANGED <<acks, served, ended>>
    <2>1. HandleHidden(f)
      BY <1>1, <1>2 DEF Handle
    <2> QED
      BY <2>1, <1>1 DEF HandleHidden
  <1>4. token[s] \in Tokens /\ token[s].index \in Nat /\ ConfigOf(s).tok = token[s].index
        /\ HiddenOf(s).tok = token[s].index /\ token[s].index # NoToken
    BY IndexIs DEF ShapesOK, ConfigOf, HiddenOf
  <1>5. PICK h : h = handoff[s]
    OBVIOUS
  <1>6. f \in Mine(bulk, s) /\ UNCHANGED <<token, ring, splitCtl, slice, wedged>>
        /\ Mine(bulk', s) = Mine(bulk, s) \ {f}
    BY DEF TakesBulk
  <1>7. h.hidden = NoHidden /\ ring[s] = NoHidden /\ Mine(bulk', s) = {}
    BY <1>5, <1>6 DEF Sampling, SampleWith
  <1>71. h.local = Off
    BY <1>5, Zenon DEF Sampling, SampleWith, Off
  <1>8. /\ h = Record4(h.config, NoHidden, NoHidden, Off, <<>>)
        /\ h.config \in {NoConfig, ConfigOf(s)}
    BY <1>5, <1>7, <1>71 DEF Sampling, SampleWith, HandoffShape, Record4
  <1>9. PICK k : k = HandoffHidden(h, "hidden", "hiddenSlice", HiddenOf(s))
    OBVIOUS
  <1>10. k = Record4(h.config, HiddenOf(s), NoHidden, Off, <<>>)
    BY <1>4, <1>8, <1>9, HiddenLands
  <1>11. /\ k.config = h.config /\ k.hiddenSlice = NoHidden /\ k.hidden = HiddenOf(s) /\ k.remote = <<>>
    BY <1>10, RecordIs
  <1>12. k.local = Off /\ k = [config |-> k.config, hidden |-> k.hidden, hiddenSlice |-> k.hiddenSlice,
              local |-> k.local, remote |-> k.remote]
    BY <1>10 DEF Record4
  <1>13. /\ ConfigOf(s)' = ConfigOf(s) /\ HiddenOf(s)' = HiddenOf(s) /\ RingWork(s)' = RingWork(s)
         /\ ConfigFrame(s)' = ConfigFrame(s) /\ HiddenFrame(s)' = HiddenFrame(s)
    BY <1>6, FramesSame DEF SameAsk
  <1>14. HandoffShape(s, k)'
    BY <1>5, <1>6, <1>11, <1>12, <1>13 DEF HandoffShape, Sampling, SampleWith
  <1>15. k.local = FALSE
    BY <1>12, Zenon DEF Off
  <1>16. Flush(s, k)
    BY <1>3, <1>5, <1>9
  <1>17. inbox'[s][7] = inbox[s][7]
    BY <1>16, FlushInbox
  <1>18. /\ k.hiddenSlice = NoHidden /\ k.hidden \in {NoHidden, HiddenOf(s)'}
         /\ k.remote = <<>> /\ token'[s].mode # "greedy"
    BY <1>6, <1>11, <1>13 DEF Sampling, SampleWith
  <1>19. /\ Mine(splitCtl'[0], s) \subseteq {ConfigFrame(s)'} /\ Mine(bulk', s) \subseteq {HiddenFrame(s)'}
         /\ inbox'[s][7] = <<>>
         /\ \A r \in Helpers : Mine(slice'[r], s) = {} /\ Mine(splitCtl'[r], s) = {}
         /\ k.hidden # NoHidden => Mine(bulk', s) = {}
         /\ ring'[s] # NoHidden => k.hidden = NoHidden /\ Mine(bulk', s) = {}
    BY <1>6, <1>7, <1>13, <1>17 DEF Sampling, SampleWith
  <1>20. SampleWith(s, k)'
    BY <1>14, <1>15, <1>18, <1>19, Zenon DEF SampleWith
  <1> QED
    BY <1>2, <1>3, <1>6, <1>16, <1>20, FlushSample

\* Rank 4 takes a frame of rank 0,
LEMMA HostControlKeeps ==
    ASSUME OutputSplitAssumption, SplitIInv, OwnerControl(0)
    PROVE  SplitIInv'
  <1>1. PICK s \in SessionSlots : \E f \in Mine(splitCtl[0], s) :
              /\ TakesCtl(s, 0, f) /\ Handle(f) /\ ChannelsOK'
              /\ \A p \in SessionSlots : p # s => SameWire(p)
    BY CtlArrives DEF CtlPeers
  <1>2. PICK f \in Mine(splitCtl[0], s) :
              /\ TakesCtl(s, 0, f) /\ Handle(f) /\ ChannelsOK'
              /\ \A p \in SessionSlots : p # s => SameWire(p)
    BY <1>1
  <1>3. ShapesOK /\ SlotStage(s) /\ token' = token
    BY <1>2, SlotOf DEF SplitIInv, TakesCtl
  <1>4. CASE f = BeginFrame(s) /\ SlotRest(s, {f}, <<>>, <<>>) /\ served[s] < token[s].ses
             /\ token[s].phase \in {"begin", "timeout", "lost"}
    <2>1. OwnerTouches(s) /\ Opening(s)'
      BY <1>2, <1>3, <1>4, BeginArrives
    <2>2. SlotStage(s)'
      BY <2>1, <1>3, <1>4 DEF SlotStage
    <2> QED
      BY <2>1, <2>2, <1>2, OwnerSlot
  <1>5. CASE f = HistFrame(s) /\ SlotRest(s, {f}, <<>>, <<>>) /\ served[s] = token[s].ses
             /\ token[s].phase \in {"history", "timeout", "lost"}
    <2>1. OwnerTouches(s) /\ Syncing(s)'
      BY <1>2, <1>3, <1>5, HistoryArrives
    <2>2. SlotStage(s)'
      BY <2>1, <1>3, <1>5 DEF SlotStage
    <2> QED
      BY <2>1, <2>2, <1>2, OwnerSlot
  <1>6. CASE f = WorkFrame(s) /\ SlotRest(s, {f}, <<>>, <<>>) /\ served[s] = token[s].ses
             /\ token[s].phase \in {"relay", "timeout", "lost"} /\ Synced(s)
    <2>1. OwnerTouches(s) /\ Chosen(s)'
      BY <1>2, <1>3, <1>6, WorkArrives
    <2>2. SlotStage(s)'
      BY <2>1, <1>3, <1>6 DEF SlotStage
    <2> QED
      BY <2>1, <2>2, <1>2, OwnerSlot
  <1>7. CASE /\ Choosing(s) /\ token[s].phase \in {"wait", "timeout", "lost"}
             /\ \/ Slicing(s) /\ f \in {ConfigFrame(s), PartFrame(s, 0)}
                \/ Sampling(s) /\ f = ConfigFrame(s)
    <2>1. OwnerTouches(s) /\ (Choosing(s)' \/ Chosen(s)')
      <3>1. 0 \in CtlPeers
        BY DEF CtlPeers
      <3> QED
        BY <3>1, <1>2, <1>3, <1>7, ConfigSlice, PartialArrives, ConfigSample
    <2>2. SlotStage(s)'
      BY <2>1, <1>3, <1>7 DEF SlotStage
    <2> QED
      BY <2>1, <2>2, <1>2, OwnerSlot
  <1> QED
    BY <1>2, <1>3, <1>4, <1>5, <1>6, <1>7, CtlPending

\* of a helper,
LEMMA HelperControlKeeps ==
    ASSUME OutputSplitAssumption, SplitIInv, NEW r \in Helpers, OwnerControl(r)
    PROVE  SplitIInv'
  <1>0. r \in CtlPeers
    BY DEF Helpers, CtlPeers
  <1>1. PICK s \in SessionSlots : \E f \in Mine(splitCtl[r], s) :
              /\ TakesCtl(s, r, f) /\ Handle(f) /\ ChannelsOK'
              /\ \A p \in SessionSlots : p # s => SameWire(p)
    BY <1>0, CtlArrives
  <1>2. PICK f \in Mine(splitCtl[r], s) :
              /\ TakesCtl(s, r, f) /\ Handle(f) /\ ChannelsOK'
              /\ \A p \in SessionSlots : p # s => SameWire(p)
    BY <1>1
  <1>3. ShapesOK /\ SlotStage(s) /\ token' = token
    BY <1>2, SlotOf DEF SplitIInv, TakesCtl
  <1>4. Choosing(s) /\ Slicing(s) /\ token[s].phase \in {"wait", "timeout", "lost"}
    BY <1>2, <1>3, SlicePending
  <1>5. f = PartFrame(s, r)
    BY <1>2, <1>4 DEF Slicing, SliceWith
  <1>6. OwnerTouches(s) /\ (Choosing(s)' \/ Chosen(s)')
    BY <1>0, <1>2, <1>3, <1>4, <1>5, PartialArrives
  <1>7. SlotStage(s)'
    BY <1>3, <1>4, <1>6 DEF SlotStage
  <1> QED
    BY <1>2, <1>6, <1>7, OwnerSlot

\* or of rank 7.
LEMMA BulkKeeps ==
    ASSUME OutputSplitAssumption, SplitIInv, OwnerBulk
    PROVE  SplitIInv'
  <1>1. PICK s \in SessionSlots : \E f \in Mine(bulk, s) :
              /\ TakesBulk(s, f) /\ Handle(f) /\ ChannelsOK'
              /\ \A p \in SessionSlots : p # s => SameWire(p)
    BY BulkArrives
  <1>2. PICK f \in Mine(bulk, s) :
              /\ TakesBulk(s, f) /\ Handle(f) /\ ChannelsOK'
              /\ \A p \in SessionSlots : p # s => SameWire(p)
    BY <1>1
  <1>3. ShapesOK /\ SlotStage(s) /\ token' = token
    BY <1>2, SlotOf DEF SplitIInv, TakesBulk
  <1>4. Choosing(s) /\ token[s].phase \in {"wait", "timeout", "lost"}
    BY <1>2, <1>3, RingPending
  <1>5. OwnerTouches(s) /\ (Choosing(s)' \/ Chosen(s)')
    <2>1. CASE Slicing(s)
      <3>1. f = SliceFrame(s)
        BY <2>1, <1>2 DEF Slicing, SliceWith
      <3> QED
        BY <2>1, <3>1, <1>2, <1>3, <1>4, SliceArrives
    <2>2. CASE Sampling(s)
      <3>1. f = HiddenFrame(s)
        BY <2>2, <1>2 DEF Sampling, SampleWith
      <3> QED
        BY <2>2, <3>1, <1>2, <1>3, <1>4, HiddenArrives
    <2> QED
      BY <2>1, <2>2, <1>4 DEF Choosing
  <1>6. SlotStage(s)'
    BY <1>3, <1>4, <1>5 DEF SlotStage
  <1> QED
    BY <1>2, <1>5, <1>6, OwnerSlot

\* Every step preserves the invariant.
LEMMA SplitStep ==
    ASSUME OutputSplitAssumption, SplitIInv, [SplitNext]_splitVars
    PROVE  SplitIInv'
  <1>1. ASSUME NEW s \in SessionSlots, TokenStep(s) PROVE SplitIInv'
    <2>1. CASE Acknowledged(s)
      BY <2>1, AckKeeps
    <2>2. CASE HostSlice(s)
      BY <2>2, HostSliceKeeps
    <2>3. CASE HostResult(s)
      BY <2>3, ResultKeeps
    <2>4. CASE HostTimeout(s)
      <3>1. "timeout" \in Phases
        BY DEF Phases
      <3> QED
        BY <2>4, <3>1, PhaseStepKeeps DEF HostTimeout, TokenFails
    <2>5. CASE HostPeerLost(s)
      <3>1. "lost" \in Phases
        BY DEF Phases
      <3> QED
        BY <2>5, <3>1, PhaseStepKeeps DEF HostPeerLost, TokenFails
    <2>6. CASE \E l \in LogitChoices : Relay(s, l)
      BY <2>6, RelayKeeps
    <2> QED
      BY <1>1, <2>1, <2>2, <2>3, <2>4, <2>5, <2>6 DEF TokenStep
  <1>2. ASSUME NEW s \in SessionSlots, FinalOwner(s) PROVE SplitIInv'
    BY <1>2, FinalOwnerKeeps
  <1>3. ASSUME NEW s \in SessionSlots, NEW m \in SamplerModes, StartRequest(s, m) PROVE SplitIInv'
    BY <1>3, StartKeeps
  <1>4. ASSUME NEW s \in SessionSlots, NEW l \in LogitChoices, DecodeToken(s, l) PROVE SplitIInv'
    BY <1>4, DecodeTokenKeeps
  <1>5. ASSUME NEW s \in SessionSlots, EndRequest(s) PROVE SplitIInv'
    <2>1. "idle" \in Phases
      BY DEF Phases
    <2> QED
      BY <1>5, <2>1, PhaseStepKeeps DEF EndRequest
  <1>6. ASSUME NEW s \in SessionSlots, BeginSession(s) PROVE SplitIInv'
    BY <1>6, BeginKeeps
  <1>7. ASSUME NEW r \in Helpers, HelperSlice(r) PROVE SplitIInv'
    BY <1>7, HelperKeeps
  <1>8. ASSUME OwnerStep PROVE SplitIInv'
    <2>1. CASE OwnerControl(0)
      BY <2>1, HostControlKeeps
    <2>2. ASSUME NEW r \in Helpers, OwnerControl(r) PROVE SplitIInv'
      BY <2>2, HelperControlKeeps
    <2>3. CASE OwnerBulk
      BY <2>3, BulkKeeps
    <2>4. CASE OwnerTimeout
      <3>1. wedged \subseteq Helpers \cup {7}
        BY DEF SplitIInv, ShapesOK
      <3> QED
        BY <2>4, <3>1, QuietStepKeeps DEF OwnerTimeout, OwnerEnds
    <2> QED
      BY <1>8, <2>1, <2>2, <2>3, <2>4 DEF OwnerStep
  <1>9. ASSUME NEW r \in Helpers \cup {7}, Wedge(r) PROVE SplitIInv'
    <2>1. wedged' \subseteq Helpers \cup {7} /\ ended' \in {"", "timeout"}
      BY <1>9 DEF SplitIInv, ShapesOK, Wedge
    <2> QED
      BY <1>9, <2>1, QuietStepKeeps DEF Wedge
  <1>10. ASSUME UNCHANGED splitVars PROVE SplitIInv'
    <2>1. wedged' \subseteq Helpers \cup {7} /\ ended' \in {"", "timeout"}
      BY <1>10 DEF SplitIInv, ShapesOK, splitVars
    <2> QED
      BY <1>10, <2>1, QuietStepKeeps DEF splitVars
  <1> QED
    BY <1>1, <1>2, <1>3, <1>4, <1>5, <1>6, <1>7, <1>8, <1>9, <1>10 DEF SplitNext, SplitOver

\* The invariant implies the property.
LEMMA SplitMeans ==
    ASSUME OutputSplitAssumption, SplitIInv
    PROVE  SplitInv
  <1>1. ASSUME NEW s \in SessionSlots
        PROVE  /\ token[s] \in Tokens /\ SlotStage(s) /\ token[s].ses \in 1..(MaxBegins + 1)
               /\ token[s].index \in 0..MaxIndex /\ token[s].phase \in Phases
               /\ token[s].chosen \in token[s].due /\ served[s] \in Nat
    BY SlotOf DEF Tokens, Asks, SplitIInv, ShapesOK
  <1>2. ASSUME NEW s \in SessionSlots PROVE served[s] <= token[s].ses
    <2>1. served[s] = token[s].ses \/ served[s] < token[s].ses
      BY <1>1 DEF SlotStage, SlotResting, Opening, Syncing, Relaying, Choosing, Chosen
    <2>2. token[s].ses \in Nat /\ served[s] \in Nat
      BY <1>1 DEF OutputSplitAssumption
    <2> QED
      BY <2>1, <2>2
  <1>3. ASSUME NEW s \in SessionSlots, NEW i \in DOMAIN handoff[s].remote,
               NEW j \in DOMAIN handoff[s].remote, i # j
        PROVE  handoff[s].remote[i].rank # handoff[s].remote[j].rank
    <2>1. CASE Slicing(s)
      BY <2>1, <1>3 DEF Slicing, SliceWith, RemoteOK, IsSeq
    <2>2. CASE handoff[s].remote = <<>>
      BY <2>2, <1>3
    <2>3. Slicing(s) \/ handoff[s].remote = <<>>
      <3>1. Calm(s) => handoff[s].remote = <<>>
        BY EmptyIs DEF Calm
      <3>2. Sampling(s) => handoff[s].remote = <<>>
        BY DEF Sampling, SampleWith
      <3> QED
        BY <3>1, <3>2, <1>1 DEF SlotStage, SlotResting, Opening, Syncing, Relaying, Choosing, Chosen, SlotRest
    <2> QED
      BY <2>1, <2>2, <2>3
  <1>4. SplitTypeOK
    BY <1>1, <1>2, <1>3 DEF SplitTypeOK, SplitIInv, ShapesOK, Phases, Failed
  <1>5. ResultExact
    BY <1>1 DEF ResultExact
  <1>6. CountsAreHistory
    BY <1>1 DEF CountsAreHistory, SlotStage, Synced
  <1>7. NeverMistaken
    BY <1>1 DEF NeverMistaken, Phases, SplitIInv, ShapesOK
  <1> QED
    BY <1>4, <1>5, <1>6, <1>7 DEF SplitInv

\* For any session slots, any vocabulary that the four ways can share, any logit vectors and
\* any bounds on tokens, sessions and ranks that stop answering: the token rank 0 accepts is
\* one that a single head over the whole vocabulary would have chosen with the history of
\* its own session, the penalty table of rank 4 counts exactly that history between tokens,
\* and no rank ever meets a frame of another token (coordinator_output_result_accept,
\* handle_output_partial, worker_output_handoff_flush).
THEOREM SplitCorrect ==
    ASSUME OutputSplitAssumption
    PROVE  SplitSpec => []SplitInv
  <1>1. SplitInit => SplitIInv
    BY SplitInitially
  <1>2. SplitIInv /\ [SplitNext]_splitVars => SplitIInv'
    BY SplitStep
  <1>3. SplitIInv => SplitInv
    BY SplitMeans
  <1> QED
    BY <1>1, <1>2, <1>3, PTL DEF SplitSpec
=============================================================================

----------------------------- MODULE NgramRanks -----------------------------
(***************************************************************************)
(* The n-gram rows of a decoded token when the table is held by the        *)
(* workers: rank 0 groups the heads by the rank that has their row, sends  *)
(* one request to each on its control link and collects the answers from   *)
(* the bulk links in arrival order (resident_ngram_lookup), the workers    *)
(* answer from their shard (handle_ngram_work, src/src/runtime.c).         *)
(*                                                                         *)
(* A row number stands for the bytes of the row; the rows of a token are   *)
(* free.  A worker may fail to read or to answer, and then ends; a link    *)
(* delivers what was written before it is found closed.                    *)
(***************************************************************************)
EXTENDS Integers, Sequences, FiniteSets, FiniteSetsExt, SequencesExt

CONSTANTS
    Workers,    \* ranks with a shard: 1 .. n
    ShardRows,  \* rows of a shard
    HeadCount,  \* FG_NGRAM_HEAD_COUNT
    MaxToken,   \* bound: tokens decoded
    MaxFaults   \* bound: workers that end, sends that fail

\* What the constants of every instance satisfy.
NgramRanksAssumption ==
    /\ IsFiniteSet(Workers) /\ Workers = 1..Cardinality(Workers) /\ ShardRows \in Nat \ {0}
    /\ HeadCount \in Nat \ {0} /\ {MaxToken, MaxFaults} \subseteq Nat

VARIABLES
    tr,      \* transport_state
    co,      \* the lookup: pc, token, rows, work, todo, sent, received, packed, failed, status
    ctl,     \* worker -> requests on its control link
    bulk,    \* worker -> answers on its bulk link
    alive,   \* workers that run
    faults

vars == <<tr, co, ctl, bulk, alive, faults>>

Heads    == 1..HeadCount
Rows     == 0..(Cardinality(Workers) * ShardRows - 1)
NoRow    == -1
Session  == 1

Pending(s)  == IF s = "READY" THEN "PENDING" ELSE s
Complete(s) == IF s = "PENDING" THEN "READY" ELSE s

Init ==
    /\ tr = "READY"
    /\ co = [pc |-> "idle", token |-> 0, rows |-> <<>>, work |-> [w \in Workers |-> <<>>], todo |-> {}, sent |-> {},
             received |-> {}, consumed |-> 0, packed |-> [h \in Heads |-> NoRow],
             failed |-> FALSE, status |-> "ok"]
    /\ ctl = [w \in Workers |-> <<>>] /\ bulk = [w \in Workers |-> <<>>]
    /\ alive = Workers /\ faults = MaxFaults

-----------------------------------------------------------------------------
(* Rank 0.                                                                   *)
\* fg_q38_ngram_rank_range
InShard(w, row) == row \in ((w - 1) * ShardRows)..(w * ShardRows - 1)

\* ngram_rank_for_row
RankForRow(row) == Min({w \in Workers : InShard(w, row)})

\* The heads of each rank, in order.
Grouped(rows) ==
    [w \in Workers |->
        LET mine == {h \in Heads : RankForRow(rows[h]) = w}
        IN  [k \in 1..Cardinality(mine) |->
               CHOOSE h \in mine : Cardinality({g \in mine : g < h}) = k - 1]]

\* A poisoned transport takes no token.
Start(rows) ==
    /\ co.pc = "idle" /\ tr = "READY" /\ co.token < MaxToken
    /\ co' = [co EXCEPT !.pc = "send", !.token = @ + 1, !.rows = rows, !.work = Grouped(rows),
                        !.todo = {w \in Workers : Grouped(rows)[w] # <<>>}, !.sent = {},
                        !.received = {}, !.consumed = 0, !.packed = [h \in Heads |-> NoRow],
                        !.failed = FALSE, !.status = "ok"]
    /\ UNCHANGED <<tr, ctl, bulk, alive, faults>>

SentTo(w) == co.sent \cup {w}

Request(w) ==
    [req |-> Session, seq |-> co.token, dst |-> w, heads |-> co.work[w],
     rows |-> [k \in DOMAIN co.work[w] |-> co.rows[co.work[w][k]]]]

\* A send to a worker that has ended fails or is lost.
Send ==
    /\ co.pc = "send" /\ co.status = "ok" /\ co.todo # {}
    /\ LET w == Min(co.todo)
       IN  /\ ctl' = IF w \in alive THEN [ctl EXCEPT ![w] = Append(@, Request(w))] ELSE ctl
           /\ co' = [co EXCEPT !.sent = SentTo(w), !.todo = @ \ {w}]
    /\ tr' = Pending(tr)
    /\ UNCHANGED <<bulk, alive, faults>>

\* A send that fails stops the sending and poisons the transport.
SendFails ==
    /\ co.pc = "send" /\ co.status = "ok" /\ co.todo # {}
    /\ Min(co.todo) \notin alive
    /\ co' = [co EXCEPT !.status = "error", !.failed = TRUE]
    /\ tr' = "POISONED"
    /\ UNCHANGED <<ctl, bulk, alive, faults>>

SendsDone ==
    /\ co.pc = "send" /\ (co.status # "ok" \/ co.todo = {})
    /\ co' = [co EXCEPT !.pc = "collect"]
    /\ UNCHANGED <<tr, ctl, bulk, alive, faults>>

\* The frame is of this lookup and the first of its rank.
Valid(w, f) ==
    /\ w \in co.sent /\ w \notin co.received
    /\ f.req = Session /\ f.seq = co.token

ForUs(w, f) == f.src = w /\ Len(f.heads) = Len(co.work[w])

\* Every head was asked of this rank and is seen once.
HeadsExpected(w, f) ==
    /\ \A k \in DOMAIN f.heads : f.heads[k] \in Range(co.work[w]) /\ co.packed[f.heads[k]] = NoRow
    /\ IsInjective(f.heads)

Collect(w) ==
    /\ co.pc = "collect" /\ co.consumed < Cardinality(co.sent) /\ bulk[w] # <<>>
    /\ LET f  == Head(bulk[w])
           ok == Valid(w, f) /\ (co.status # "ok" \/ (ForUs(w, f) /\ HeadsExpected(w, f)))
       IN  co' = [co EXCEPT
                !.consumed = @ + 1,
                !.received = IF Valid(w, f) THEN @ \cup {w} ELSE @,
                !.failed   = @ \/ ~ok,
                !.status   = IF ok THEN @ ELSE "error",
                !.packed   = IF ~ok \/ co.status # "ok" THEN @
                             ELSE [h \in Heads |->
                                     IF h \in Range(f.heads)
                                     THEN f.rows[CHOOSE k \in DOMAIN f.heads : f.heads[k] = h]
                                     ELSE @[h]]]
    /\ bulk' = [bulk EXCEPT ![w] = Tail(@)]
    /\ UNCHANGED <<tr, ctl, alive, faults>>

\* recv_any finds a link closed by its worker, with nothing left to read.
CollectFails(w) ==
    /\ co.pc = "collect" /\ co.consumed < Cardinality(co.sent)
    /\ w \notin alive /\ bulk[w] = <<>>
    /\ co' = [co EXCEPT !.pc = "finish", !.failed = TRUE, !.status = "error"]
    /\ UNCHANGED <<tr, ctl, bulk, alive, faults>>

CollectsDone ==
    /\ co.pc = "collect" /\ co.consumed = Cardinality(co.sent)
    /\ co' = [co EXCEPT !.pc = "finish"]
    /\ UNCHANGED <<tr, ctl, bulk, alive, faults>>

\* READY again only if every request was answered and no frame was refused.
Settled ==
    IF co.consumed = Cardinality(co.sent) /\ co.received = co.sent /\ ~co.failed
    THEN Complete(tr) ELSE "POISONED"

Finish ==
    /\ co.pc = "finish"
    /\ tr' = Settled
    /\ co' = [co EXCEPT !.pc = "idle",
                 !.status = IF \E h \in Heads : co.packed[h] = NoRow THEN "error" ELSE @]
    /\ UNCHANGED <<ctl, bulk, alive, faults>>

-----------------------------------------------------------------------------
(* handle_ngram_work.                                                        *)
\* Mutant: the rows are packed from the last one on.
AnswerReversed(w, f) ==
    [src |-> w, req |-> f.req, seq |-> f.seq, heads |-> f.heads, rows |-> Reverse(f.rows)]

Answer(w, f) == [src |-> w, req |-> f.req, seq |-> f.seq, heads |-> f.heads, rows |-> f.rows]

WorkerAnswers(w) ==
    /\ w \in alive /\ ctl[w] # <<>>
    /\ LET f == Head(ctl[w])
       IN  /\ f.req = Session /\ f.dst = w /\ \A k \in DOMAIN f.rows : InShard(w, f.rows[k])
           /\ bulk' = [bulk EXCEPT ![w] = Append(@, Answer(w, f))]
    /\ ctl' = [ctl EXCEPT ![w] = Tail(@)]
    /\ UNCHANGED <<tr, co, alive, faults>>

\* The worker ends: a read or a send failed, or its process died.
WorkerEnds(w) ==
    /\ w \in alive /\ faults > 0
    /\ alive' = alive \ {w} /\ faults' = faults - 1
    /\ ctl' = [ctl EXCEPT ![w] = <<>>]
    /\ UNCHANGED <<tr, co, bulk>>

Over ==
    /\ co.pc = "idle" /\ (tr # "READY" \/ co.token = MaxToken)
    /\ UNCHANGED vars

CoNext ==
    \/ Send \/ SendFails \/ SendsDone \/ CollectsDone \/ Finish
    \/ \E w \in Workers : Collect(w) \/ CollectFails(w)

Next ==
    \/ \E rows \in [Heads -> Rows] : Start(rows)
    \/ CoNext
    \/ \E w \in Workers : WorkerAnswers(w) \/ WorkerEnds(w)
    \/ Over

Spec == Init /\ [][Next]_vars

(* Rank 0 and the workers that run keep running; links deliver. *)
FairSpec == Spec /\ WF_vars(CoNext) /\ \A w \in Workers : WF_vars(WorkerAnswers(w))

-----------------------------------------------------------------------------
(* Types. *)
TypeOK ==
    /\ tr \in {"READY", "PENDING", "POISONED"} /\ alive \subseteq Workers
    /\ co.pc \in {"idle", "send", "collect", "finish"} /\ co.token \in 0..MaxToken
    /\ co.sent \subseteq Workers /\ co.received \subseteq co.sent
    /\ co.consumed \in 0..Cardinality(Workers)

(* A lookup that succeeds has the row of every head for its token, whatever the
   order of the answers and however the heads fell on the ranks
   (resident_ngram_lookup: received, seen_head, missing heads). *)
RowsComplete == (co.pc = "idle" /\ co.token > 0 /\ co.status = "ok") => \A h \in Heads : co.packed[h] = co.rows[h]

(* Between tokens a READY transport has no request and no answer under way, so the
   next token's first frame is its own; a lookup that stopped early is POISONED. *)
QuietWhenReady ==
    (co.pc = "idle" /\ tr = "READY") => \A w \in Workers : ctl[w] = <<>> /\ bulk[w] = <<>>

(* No failure is charged to a lookup whose workers all answer: without a fault every
   token succeeds and the transport is READY again. *)
NoFalseAlarm == (co.pc = "idle" /\ faults = MaxFaults) => (co.status = "ok" /\ tr = "READY")

(* A lookup ends, also when workers end in its middle: what was sent is answered or
   its link is found closed. *)
LookupEnds == (co.pc # "idle") ~> (co.pc = "idle")

\* What a lookup returns and what it leaves to the next one.
LookupInv ==
    /\ TypeOK
    /\ RowsComplete
    /\ QuietWhenReady
    /\ NoFalseAlarm
=============================================================================

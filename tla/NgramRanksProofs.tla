-------------------------- MODULE NgramRanksProofs --------------------------
(***************************************************************************)
(* Proofs about the resident n-gram lookup, for any number of workers,     *)
(* heads and shard rows, and any number of workers that end.               *)
(***************************************************************************)
EXTENDS NgramRanks, FiniteSetTheorems, SequenceTheorems, WellFoundedInduction, TLAPS

-----------------------------------------------------------------------------
(* The inductive invariant.                                                  *)

Lookup ==
    [pc : {"idle", "send", "collect", "finish"}, token : 0..MaxToken,
     rows : {<<>>} \cup [Heads -> Rows], work : [Workers -> Seq(Heads)],
     todo : SUBSET Workers, sent : SUBSET Workers, received : SUBSET Workers,
     consumed : Nat, packed : [Heads -> Rows \cup {NoRow}],
     failed : BOOLEAN, status : {"ok", "error"}]

\* Every variable keeps its type.
Types ==
    /\ tr \in {"READY", "PENDING", "POISONED"}
    /\ co \in Lookup
    /\ ctl = [w \in Workers |-> ctl[w]] /\ bulk = [w \in Workers |-> bulk[w]]
    /\ alive \subseteq Workers
    /\ faults \in Nat /\ faults <= MaxFaults /\ (alive # Workers => faults < MaxFaults)

\* Every head is in the work of the worker that has its row, once, and in no other.
WorkOK(w) ==
    /\ \A k, l \in DOMAIN co.work[w] : co.work[w][k] = co.work[w][l] => k = l
    /\ \A h \in Heads :
         RankForRow(co.rows[h]) = w <=> \E k \in DOMAIN co.work[w] : co.work[w][k] = h

GroupsOK ==
    /\ co.pc # "idle" => co.token > 0
    /\ co.token > 0 =>
         co.rows \in [Heads -> Rows] /\ \A w \in Workers : WorkOK(w)

\* Where the request of a worker is: not sent, with the worker, answered, or lost with it.
Flow(w) ==
    IF w \in co.sent \ co.received
    THEN \/ w \in alive /\ ctl[w] = <<Request(w)>> /\ bulk[w] = <<>>
         \/ ctl[w] = <<>> /\ bulk[w] = <<Answer(w, Request(w))>>
         \/ w \notin alive /\ ctl[w] = <<>> /\ bulk[w] = <<>>
    ELSE ctl[w] = <<>> /\ bulk[w] = <<>>

\* What was sent, what is left to send and what came back.
CountsOK ==
    /\ co.received \subseteq co.sent /\ co.consumed = Cardinality(co.received)
    /\ co.pc # "idle" => /\ co.todo \cap co.sent = {}
                         /\ \A w \in Workers : co.work[w] # <<>> => w \in co.todo \cup co.sent
    /\ (co.pc \in {"collect", "finish"} /\ co.status = "ok") => co.todo = {}
    /\ (co.pc = "finish" /\ co.status = "ok") => co.received = co.sent

\* A lookup fails for a fault only, and until it fails the transport is usable.
StatusOK ==
    /\ co.pc # "idle" => /\ co.failed <=> co.status = "error"
                         /\ co.failed => faults < MaxFaults
                         /\ ~co.failed => tr # "POISONED"
    /\ co.pc = "idle" => /\ tr = "READY" => co.received = co.sent
                         /\ faults = MaxFaults => (co.status = "ok" /\ tr = "READY")

\* The rows held are those of the workers that answered.
PackedOK ==
    co.status = "ok" =>
        /\ co.pc # "idle" =>
             \A h \in Heads : co.packed[h] = IF RankForRow(co.rows[h]) \in co.received
                                             THEN co.rows[h] ELSE NoRow
        /\ (co.pc = "idle" /\ co.token > 0) => \A h \in Heads : co.packed[h] = co.rows[h]

NInv ==
    /\ Types
    /\ GroupsOK
    /\ \A w \in Workers : Flow(w)
    /\ CountsOK
    /\ StatusOK
    /\ PackedOK


-----------------------------------------------------------------------------
(* The heads of a worker.                                                    *)

\* The heads of a set that come before h.
Before(mine, h) == {g \in mine : g < h}

\* No two heads of a worker have equally many before them.
LEMMA BeforeInjective ==
    ASSUME NEW mine, mine \subseteq Nat, IsFiniteSet(mine),
           NEW g \in mine, NEW h \in mine,
           Cardinality(Before(mine, g)) = Cardinality(Before(mine, h))
    PROVE  g = h
  <1>1. ASSUME NEW a \in mine, NEW b \in mine, a < b
        PROVE  Cardinality(Before(mine, a)) # Cardinality(Before(mine, b))
    <2>1. (\A x \in mine : x < a => x < b) /\ ~(a < a)
      BY <1>1
    <2>2. /\ Before(mine, a) \in SUBSET Before(mine, b)
          /\ a \in Before(mine, b) /\ a \notin Before(mine, a)
      BY <1>1, <2>1 DEF Before
    <2>3. IsFiniteSet(Before(mine, b))
      BY FS_Subset DEF Before
    <2> QED
      BY <2>2, <2>3, FS_Subset
  <1> QED
    BY <1>1

\* An interval that starts at 0 is as large as its length.
LEMMA Interval0 ==
    ASSUME NEW n \in Nat
    PROVE  IsFiniteSet(0..(n - 1)) /\ Cardinality(0..(n - 1)) = n
  <1>1. 0 \in Int /\ n - 1 \in Int
    OBVIOUS
  <1>2. /\ IsFiniteSet(0..(n - 1))
        /\ Cardinality(0..(n - 1)) = IF 0 > n - 1 THEN 0 ELSE (n - 1) - 0 + 1
    BY <1>1, FS_Interval
  <1> QED
    BY <1>2

\* Every place of the list of a worker is taken by one of its heads.
LEMMA BeforeTaken ==
    ASSUME NEW mine, mine \subseteq Nat, IsFiniteSet(mine), NEW k \in 1..Cardinality(mine)
    PROVE  \E h \in mine : Cardinality(Before(mine, h)) = k - 1
  <1> DEFINE n == Cardinality(mine)
             R == 0..(n - 1)
             f == [h \in mine |-> Cardinality(Before(mine, h))]
  <1>1. n \in Nat
    BY FS_CardinalityType
  <1>2. IsFiniteSet(R) /\ Cardinality(R) = n
    <2> HIDE DEF n
    <2> QED
      BY <1>1, Interval0
  <1>3. \A h \in mine : Cardinality(Before(mine, h)) \in R
    <2> TAKE h \in mine
    <2>1. Before(mine, h) \in SUBSET mine /\ h \notin Before(mine, h)
      BY DEF Before
    <2>2. Cardinality(Before(mine, h)) <= n /\ Cardinality(Before(mine, h)) # n
      BY <1>1, <2>1, FS_Subset
    <2>3. Cardinality(Before(mine, h)) \in Nat
      BY <2>1, FS_Subset, FS_CardinalityType
    <2> HIDE DEF n
    <2> QED
      BY <1>1, <2>2, <2>3
  <1>4. f \in Injection(mine, R)
    <2>1. f \in [mine -> R]
      BY <1>3
    <2>2. \A a, b \in mine : f[a] = f[b] => a = b
      BY BeforeInjective
    <2> QED
      BY <2>1, <2>2 DEF Injection, IsInjective
  <1>5. f \in Surjection(mine, R)
    <2> HIDE DEF f, R
    <2> QED
      BY <1>2, <1>4, FS_Injection
  <1>6. k - 1 \in R
    BY <1>1
  <1>7. PICK h \in mine : f[h] = k - 1
    BY <1>5, <1>6 DEF Surjection
  <1> QED
    BY <1>7

\* Every head has a place of the list.
LEMMA PlaceOf ==
    ASSUME NEW mine, mine \subseteq Nat, IsFiniteSet(mine), NEW h \in mine
    PROVE  Cardinality(Before(mine, h)) + 1 \in 1..Cardinality(mine)
  <1>1. Before(mine, h) \in SUBSET mine /\ h \notin Before(mine, h)
    BY DEF Before
  <1>2. Cardinality(Before(mine, h)) <= Cardinality(mine)
        /\ Cardinality(Before(mine, h)) # Cardinality(mine)
    BY <1>1, FS_Subset
  <1>3. Cardinality(Before(mine, h)) \in Nat /\ Cardinality(mine) \in Nat
    BY <1>1, FS_Subset, FS_CardinalityType
  <1> QED
    BY <1>2, <1>3

\* A function on 1..n is a sequence.
LEMMA ListIsSeq ==
    ASSUME NEW n \in Nat, NEW S, NEW f \in [1..n -> S]
    PROVE  f \in Seq(S) /\ DOMAIN f = 1..n
  OBVIOUS

\* The list of a set of heads in their order.
InOrder(mine) ==
    [k \in 1..Cardinality(mine) |-> CHOOSE h \in mine : Cardinality({g \in mine : g < h}) = k - 1]

\* It lists every head of the set once.
LEMMA InOrderRight ==
    ASSUME NEW mine, mine \subseteq Nat, IsFiniteSet(mine)
    PROVE  /\ InOrder(mine) \in Seq(mine)
           /\ \A k, l \in DOMAIN InOrder(mine) : InOrder(mine)[k] = InOrder(mine)[l] => k = l
           /\ \A h \in mine : \E k \in DOMAIN InOrder(mine) : InOrder(mine)[k] = h
  <1> DEFINE n == Cardinality(mine)
             At(k) == CHOOSE h \in mine : Cardinality({g \in mine : g < h}) = k - 1
  <1>1. n \in Nat
    BY FS_CardinalityType
  <1>2. ASSUME NEW k \in 1..n
        PROVE  At(k) \in mine /\ Cardinality(Before(mine, At(k))) = k - 1
    <2> DEFINE P(h) == Cardinality({g \in mine : g < h}) = k - 1
    <2>1. \E h \in mine : P(h)
      BY <1>2, BeforeTaken DEF Before
    <2>2. At(k) = CHOOSE h \in mine : P(h)
      OBVIOUS
    <2>3. At(k) \in mine /\ P(At(k))
      <3> HIDE DEF P, At
      <3> QED
        BY <2>1, <2>2
    <2> QED
      BY <2>3 DEF Before
  <1>3. InOrder(mine) = [k \in 1..n |-> At(k)]
    BY DEF InOrder
  <1> HIDE DEF n, At
  <1> DEFINE f == [k \in 1..n |-> At(k)]
  <1>4. f \in [1..n -> mine]
    BY <1>2
  <1>5. f \in Seq(mine) /\ DOMAIN f = 1..n
    <2> HIDE DEF f
    <2> QED
      BY <1>1, <1>4, ListIsSeq
  <1>6. \A k, l \in 1..n : f[k] = f[l] => k = l
    <2> TAKE k \in 1..n, l \in 1..n
    <2>1. At(k) = At(l) => k - 1 = l - 1
      BY <1>2
    <2> QED
      BY <1>1, <2>1
  <1>7. \A h \in mine : \E k \in 1..n : f[k] = h
    <2> TAKE h \in mine
    <2>1. PICK k \in 1..n : k = Cardinality(Before(mine, h)) + 1
      BY PlaceOf DEF n
    <2>2. Cardinality(Before(mine, h)) = k - 1
      <3>1. Cardinality(Before(mine, h)) \in Nat
        BY FS_Subset, FS_CardinalityType DEF Before
      <3> QED
        BY <2>1, <3>1
    <2>3. At(k) = h
      BY <1>2, <2>2, BeforeInjective
    <2> QED
      BY <2>3
  <1> QED
    BY <1>3, <1>5, <1>6, <1>7


-----------------------------------------------------------------------------
(* The rank that has a row.                                                  *)

\* A non-empty set of naturals has a least element, and Min finds it.
LEMMA MinIn ==
    ASSUME NEW T, T \subseteq Nat, T # {}
    PROVE  Min(T) \in T
  <1>1. \E d \in T : \A e \in T : ~(<<e, d>> \in OpToRel(<, Nat))
    BY NatLessThanWellFounded, WFMin
  <1>2. PICK d \in T : \A e \in T : ~(e < d)
    BY <1>1 DEF OpToRel
  <1>3. \A e \in T : d <= e
    BY <1>2
  <1> QED
    BY <1>3 DEF Min

\* The workers are ranks 1, 2, and so on.
LEMMA WorkersAre ==
    ASSUME NgramRanksAssumption
    PROVE  /\ Cardinality(Workers) \in Nat /\ Workers = 1..Cardinality(Workers)
           /\ Workers \subseteq Nat /\ IsFiniteSet(Workers)
  <1>1. Cardinality(Workers) \in Nat /\ Workers = 1..Cardinality(Workers)
    BY FS_CardinalityType DEF NgramRanksAssumption
  <1>2. \A n \in Nat : 1..n \subseteq Nat
    OBVIOUS
  <1> QED
    BY <1>1, <1>2 DEF NgramRanksAssumption

\* The shards cover the table: every row has a rank (ngram_rank_for_row finds one).
LEMMA RankForRowRight ==
    ASSUME NgramRanksAssumption, NEW row \in Rows
    PROVE  RankForRow(row) \in Workers /\ InShard(RankForRow(row), row)
  <1> DEFINE n == Cardinality(Workers)
             S == ShardRows
             T == {w \in Nat : row < w * S}
  <1>1. n \in Nat /\ S \in Nat \ {0} /\ Workers = 1..n /\ Workers \subseteq Nat
    BY WorkersAre DEF NgramRanksAssumption
  <1>2. n * S \in Nat /\ row \in Nat /\ row < n * S
    <2>1. PICK m \in Nat : m = n * S
      BY <1>1
    <2> QED
      BY <2>1 DEF Rows
  <1>3. n \in T
    BY <1>1, <1>2
  <1>4. \E d \in T : \A e \in T : ~(<<e, d>> \in OpToRel(<, Nat))
    <2>1. T \subseteq Nat /\ T # {}
      BY <1>3
    <2> HIDE DEF T
    <2> QED
      BY <2>1, NatLessThanWellFounded, WFMin
  <1>5. PICK d \in T : \A e \in T : ~(e < d)
    BY <1>4 DEF OpToRel
  <1>6. d \in Nat /\ row < d * S /\ d <= n /\ d # 0
    <2>1. d \in Nat /\ row < d * S
      BY <1>5
    <2>2. ~(n < d)
      BY <1>3, <1>5
    <2>3. 0 * S = 0
      BY <1>1
    <2> QED
      BY <1>1, <1>2, <2>1, <2>2, <2>3
  <1>7. d - 1 \in Nat /\ (d - 1) * S <= row
    <2>1. d - 1 \in Nat /\ d - 1 < d
      BY <1>6
    <2>2. d - 1 \notin T
      BY <1>5, <2>1
    <2>3. ~(row < (d - 1) * S)
      BY <2>1, <2>2
    <2>4. (d - 1) * S \in Int
      BY <1>1, <2>1
    <2> QED
      BY <1>2, <2>1, <2>3, <2>4
  <1>8. d \in Workers /\ InShard(d, row)
    <2>1. d \in Workers
      BY <1>1, <1>6
    <2>2. PICK a \in Int : a = (d - 1) * S
      BY <1>1, <1>7
    <2>3. PICK b \in Int : b = d * S
      BY <1>1, <1>6
    <2>4. row \in a..(b - 1)
      BY <1>2, <1>6, <1>7, <2>2, <2>3
    <2> QED
      BY <2>1, <2>2, <2>3, <2>4 DEF InShard
  <1>9. {w \in Workers : InShard(w, row)} \subseteq Nat /\ {w \in Workers : InShard(w, row)} # {}
    BY <1>1, <1>8
  <1>10. RankForRow(row) \in {w \in Workers : InShard(w, row)}
    BY <1>9, MinIn DEF RankForRow
  <1> QED
    BY <1>10

\* The heads are a finite set of naturals.
LEMMA HeadsAre ==
    ASSUME NgramRanksAssumption, NEW mine \in SUBSET Heads
    PROVE  mine \subseteq Nat /\ IsFiniteSet(mine)
  <1>1. HeadCount \in Nat /\ 1 \in Int /\ HeadCount \in Int
    BY DEF NgramRanksAssumption
  <1>2. IsFiniteSet(1..HeadCount)
    BY <1>1, FS_Interval
  <1>3. 1..HeadCount \subseteq Nat
    BY <1>1
  <1> QED
    BY <1>2, <1>3, FS_Subset DEF Heads

\* Grouping gives every head to the worker that has its row, once, and to no other.
LEMMA GroupedRight ==
    ASSUME NgramRanksAssumption, NEW rows \in [Heads -> Rows]
    PROVE  /\ Grouped(rows) \in [Workers -> Seq(Heads)]
           /\ \A w \in Workers :
                /\ \A k, l \in DOMAIN Grouped(rows)[w] :
                     Grouped(rows)[w][k] = Grouped(rows)[w][l] => k = l
                /\ \A h \in Heads :
                     RankForRow(rows[h]) = w
                       <=> \E k \in DOMAIN Grouped(rows)[w] : Grouped(rows)[w][k] = h
  <1> DEFINE Mine(w) == {h \in Heads : RankForRow(rows[h]) = w}
  <1>1. Grouped(rows) = [w \in Workers |-> InOrder(Mine(w))]
    BY DEF Grouped, InOrder
  <1>2. ASSUME NEW w \in Workers
        PROVE  /\ InOrder(Mine(w)) \in Seq(Heads)
               /\ \A k, l \in DOMAIN InOrder(Mine(w)) :
                    InOrder(Mine(w))[k] = InOrder(Mine(w))[l] => k = l
               /\ \A h \in Heads :
                    RankForRow(rows[h]) = w
                      <=> \E k \in DOMAIN InOrder(Mine(w)) : InOrder(Mine(w))[k] = h
    <2>1. PICK mine \in SUBSET Heads : mine = Mine(w)
      OBVIOUS
    <2>2. mine \subseteq Nat /\ IsFiniteSet(mine)
      BY HeadsAre
    <2>3. /\ InOrder(mine) \in Seq(mine)
          /\ \A k, l \in DOMAIN InOrder(mine) : InOrder(mine)[k] = InOrder(mine)[l] => k = l
          /\ \A h \in mine : \E k \in DOMAIN InOrder(mine) : InOrder(mine)[k] = h
      BY <2>2, InOrderRight
    <2>4. InOrder(mine) \in Seq(Heads) /\ \A k \in DOMAIN InOrder(mine) : InOrder(mine)[k] \in mine
      BY <2>3
    <2>5. \A h \in Heads : h \in mine <=> RankForRow(rows[h]) = w
      BY <2>1
    <2> HIDE DEF Mine
    <2> QED
      BY <2>1, <2>3, <2>4, <2>5
  <1> HIDE DEF Mine
  <1> QED
    BY <1>1, <1>2


-----------------------------------------------------------------------------
(* One lemma per action.                                                     *)

\* What a request says depends on the token, its rows and their grouping.
LEMMA RequestSame ==
    ASSUME NEW w \in Workers, co'.token = co.token, co'.rows = co.rows, co'.work = co.work
    PROVE  Request(w)' = Request(w) /\ WorkOK(w)' = WorkOK(w)
  BY DEF Request, WorkOK

\* A worker whose links and request a step leaves alone stays where it is.
LEMMA FlowSame ==
    ASSUME NEW w \in Workers, Flow(w), co'.token = co.token, co'.rows = co.rows,
           co'.work = co.work, ctl'[w] = ctl[w], bulk'[w] = bulk[w],
           w \in alive' <=> w \in alive,
           w \in co'.sent \ co'.received <=> w \in co.sent \ co.received
    PROVE  Flow(w)'
  <1>1. Request(w)' = Request(w)
    BY RequestSame
  <1>2. Answer(w, Request(w))' = Answer(w, Request(w))
    BY <1>1 DEF Answer
  <1> QED
    BY <1>1, <1>2 DEF Flow

\* Before the first token nothing is asked.
LEMMA StartsRight == ASSUME NgramRanksAssumption, Init PROVE NInv
  <1>1. Types
    <2>1. 0 \in 0..MaxToken /\ MaxFaults \in Nat
      BY DEF NgramRanksAssumption
    <2>2. co \in Lookup
      BY <2>1 DEF Init, Lookup
    <2> QED
      BY <2>1, <2>2 DEF Init, Types
  <1>2. co.pc = "idle" /\ co.token = 0 /\ co.sent = {} /\ co.received = {} /\ co.consumed = 0
        /\ co.status = "ok" /\ tr = "READY" /\ faults = MaxFaults
    BY DEF Init
  <1>3. GroupsOK /\ StatusOK /\ PackedOK
    BY <1>2 DEF GroupsOK, StatusOK, PackedOK
  <1>4. \A w \in Workers : Flow(w)
    BY <1>2 DEF Init, Flow
  <1>5. CountsOK
    BY <1>2, FS_EmptySet DEF CountsOK
  <1> QED
    BY <1>1, <1>3, <1>4, <1>5 DEF NInv

\* A token starts on quiet links: resident_ngram_lookup groups its heads.
LEMMA StartKeeps ==
    ASSUME NgramRanksAssumption, NInv, NEW rows \in [Heads -> Rows], Start(rows)
    PROVE  NInv'
  <1>1. /\ co.pc = "idle" /\ tr = "READY" /\ co.token \in 0..MaxToken /\ co.token < MaxToken
        /\ co \in Lookup /\ MaxToken \in Nat
    BY DEF Start, NInv, Types, Lookup, NgramRanksAssumption
  <1>2. PICK grouped \in [Workers -> Seq(Heads)] : grouped = Grouped(rows)
    BY GroupedRight
  <1>3. PICK todo \in SUBSET Workers : todo = {w \in Workers : grouped[w] # <<>>}
    OBVIOUS
  <1>4. PICK blank \in [Heads -> Rows \cup {NoRow}] : blank = [h \in Heads |-> NoRow]
    OBVIOUS
  <1>5. co' = [co EXCEPT !.pc = "send", !.token = @ + 1, !.rows = rows, !.work = grouped,
                         !.todo = todo, !.sent = {}, !.received = {}, !.consumed = 0,
                         !.packed = blank, !.failed = FALSE, !.status = "ok"]
    BY <1>2, <1>3, <1>4 DEF Start
  <1>6. /\ co' \in Lookup
        /\ co'.pc = "send" /\ co'.token = co.token + 1 /\ co'.rows = rows /\ co'.work = grouped
        /\ co'.todo = todo /\ co'.sent = {} /\ co'.received = {} /\ co'.consumed = 0
        /\ co'.packed = blank /\ co'.failed = FALSE /\ co'.status = "ok"
    <2>1. co.token + 1 \in 0..MaxToken
      BY <1>1
    <2> QED
      BY <1>1, <1>5, <2>1 DEF Lookup
  <1>7. UNCHANGED <<tr, ctl, bulk, alive, faults>>
    BY DEF Start
  <1>8. Types'
    BY <1>6, <1>7 DEF NInv, Types
  <1>9. GroupsOK'
    <2>1. co'.token > 0
      BY <1>1, <1>6
    <2>2. \A w \in Workers : WorkOK(w)'
      BY <1>2, <1>6, GroupedRight DEF WorkOK
    <2> QED
      BY <1>6, <2>1, <2>2 DEF GroupsOK
  <1>10. \A w \in Workers : Flow(w)'
    <2> TAKE w \in Workers
    <2>1. co.received = co.sent
      BY <1>1 DEF NInv, StatusOK
    <2>2. ctl[w] = <<>> /\ bulk[w] = <<>>
      BY <2>1 DEF NInv, Flow
    <2> QED
      BY <1>6, <1>7, <2>2 DEF Flow
  <1>11. CountsOK'
    BY <1>3, <1>6, FS_EmptySet DEF CountsOK
  <1>12. StatusOK'
    BY <1>1, <1>6, <1>7 DEF StatusOK
  <1>13. PackedOK'
    BY <1>4, <1>6 DEF PackedOK
  <1> QED
    BY <1>8, <1>9, <1>10, <1>11, <1>12, <1>13 DEF NInv

\* A request goes out, to a worker that runs or into the void.
LEMMA SendKeeps ==
    ASSUME NgramRanksAssumption, NInv, Send
    PROVE  NInv'
  <1>1. /\ co.pc = "send" /\ co.status = "ok" /\ co \in Lookup
        /\ co.todo \subseteq Workers /\ co.todo # {}
    BY DEF Send, NInv, Types, Lookup
  <1>2. PICK w \in co.todo : w = Min(co.todo)
    <2>1. co.todo \subseteq Nat
      BY <1>1, WorkersAre
    <2> QED
      BY <1>1, <2>1, MinIn
  <1>3. PICK q : q = Request(w)
    OBVIOUS
  <1>4. /\ ctl' = IF w \in alive THEN [ctl EXCEPT ![w] = Append(@, q)] ELSE ctl
        /\ co' = [co EXCEPT !.sent = co.sent \cup {w}, !.todo = @ \ {w}]
        /\ tr' = Pending(tr) /\ UNCHANGED <<bulk, alive, faults>>
    BY <1>2, <1>3 DEF Send, SentTo
  <1>5. /\ co' \in Lookup
        /\ co'.pc = "send" /\ co'.token = co.token /\ co'.rows = co.rows /\ co'.work = co.work
        /\ co'.todo = co.todo \ {w} /\ co'.sent = co.sent \cup {w}
        /\ co'.received = co.received /\ co'.consumed = co.consumed
        /\ co'.packed = co.packed /\ co'.failed = co.failed /\ co'.status = "ok"
    <2>1. co.todo \ {w} \in SUBSET Workers /\ co.sent \cup {w} \in SUBSET Workers
      BY <1>1, <1>2 DEF Lookup
    <2> QED
      BY <1>1, <1>4, <2>1 DEF Lookup
  <1>6. tr' \in {"READY", "PENDING", "POISONED"} /\ (tr # "POISONED" => tr' # "POISONED")
    BY <1>4 DEF NInv, Types, Pending
  <1>7. Types'
    BY <1>4, <1>5, <1>6 DEF NInv, Types
  <1>8. GroupsOK'
    <2>1. \A v \in Workers : WorkOK(v)' = WorkOK(v)
      BY <1>5, RequestSame
    <2> QED
      BY <1>1, <1>5, <2>1 DEF NInv, GroupsOK
  <1>9. ASSUME NEW v \in Workers PROVE Flow(v)'
    <2>1. CASE v # w
      <3>1. ctl'[v] = ctl[v]
        BY <1>4, <2>1 DEF NInv, Types
      <3>2. v \in co'.sent \ co'.received <=> v \in co.sent \ co.received
        BY <1>5, <2>1
      <3>3. Flow(v)
        BY DEF NInv
      <3> QED
        BY <1>4, <1>5, <3>1, <3>2, <3>3, FlowSame
    <2>2. CASE v = w
      <3>1. w \notin co.sent /\ w \notin co.received
        BY <1>1, <1>2 DEF NInv, CountsOK
      <3>2. ctl[w] = <<>> /\ bulk[w] = <<>>
        BY <2>2, <3>1 DEF NInv, Flow
      <3>3. Request(w)' = q
        BY <1>3, <1>5, <2>2, RequestSame
      <3>4. w \in co'.sent \ co'.received
        BY <1>5, <3>1
      <3>5. w \in alive => ctl'[w] = <<q>>
        <4>1. w \in alive => ctl'[w] = Append(ctl[w], q)
          BY <1>4, <2>2 DEF NInv, Types
        <4> QED
          BY <3>2, <4>1
      <3>6. w \notin alive => ctl'[w] = <<>>
        BY <1>4, <3>2
      <3>7. alive' = alive /\ bulk'[w] = <<>>
        BY <1>4, <3>2
      <3> QED
        BY <2>2, <3>3, <3>4, <3>5, <3>6, <3>7 DEF Flow
    <2> QED
      BY <2>1, <2>2
  <1>10. CountsOK'
    BY <1>1, <1>2, <1>5 DEF NInv, CountsOK
  <1>11. StatusOK'
    BY <1>1, <1>4, <1>5, <1>6 DEF NInv, StatusOK
  <1>12. PackedOK'
    BY <1>1, <1>5 DEF NInv, PackedOK
  <1> QED
    BY <1>7, <1>8, <1>9, <1>10, <1>11, <1>12 DEF NInv


\* What a step that touches neither the links nor what was asked, sent and received keeps.
LEMMA LinksSame ==
    ASSUME NInv, UNCHANGED <<ctl, bulk, alive, faults>>, co' \in Lookup,
           tr' \in {"READY", "PENDING", "POISONED"},
           co'.token = co.token, co'.rows = co.rows, co'.work = co.work,
           co'.sent = co.sent, co'.received = co.received, co'.pc # "idle" => co.pc # "idle"
    PROVE  Types' /\ GroupsOK' /\ \A w \in Workers : Flow(w)'
  <1>1. Types'
    BY DEF NInv, Types
  <1>2. GroupsOK'
    <2>1. \A w \in Workers : WorkOK(w)' = WorkOK(w)
      BY RequestSame
    <2> QED
      BY <2>1 DEF NInv, GroupsOK
  <1>3. ASSUME NEW w \in Workers PROVE Flow(w)'
    <2>1. Flow(w)
      BY DEF NInv
    <2> QED
      BY <2>1, FlowSame
  <1> QED
    BY <1>1, <1>2, <1>3

\* A send to a worker that has ended fails.
LEMMA SendFailsKeeps ==
    ASSUME NgramRanksAssumption, NInv, SendFails
    PROVE  NInv'
  <1>1. /\ co.pc = "send" /\ co.status = "ok" /\ co \in Lookup
        /\ co.todo \subseteq Workers /\ co.todo # {}
    BY DEF SendFails, NInv, Types, Lookup
  <1>2. faults < MaxFaults
    <2>1. co.todo \subseteq Nat
      BY <1>1, WorkersAre
    <2>2. Min(co.todo) \in Workers
      BY <1>1, <2>1, MinIn
    <2> QED
      BY <2>2 DEF SendFails, NInv, Types
  <1>3. /\ co' = [co EXCEPT !.status = "error", !.failed = TRUE]
        /\ tr' = "POISONED" /\ UNCHANGED <<ctl, bulk, alive, faults>>
    BY DEF SendFails
  <1>4. /\ co' \in Lookup
        /\ co'.pc = "send" /\ co'.token = co.token /\ co'.rows = co.rows /\ co'.work = co.work
        /\ co'.todo = co.todo /\ co'.sent = co.sent
        /\ co'.received = co.received /\ co'.consumed = co.consumed
        /\ co'.failed = TRUE /\ co'.status = "error"
    BY <1>1, <1>3 DEF Lookup
  <1>5. Types' /\ GroupsOK' /\ \A w \in Workers : Flow(w)'
    BY <1>1, <1>3, <1>4, LinksSame
  <1>6. CountsOK'
    BY <1>1, <1>4 DEF NInv, CountsOK
  <1>7. StatusOK' /\ PackedOK'
    BY <1>2, <1>3, <1>4 DEF StatusOK, PackedOK
  <1> QED
    BY <1>5, <1>6, <1>7 DEF NInv

\* The sending ends.
LEMMA SendsDoneKeeps ==
    ASSUME NgramRanksAssumption, NInv, SendsDone
    PROVE  NInv'
  <1>1. co.pc = "send" /\ co \in Lookup /\ (co.status = "ok" => co.todo = {})
    BY DEF SendsDone, NInv, Types
  <1>2. co' = [co EXCEPT !.pc = "collect"] /\ UNCHANGED <<tr, ctl, bulk, alive, faults>>
    BY DEF SendsDone
  <1>3. /\ co' \in Lookup
        /\ co'.pc = "collect" /\ co'.token = co.token /\ co'.rows = co.rows
        /\ co'.work = co.work /\ co'.todo = co.todo /\ co'.sent = co.sent
        /\ co'.received = co.received /\ co'.consumed = co.consumed
        /\ co'.packed = co.packed /\ co'.failed = co.failed /\ co'.status = co.status
    BY <1>1, <1>2 DEF Lookup
  <1>4. tr' \in {"READY", "PENDING", "POISONED"}
    BY <1>2 DEF NInv, Types
  <1>5. Types' /\ GroupsOK' /\ \A w \in Workers : Flow(w)'
    BY <1>1, <1>2, <1>3, <1>4, LinksSame
  <1>6. CountsOK'
    BY <1>1, <1>3 DEF NInv, CountsOK
  <1>7. StatusOK'
    BY <1>1, <1>2, <1>3 DEF NInv, StatusOK
  <1>8. PackedOK'
    BY <1>1, <1>3 DEF NInv, PackedOK
  <1> QED
    BY <1>5, <1>6, <1>7, <1>8 DEF NInv

\* recv_any finds the link of an ended worker closed.
LEMMA CollectFailsKeeps ==
    ASSUME NgramRanksAssumption, NInv, NEW w \in Workers, CollectFails(w)
    PROVE  NInv'
  <1>1. co.pc = "collect" /\ co \in Lookup /\ faults < MaxFaults
    BY DEF CollectFails, NInv, Types
  <1>2. /\ co' = [co EXCEPT !.pc = "finish", !.failed = TRUE, !.status = "error"]
        /\ UNCHANGED <<tr, ctl, bulk, alive, faults>>
    BY DEF CollectFails
  <1>3. /\ co' \in Lookup
        /\ co'.pc = "finish" /\ co'.token = co.token /\ co'.rows = co.rows
        /\ co'.work = co.work /\ co'.todo = co.todo /\ co'.sent = co.sent
        /\ co'.received = co.received /\ co'.consumed = co.consumed
        /\ co'.failed = TRUE /\ co'.status = "error"
    BY <1>1, <1>2 DEF Lookup
  <1>4. tr' \in {"READY", "PENDING", "POISONED"}
    BY <1>2 DEF NInv, Types
  <1>5. Types' /\ GroupsOK' /\ \A v \in Workers : Flow(v)'
    BY <1>1, <1>2, <1>3, <1>4, LinksSame
  <1>6. CountsOK'
    BY <1>1, <1>3 DEF NInv, CountsOK
  <1>7. StatusOK' /\ PackedOK'
    BY <1>1, <1>2, <1>3 DEF StatusOK, PackedOK
  <1> QED
    BY <1>5, <1>6, <1>7 DEF NInv

\* As many answers as requests: every worker asked has answered.
LEMMA CollectsDoneKeeps ==
    ASSUME NgramRanksAssumption, NInv, CollectsDone
    PROVE  NInv'
  <1>1. co.pc = "collect" /\ co \in Lookup /\ co.consumed = Cardinality(co.sent)
    BY DEF CollectsDone, NInv, Types
  <1>2. co.received = co.sent
    <2>1. IsFiniteSet(co.sent) /\ co.received \in SUBSET co.sent
      <3>1. co.sent \in SUBSET Workers
        BY <1>1 DEF Lookup
      <3> QED
        BY <3>1, WorkersAre, FS_Subset DEF NInv, CountsOK
    <2>2. Cardinality(co.received) = Cardinality(co.sent)
      BY <1>1 DEF NInv, CountsOK
    <2> QED
      BY <2>1, <2>2, FS_Subset
  <1>3. co' = [co EXCEPT !.pc = "finish"] /\ UNCHANGED <<tr, ctl, bulk, alive, faults>>
    BY DEF CollectsDone
  <1>4. /\ co' \in Lookup
        /\ co'.pc = "finish" /\ co'.token = co.token /\ co'.rows = co.rows
        /\ co'.work = co.work /\ co'.todo = co.todo /\ co'.sent = co.sent
        /\ co'.received = co.received /\ co'.consumed = co.consumed
        /\ co'.packed = co.packed /\ co'.failed = co.failed /\ co'.status = co.status
    BY <1>1, <1>3 DEF Lookup
  <1>5. tr' \in {"READY", "PENDING", "POISONED"}
    BY <1>3 DEF NInv, Types
  <1>6. Types' /\ GroupsOK' /\ \A w \in Workers : Flow(w)'
    BY <1>1, <1>3, <1>4, <1>5, LinksSame
  <1>7. CountsOK'
    BY <1>1, <1>2, <1>4 DEF NInv, CountsOK
  <1>8. StatusOK'
    BY <1>1, <1>3, <1>4 DEF NInv, StatusOK
  <1>9. PackedOK'
    BY <1>1, <1>4 DEF NInv, PackedOK
  <1> QED
    BY <1>6, <1>7, <1>8, <1>9 DEF NInv

\* Every head of the token has a worker, and that worker was asked.
LEMMA EveryHeadAsked ==
    ASSUME NgramRanksAssumption, NInv, co.pc = "finish", co.status = "ok", NEW h \in Heads
    PROVE  RankForRow(co.rows[h]) \in co.received
  <1>1. co.rows \in [Heads -> Rows] /\ \A w \in Workers : WorkOK(w)
    BY DEF NInv, GroupsOK
  <1>2. PICK w \in Workers : w = RankForRow(co.rows[h])
    BY <1>1, RankForRowRight
  <1>3. PICK k \in DOMAIN co.work[w] : co.work[w][k] = h
    BY <1>1, <1>2 DEF WorkOK
  <1>4. co.work[w] # <<>>
    BY <1>3
  <1>5. w \in co.sent /\ co.received = co.sent
    BY <1>4 DEF NInv, CountsOK
  <1> QED
    BY <1>2, <1>5

\* The lookup returns: complete and READY again, or failed and POISONED.
LEMMA FinishKeeps ==
    ASSUME NgramRanksAssumption, NInv, Finish
    PROVE  NInv'
  <1>1. co.pc = "finish" /\ co \in Lookup
    BY DEF Finish, NInv, Types
  <1>2. PICK st \in {"ok", "error"} :
          st = IF \E h \in Heads : co.packed[h] = NoRow THEN "error" ELSE co.status
    BY <1>1 DEF Lookup
  <1>3. /\ co' = [co EXCEPT !.pc = "idle", !.status = st]
        /\ tr' = Settled /\ UNCHANGED <<ctl, bulk, alive, faults>>
    BY <1>2 DEF Finish
  <1>4. /\ co' \in Lookup
        /\ co'.pc = "idle" /\ co'.token = co.token /\ co'.rows = co.rows
        /\ co'.work = co.work /\ co'.todo = co.todo /\ co'.sent = co.sent
        /\ co'.received = co.received /\ co'.consumed = co.consumed
        /\ co'.packed = co.packed /\ co'.failed = co.failed /\ co'.status = st
    BY <1>1, <1>3 DEF Lookup
  <1>5. co.status = "ok" => \A h \in Heads : co.packed[h] = co.rows[h] /\ co.rows[h] # NoRow
    <2> SUFFICES ASSUME co.status = "ok", NEW h \in Heads
                 PROVE  co.packed[h] = co.rows[h] /\ co.rows[h] # NoRow
      OBVIOUS
    <2>1. co.packed[h] = co.rows[h]
      BY <1>1, EveryHeadAsked DEF NInv, PackedOK
    <2>2. co.rows[h] \in Rows
      BY <1>1 DEF NInv, GroupsOK
    <2>3. NoRow \notin Rows
      BY DEF NoRow, Rows
    <2> QED
      BY <2>1, <2>2, <2>3
  <1>6. st = co.status
    <2>1. CASE co.status = "ok"
      BY <1>2, <1>5, <2>1
    <2>2. CASE co.status # "ok"
      BY <1>1, <1>2, <2>2 DEF Lookup
    <2> QED
      BY <2>1, <2>2
  <1>7. /\ tr' \in {"READY", "PENDING", "POISONED"}
        /\ tr' = "READY" => co.received = co.sent
        /\ co.status = "ok" => tr' = "READY"
    <2>1. tr \in {"READY", "PENDING", "POISONED"}
      BY DEF NInv, Types
    <2>2. CASE co.failed
      <3>1. tr' = "POISONED" /\ co.status = "error"
        BY <1>1, <1>3, <2>2 DEF Settled, NInv, StatusOK
      <3> QED
        BY <3>1
    <2>3. CASE ~co.failed
      <3>1. co.status = "ok" /\ tr # "POISONED"
        <4>1. co.status # "error" /\ tr # "POISONED"
          BY <1>1, <2>3 DEF NInv, StatusOK
        <4> QED
          BY <1>1, <4>1 DEF Lookup
      <3>2. co.received = co.sent /\ co.consumed = Cardinality(co.sent)
        BY <1>1, <3>1 DEF NInv, CountsOK
      <3> QED
        BY <1>3, <2>1, <2>3, <3>1, <3>2 DEF Settled, Complete
    <2> QED
      BY <2>2, <2>3
  <1>8. Types' /\ GroupsOK' /\ \A w \in Workers : Flow(w)'
    BY <1>3, <1>4, <1>7, LinksSame
  <1>9. CountsOK'
    BY <1>4 DEF NInv, CountsOK
  <1>10. StatusOK'
    <2>1. faults = MaxFaults => co.status = "ok"
      <3>1. faults = MaxFaults => ~(faults < MaxFaults)
        BY DEF NInv, Types, NgramRanksAssumption
      <3>2. faults = MaxFaults => co.status # "error"
        BY <1>1, <3>1 DEF NInv, StatusOK
      <3> QED
        BY <1>1, <3>2 DEF Lookup
    <2> QED
      BY <1>3, <1>4, <1>6, <1>7, <2>1 DEF StatusOK
  <1>11. PackedOK'
    BY <1>4, <1>5, <1>6 DEF PackedOK
  <1> QED
    BY <1>8, <1>9, <1>10, <1>11 DEF NInv


\* An answer that arrives is the one that was asked for: none is refused.
LEMMA AnswerAccepted ==
    ASSUME NgramRanksAssumption, NInv, co.pc = "collect", NEW w \in Workers, bulk[w] # <<>>
    PROVE  /\ w \in co.sent /\ w \notin co.received
           /\ ctl[w] = <<>> /\ bulk[w] = <<Answer(w, Request(w))>>
           /\ Valid(w, Head(bulk[w]))
           /\ co.status = "ok" => ForUs(w, Head(bulk[w])) /\ HeadsExpected(w, Head(bulk[w]))
  <1>1. w \in co.sent /\ w \notin co.received
        /\ ctl[w] = <<>> /\ bulk[w] = <<Answer(w, Request(w))>>
    BY DEF NInv, Flow
  <1>2. PICK f : f = Head(bulk[w])
    OBVIOUS
  <1>3. f = Answer(w, Request(w))
    BY <1>1, <1>2
  <1>4. f.src = w /\ f.req = Session /\ f.seq = co.token /\ f.heads = co.work[w]
    BY <1>3 DEF Answer, Request
  <1>5. Valid(w, f) /\ ForUs(w, f)
    BY <1>1, <1>4 DEF Valid, ForUs
  <1>6. ASSUME co.status = "ok" PROVE HeadsExpected(w, f)
    <2>1. co.work[w] \in Seq(Heads) /\ WorkOK(w) /\ co.rows \in [Heads -> Rows]
      BY DEF NInv, Types, Lookup, GroupsOK
    <2>2. ASSUME NEW k \in DOMAIN f.heads
          PROVE  f.heads[k] \in Range(co.work[w]) /\ co.packed[f.heads[k]] = NoRow
      <3>1. PICK h \in Heads : h = co.work[w][k]
        BY <1>4, <2>1
      <3>2. RankForRow(co.rows[h]) = w
        BY <1>4, <2>1, <3>1 DEF WorkOK
      <3>3. co.packed[h] = NoRow
        BY <1>1, <1>6, <3>2 DEF NInv, PackedOK
      <3> QED
        BY <1>4, <3>1, <3>3 DEF Range
    <2>3. IsInjective(f.heads)
      BY <1>4, <2>1 DEF WorkOK, IsInjective
    <2> QED
      BY <2>2, <2>3 DEF HeadsExpected
  <1> QED
    BY <1>1, <1>2, <1>5, <1>6

\* The rows of an answer are unpacked to the heads that it names.
Unpacked(f) ==
    [h \in Heads |-> IF h \in Range(f.heads)
                     THEN f.rows[CHOOSE k \in DOMAIN f.heads : f.heads[k] = h]
                     ELSE co.packed[h]]

\* They are the rows of those heads.
LEMMA UnpackedRight ==
    ASSUME NgramRanksAssumption, NInv, co.pc # "idle", NEW w \in Workers, NEW f,
           f = Answer(w, Request(w)), NEW h \in Heads
    PROVE  Unpacked(f)[h] = IF RankForRow(co.rows[h]) = w THEN co.rows[h] ELSE co.packed[h]
  <1>1. f.heads = co.work[w] /\ f.rows = [k \in DOMAIN co.work[w] |-> co.rows[co.work[w][k]]]
    BY DEF Answer, Request
  <1>2. WorkOK(w)
    BY DEF NInv, GroupsOK
  <1>3. h \in Range(f.heads) <=> RankForRow(co.rows[h]) = w
    BY <1>1, <1>2 DEF WorkOK, Range
  <1>4. CASE h \in Range(f.heads)
    <2>1. \E k \in DOMAIN f.heads : f.heads[k] = h
      BY <1>4 DEF Range
    <2>2. PICK k \in DOMAIN f.heads : k = (CHOOSE l \in DOMAIN f.heads : f.heads[l] = h) /\ f.heads[k] = h
      BY <2>1
    <2>3. f.rows[k] = co.rows[h]
      BY <1>1, <2>2
    <2> QED
      BY <1>3, <1>4, <2>2, <2>3 DEF Unpacked
  <1>5. CASE h \notin Range(f.heads)
    BY <1>3, <1>5 DEF Unpacked
  <1> QED
    BY <1>4, <1>5

\* An answer is taken: its worker has been heard and its heads have their rows.
LEMMA CollectKeeps ==
    ASSUME NgramRanksAssumption, NInv, NEW w \in Workers, Collect(w)
    PROVE  NInv'
  <1>1. co.pc = "collect" /\ co \in Lookup /\ bulk[w] # <<>>
    BY DEF Collect, NInv, Types
  <1>2. /\ w \in co.sent /\ w \notin co.received
        /\ ctl[w] = <<>> /\ bulk[w] = <<Answer(w, Request(w))>>
        /\ Valid(w, Head(bulk[w]))
        /\ co.status = "ok" => ForUs(w, Head(bulk[w])) /\ HeadsExpected(w, Head(bulk[w]))
    BY <1>1, AnswerAccepted
  <1>3. PICK f : f = Head(bulk[w]) /\ f = Answer(w, Request(w))
    BY <1>2
  <1>4. PICK pk : pk = IF co.status # "ok" THEN co.packed ELSE Unpacked(f)
    OBVIOUS
  <1>5. /\ co' = [co EXCEPT !.consumed = @ + 1, !.received = @ \cup {w},
                            !.failed = co.failed, !.status = co.status, !.packed = pk]
        /\ bulk' = [bulk EXCEPT ![w] = Tail(@)]
        /\ UNCHANGED <<tr, ctl, alive, faults>>
    <2> DEFINE ok == Valid(w, f) /\ (co.status # "ok" \/ (ForUs(w, f) /\ HeadsExpected(w, f)))
    <2>1. ok
      BY <1>2, <1>3
    <2>2. co.failed \in BOOLEAN
      BY <1>1 DEF Lookup
    <2>3. co' = [co EXCEPT
                !.consumed = @ + 1,
                !.received = IF Valid(w, f) THEN @ \cup {w} ELSE @,
                !.failed   = @ \/ ~ok,
                !.status   = IF ok THEN @ ELSE "error",
                !.packed   = IF ~ok \/ co.status # "ok" THEN @
                             ELSE [h \in Heads |->
                                     IF h \in Range(f.heads)
                                     THEN f.rows[CHOOSE k \in DOMAIN f.heads : f.heads[k] = h]
                                     ELSE @[h]]]
      BY <1>3 DEF Collect
    <2>4. (co.failed \/ ~ok) = co.failed
      BY <2>1, <2>2
    <2>5. pk = IF ~ok \/ co.status # "ok" THEN co.packed
               ELSE [h \in Heads |->
                       IF h \in Range(f.heads)
                       THEN f.rows[CHOOSE k \in DOMAIN f.heads : f.heads[k] = h]
                       ELSE co.packed[h]]
      BY <1>4, <2>1 DEF Unpacked
    <2> HIDE DEF ok
    <2>6. co' = [co EXCEPT !.consumed = @ + 1, !.received = @ \cup {w},
                           !.failed = co.failed, !.status = co.status, !.packed = pk]
      BY <1>2, <1>3, <2>1, <2>3, <2>4, <2>5
    <2> QED
      BY <2>6 DEF Collect
  <1>6. co.consumed + 1 \in Nat /\ co.received \cup {w} \in SUBSET Workers
    BY <1>1 DEF Lookup
  <1>7. pk \in [Heads -> Rows \cup {NoRow}]
    <2>1. CASE co.status # "ok"
      BY <1>1, <1>4, <2>1 DEF Lookup
    <2>2. CASE co.status = "ok"
      <3>1. co.rows \in [Heads -> Rows] /\ co.packed \in [Heads -> Rows \cup {NoRow}]
        BY <1>1 DEF NInv, GroupsOK, Lookup
      <3>2. \A h \in Heads : Unpacked(f)[h] \in Rows \cup {NoRow}
        BY <1>1, <1>3, <3>1, UnpackedRight
      <3>3. Unpacked(f) = [h \in Heads |-> Unpacked(f)[h]]
        BY DEF Unpacked
      <3> QED
        BY <1>4, <2>2, <3>2, <3>3
    <2> QED
      BY <2>1, <2>2
  <1>8. /\ co' \in Lookup
        /\ co'.pc = "collect" /\ co'.token = co.token /\ co'.rows = co.rows
        /\ co'.work = co.work /\ co'.todo = co.todo /\ co'.sent = co.sent
        /\ co'.received = co.received \cup {w} /\ co'.consumed = co.consumed + 1
        /\ co'.packed = pk /\ co'.failed = co.failed /\ co'.status = co.status
    BY <1>1, <1>5, <1>6, <1>7 DEF Lookup
  <1>9. Types'
    BY <1>5, <1>8 DEF NInv, Types
  <1>10. GroupsOK'
    <2>1. \A v \in Workers : WorkOK(v)' = WorkOK(v)
      BY <1>8, RequestSame
    <2> QED
      BY <1>1, <1>8, <2>1 DEF NInv, GroupsOK
  <1>11. ASSUME NEW v \in Workers PROVE Flow(v)'
    <2>1. CASE v # w
      <3>1. bulk'[v] = bulk[v] /\ ctl'[v] = ctl[v]
        BY <1>5, <2>1 DEF NInv, Types
      <3>2. v \in co'.sent \ co'.received <=> v \in co.sent \ co.received
        BY <1>8, <2>1
      <3>3. Flow(v)
        BY DEF NInv
      <3> QED
        BY <1>5, <1>8, <3>1, <3>2, <3>3, FlowSame
    <2>2. CASE v = w
      <3>1. bulk'[w] = Tail(bulk[w])
        BY <1>5 DEF NInv, Types
      <3>2. bulk'[w] = <<>> /\ ctl'[w] = <<>>
        BY <1>2, <1>5, <3>1
      <3> QED
        BY <1>8, <2>2, <3>2 DEF Flow
    <2> QED
      BY <2>1, <2>2
  <1>12. CountsOK'
    <2>1. IsFiniteSet(co.received)
      <3>1. co.received \in SUBSET Workers
        BY <1>1 DEF Lookup
      <3> QED
        BY <3>1, WorkersAre, FS_Subset
    <2>2. Cardinality(co.received \cup {w}) = co.consumed + 1
      BY <1>2, <2>1, FS_AddElement DEF NInv, CountsOK
    <2> QED
      BY <1>1, <1>2, <1>8, <2>2 DEF NInv, CountsOK
  <1>13. StatusOK'
    BY <1>1, <1>5, <1>8 DEF NInv, StatusOK
  <1>14. PackedOK'
    <2> SUFFICES ASSUME co.status = "ok", NEW h \in Heads
                 PROVE  pk[h] = IF RankForRow(co.rows[h]) \in co.received \cup {w}
                                THEN co.rows[h] ELSE NoRow
      BY <1>8 DEF PackedOK
    <2>1. pk[h] = IF RankForRow(co.rows[h]) = w THEN co.rows[h] ELSE co.packed[h]
      BY <1>1, <1>3, <1>4, UnpackedRight
    <2>2. co.packed[h] = IF RankForRow(co.rows[h]) \in co.received THEN co.rows[h] ELSE NoRow
      BY <1>1 DEF NInv, PackedOK
    <2> QED
      BY <2>1, <2>2
  <1> QED
    BY <1>9, <1>10, <1>11, <1>12, <1>13, <1>14 DEF NInv

\* A worker answers its request: handle_ngram_work.
LEMMA WorkerAnswersKeeps ==
    ASSUME NgramRanksAssumption, NInv, NEW w \in Workers, WorkerAnswers(w)
    PROVE  NInv'
  <1>1. w \in co.sent \ co.received /\ ctl[w] = <<Request(w)>> /\ bulk[w] = <<>>
    BY DEF WorkerAnswers, NInv, Flow
  <1>2. PICK a : a = Answer(w, Request(w))
    OBVIOUS
  <1>3. /\ bulk' = [bulk EXCEPT ![w] = Append(@, a)] /\ ctl' = [ctl EXCEPT ![w] = Tail(@)]
        /\ UNCHANGED <<tr, co, alive, faults>>
    <2>1. Head(ctl[w]) = Request(w)
      BY <1>1
    <2> QED
      BY <1>2, <2>1 DEF WorkerAnswers
  <1>4. Types' /\ CountsOK' /\ StatusOK' /\ PackedOK'
    BY <1>3 DEF NInv, Types, CountsOK, StatusOK, PackedOK
  <1>5. GroupsOK'
    BY <1>3 DEF NInv, GroupsOK, WorkOK
  <1>6. ASSUME NEW v \in Workers PROVE Flow(v)'
    <2>1. CASE v # w
      <3>1. bulk'[v] = bulk[v] /\ ctl'[v] = ctl[v]
        BY <1>3, <2>1 DEF NInv, Types
      <3>2. Flow(v)
        BY DEF NInv
      <3> QED
        BY <1>3, <3>1, <3>2, FlowSame
    <2>2. CASE v = w
      <3>1. bulk'[w] = Append(bulk[w], a) /\ ctl'[w] = Tail(ctl[w])
        BY <1>3 DEF NInv, Types
      <3>2. bulk'[w] = <<a>> /\ ctl'[w] = <<>>
        BY <1>1, <3>1
      <3>3. Request(w)' = Request(w)
        BY <1>3, RequestSame
      <3>4. Answer(w, Request(w))' = a
        BY <1>2, <3>3 DEF Answer
      <3> QED
        BY <1>1, <1>3, <2>2, <3>2, <3>4 DEF Flow
    <2> QED
      BY <2>1, <2>2
  <1> QED
    BY <1>4, <1>5, <1>6 DEF NInv

\* A worker ends, and its request with it; an answer it sent stays on its link.
LEMMA WorkerEndsKeeps ==
    ASSUME NgramRanksAssumption, NInv, NEW w \in Workers, WorkerEnds(w)
    PROVE  NInv'
  <1>1. /\ faults > 0 /\ alive' = alive \ {w} /\ faults' = faults - 1
        /\ ctl' = [ctl EXCEPT ![w] = <<>>] /\ UNCHANGED <<tr, co, bulk>>
    BY DEF WorkerEnds
  <1>2. faults' \in Nat /\ faults' < MaxFaults /\ faults' <= MaxFaults /\ faults' # MaxFaults
    BY <1>1 DEF NInv, Types, NgramRanksAssumption
  <1>3. Types'
    BY <1>1, <1>2 DEF NInv, Types
  <1>4. CountsOK' /\ StatusOK' /\ PackedOK'
    BY <1>1, <1>2 DEF NInv, CountsOK, StatusOK, PackedOK
  <1>5. GroupsOK'
    BY <1>1 DEF NInv, GroupsOK, WorkOK
  <1>6. ASSUME NEW v \in Workers PROVE Flow(v)'
    <2>1. Flow(v)
      BY DEF NInv
    <2>2. CASE v # w
      <3>1. bulk'[v] = bulk[v] /\ ctl'[v] = ctl[v] /\ (v \in alive' <=> v \in alive)
        BY <1>1, <2>2 DEF NInv, Types
      <3> QED
        BY <1>1, <2>1, <3>1, FlowSame
    <2>3. CASE v = w
      <3>1. bulk'[w] = bulk[w] /\ ctl'[w] = <<>> /\ w \notin alive'
        BY <1>1 DEF NInv, Types
      <3>2. Request(w)' = Request(w)
        BY <1>1, RequestSame
      <3>3. Answer(w, Request(w))' = Answer(w, Request(w))
        BY <3>2 DEF Answer
      <3> QED
        BY <1>1, <2>1, <2>3, <3>1, <3>3 DEF Flow
    <2> QED
      BY <2>2, <2>3
  <1> QED
    BY <1>3, <1>4, <1>5, <1>6 DEF NInv

\* A step that changes nothing keeps the invariant.
LEMMA StutterKeeps == ASSUME NInv, UNCHANGED vars PROVE NInv'
  <1>1. UNCHANGED <<tr, co, ctl, bulk, alive, faults>>
    BY DEF vars
  <1>2. Types' /\ CountsOK' /\ StatusOK' /\ PackedOK'
    BY <1>1 DEF NInv, Types, CountsOK, StatusOK, PackedOK
  <1>3. GroupsOK'
    BY <1>1 DEF NInv, GroupsOK, WorkOK
  <1>4. \A w \in Workers : Flow(w)'
    BY <1>1, FlowSame DEF NInv
  <1> QED
    BY <1>2, <1>3, <1>4 DEF NInv

\* Every step keeps the invariant.
LEMMA StepKeeps == ASSUME NgramRanksAssumption, NInv, [Next]_vars PROVE NInv'
  <1>1. CASE \E rows \in [Heads -> Rows] : Start(rows)
    BY <1>1, StartKeeps
  <1>2. CASE CoNext
    BY <1>2, SendKeeps, SendFailsKeeps, SendsDoneKeeps, CollectsDoneKeeps, FinishKeeps,
       CollectKeeps, CollectFailsKeeps DEF CoNext
  <1>3. CASE \E w \in Workers : WorkerAnswers(w) \/ WorkerEnds(w)
    BY <1>3, WorkerAnswersKeeps, WorkerEndsKeeps
  <1>4. CASE Over \/ UNCHANGED vars
    BY <1>4, StutterKeeps DEF Over
  <1> QED
    BY <1>1, <1>2, <1>3, <1>4 DEF Next

\* The invariant says what a lookup returns and what it leaves to the next one.
LEMMA InvImplies == ASSUME NgramRanksAssumption, NInv PROVE LookupInv
  <1>1. TypeOK
    <2>1. co \in Lookup /\ co.received \subseteq co.sent /\ co.received \in SUBSET Workers
      BY DEF NInv, Types, CountsOK, Lookup
    <2>2. co.consumed = Cardinality(co.received) /\ Cardinality(co.received) <= Cardinality(Workers)
          /\ Cardinality(co.received) \in Nat /\ Cardinality(Workers) \in Nat
      BY <2>1, WorkersAre, FS_Subset, FS_CardinalityType DEF NInv, CountsOK
    <2>3. co.consumed \in 0..Cardinality(Workers)
      BY <2>2
    <2> QED
      BY <2>1, <2>3 DEF TypeOK, NInv, Types, Lookup
  <1>2. RowsComplete /\ NoFalseAlarm
    BY DEF RowsComplete, NoFalseAlarm, NInv, StatusOK, PackedOK
  <1>3. QuietWhenReady
    BY DEF QuietWhenReady, NInv, StatusOK, Flow
  <1> QED
    BY <1>1, <1>2, <1>3 DEF LookupInv

\* A resident n-gram lookup that succeeds has the row of every head, a READY transport has
\* nothing under way, and nothing but a worker that ends makes a lookup fail, for any number
\* of workers, heads, rows and faults (resident_ngram_lookup, handle_ngram_work).
THEOREM LookupCorrect == ASSUME NgramRanksAssumption PROVE Spec => []LookupInv
  <1>1. Init => NInv
    BY StartsRight
  <1>2. NInv /\ [Next]_vars => NInv'
    BY StepKeeps
  <1>3. NInv => LookupInv
    BY InvImplies
  <1> QED
    BY <1>1, <1>2, <1>3, PTL DEF Spec
=============================================================================

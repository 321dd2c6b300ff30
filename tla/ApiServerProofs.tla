-------------------------- MODULE ApiServerProofs --------------------------
(***************************************************************************)
(* Proofs about the API server, for any number of clients and requests,    *)
(* every connection bound, queue capacity and output limit.                *)
(***************************************************************************)
EXTENDS ApiServer, FiniteSetTheorems, SequenceTheorems, WellFoundedInduction, TLAPS

\* A non-empty bounded set of naturals has a maximum, and Max finds it.
LEMMA MaxIn ==
    ASSUME NEW T, T \subseteq Nat, T # {}, NEW m \in Nat, \A t \in T : t <= m
    PROVE  Max(T) \in T
  <1> DEFINE D == {d \in Nat : \E t \in T : d = m - t}
  <1>1. D \subseteq Nat /\ D # {}
    <2>1. PICK t \in T : TRUE
      OBVIOUS
    <2>2. m - t \in D
      BY <2>1
    <2> QED
      BY <2>2
  <1>2. \E d \in D : \A e \in D : ~(<<e, d>> \in OpToRel(<, Nat))
    <2> HIDE DEF D
    <2> QED
      BY <1>1, NatLessThanWellFounded, WFMin
  <1>3. PICK d \in D : \A e \in D : ~(e < d)
    BY <1>1, <1>2 DEF OpToRel
  <1>4. PICK t \in T : d = m - t
    BY <1>3
  <1>5. \A u \in T : t >= u
    <2> TAKE u \in T
    <2>1. m - u \in D
      OBVIOUS
    <2> QED
      BY <1>3, <1>4, <2>1
  <1> QED
    BY <1>4, <1>5 DEF Max

-----------------------------------------------------------------------------
(* The queue after a cancellation.                                          *)

\* Position i of a set of positions: how many come before it.
Ahead(kept, i) == {j \in kept : j < i}

\* No two positions have equally many before them.
LEMMA AheadInjective ==
    ASSUME NEW kept, kept \subseteq Nat, IsFiniteSet(kept),
           NEW i \in kept, NEW j \in kept,
           Cardinality(Ahead(kept, i)) = Cardinality(Ahead(kept, j))
    PROVE  i = j
  <1>1. ASSUME NEW a \in kept, NEW b \in kept, a < b
        PROVE  Cardinality(Ahead(kept, a)) # Cardinality(Ahead(kept, b))
    <2>1. Ahead(kept, a) \in SUBSET Ahead(kept, b) /\ a \in Ahead(kept, b)
          /\ a \notin Ahead(kept, a)
      <3>1. \A x \in kept : x < a => x < b
        BY <1>1
      <3>2. ~(a < a)
        BY <1>1
      <3> QED
        BY <1>1, <3>1, <3>2 DEF Ahead
    <2>2. IsFiniteSet(Ahead(kept, b))
      BY FS_Subset DEF Ahead
    <2> QED
      BY <2>1, <2>2, FS_Subset
  <1> QED
    BY <1>1

\* Every place up to their number is taken.
LEMMA AheadTaken ==
    ASSUME NEW kept, kept \subseteq Nat, IsFiniteSet(kept), NEW k \in 1..Cardinality(kept)
    PROVE  \E i \in kept : Cardinality(Ahead(kept, i)) = k - 1
  <1> DEFINE n == Cardinality(kept)
             R == 0..(n - 1)
             f == [i \in kept |-> Cardinality(Ahead(kept, i))]
  <1>1. n \in Nat
    BY FS_CardinalityType
  <1>2. IsFiniteSet(R) /\ Cardinality(R) = n
    <2> HIDE DEF n
    <2>1. 0 \in Int /\ n - 1 \in Int
      BY <1>1
    <2>2. /\ IsFiniteSet(0..(n - 1))
          /\ Cardinality(0..(n - 1)) = IF 0 > n - 1 THEN 0 ELSE (n - 1) - 0 + 1
      BY <2>1, FS_Interval
    <2> QED
      BY <1>1, <2>2
  <1>3. \A i \in kept : Cardinality(Ahead(kept, i)) \in R
    <2> TAKE i \in kept
    <2>1. Ahead(kept, i) \in SUBSET kept /\ i \notin Ahead(kept, i)
      BY DEF Ahead
    <2>2. Cardinality(Ahead(kept, i)) <= n /\ Cardinality(Ahead(kept, i)) # n
      BY <1>1, <2>1, FS_Subset
    <2>3. Cardinality(Ahead(kept, i)) \in Nat
      BY <2>1, FS_Subset, FS_CardinalityType
    <2> HIDE DEF n
    <2> QED
      BY <1>1, <2>2, <2>3
  <1>4. f \in Injection(kept, R)
    <2>1. f \in [kept -> R]
      BY <1>3
    <2>2. \A a, b \in kept : f[a] = f[b] => a = b
      BY AheadInjective
    <2> QED
      BY <2>1, <2>2 DEF Injection, IsInjective
  <1>5. f \in Surjection(kept, R)
    <2> HIDE DEF f, R
    <2> QED
      BY <1>2, <1>4, FS_Injection
  <1>6. k - 1 \in R
    BY <1>1
  <1>7. PICK i \in kept : f[i] = k - 1
    BY <1>5, <1>6 DEF Surjection
  <1> QED
    BY <1>7

\* A function on 1..n is a sequence of length n.
LEMMA FunIsSeq ==
    ASSUME NEW n \in Nat, NEW S, NEW f \in [1..n -> S]
    PROVE  f \in Seq(S) /\ Len(f) = n
  OBVIOUS

\* api_engine_queue_cancel takes the cancelled requests out of the queue, each of them
\* once, and duplicates or invents none.
LEMMA RemainingFacts ==
    ASSUME queue \in Seq(Conns), \A i, j \in DOMAIN queue : queue[i] = queue[j] => i = j,
           NEW cancelled, \A c \in cancelled : Queued(c)
    PROVE  /\ Remaining(cancelled) \in Seq(Conns)
           /\ Cardinality(cancelled) \in Nat
           /\ Len(Remaining(cancelled)) = Len(queue) - Cardinality(cancelled)
           /\ \A n \in DOMAIN Remaining(cancelled) :
                /\ Remaining(cancelled)[n] \notin cancelled
                /\ \E i \in DOMAIN queue : Remaining(cancelled)[n] = queue[i]
           /\ \A n, m \in DOMAIN Remaining(cancelled) :
                Remaining(cancelled)[n] = Remaining(cancelled)[m] => n = m
  <1> DEFINE kept == {i \in DOMAIN queue : queue[i] \notin cancelled}
             out == {i \in DOMAIN queue : queue[i] \in cancelled}
             At(n) == CHOOSE i \in kept : Cardinality({j \in kept : j < i}) = n - 1
             K == Cardinality(kept)
  <1>1. DOMAIN queue = 1..Len(queue) /\ Len(queue) \in Nat
    OBVIOUS
  <1>2. /\ IsFiniteSet(DOMAIN queue) /\ Cardinality(DOMAIN queue) = Len(queue)
    <2>1. 1 \in Int /\ Len(queue) \in Int
      BY <1>1
    <2>2. /\ IsFiniteSet(1..Len(queue))
          /\ Cardinality(1..Len(queue)) = IF 1 > Len(queue) THEN 0 ELSE Len(queue) - 1 + 1
      BY <2>1, FS_Interval
    <2> QED
      BY <1>1, <2>2
  <1>3. kept \subseteq Nat /\ IsFiniteSet(kept) /\ IsFiniteSet(out) /\ K \in Nat
        /\ Cardinality(out) \in Nat
    BY <1>1, <1>2, FS_Subset, FS_CardinalityType
  <1>4. K = Len(queue) - Cardinality(out)
    <2>1. kept = DOMAIN queue \ out
      OBVIOUS
    <2>2. Cardinality(DOMAIN queue \ out)
            = Cardinality(DOMAIN queue) - Cardinality(DOMAIN queue \cap out)
      BY <1>2, <1>3, FS_Difference
    <2>3. DOMAIN queue \cap out = out
      OBVIOUS
    <2> QED
      BY <1>2, <2>1, <2>2, <2>3
  <1>5. IsFiniteSet(cancelled) /\ Cardinality(cancelled) = Cardinality(out)
    <2> DEFINE g == [i \in out |-> queue[i]]
    <2>1. g \in [out -> cancelled]
      OBVIOUS
    <2>2. \A a, b \in out : g[a] = g[b] => a = b
      OBVIOUS
    <2>3. \A c \in cancelled : \E i \in out : g[i] = c
      BY DEF Queued
    <2>4. ExistsBijection(out, cancelled)
      <3> HIDE DEF g, out
      <3> QED
        BY <2>1, <2>2, <2>3 DEF ExistsBijection, Bijection, Injection, Surjection, IsInjective
    <2> HIDE DEF out
    <2> QED
      BY <1>3, <2>4, FS_Bijection
  <1>6. ASSUME NEW n \in 1..K
        PROVE  At(n) \in kept /\ Cardinality(Ahead(kept, At(n))) = n - 1
    <2> DEFINE P(i) == Cardinality({j \in kept : j < i}) = n - 1
    <2>1. \E i \in kept : P(i)
      <3>1. \E i \in kept : Cardinality(Ahead(kept, i)) = n - 1
        <4> HIDE DEF kept
        <4> QED
          BY <1>3, <1>6, AheadTaken
      <3> QED
        BY <3>1 DEF Ahead
    <2>2. At(n) = CHOOSE i \in kept : P(i)
      OBVIOUS
    <2>3. At(n) \in kept /\ P(At(n))
      <3> HIDE DEF P, At, kept
      <3> QED
        BY <2>1, <2>2
    <2> QED
      BY <2>3 DEF Ahead
  <1> DEFINE R == Remaining(cancelled)
  <1>7. R = [n \in 1..K |-> queue[At(n)]]
    BY DEF Remaining
  <1>8. \A n \in 1..K : At(n) \in DOMAIN queue /\ queue[At(n)] \notin cancelled
    BY <1>6
  <1> HIDE DEF R, K, At
  <1>9. R \in [1..K -> Conns]
    BY <1>7, <1>8
  <1>10. R \in Seq(Conns) /\ Len(R) = K /\ DOMAIN R = 1..K
    BY <1>3, <1>7, <1>9, FunIsSeq
  <1>11. ASSUME NEW n \in 1..K, NEW m \in 1..K, R[n] = R[m] PROVE n = m
    <2>1. queue[At(n)] = queue[At(m)]
      BY <1>7, <1>11
    <2>2. At(n) = At(m)
      BY <1>8, <2>1
    <2>3. n - 1 = m - 1
      BY <1>6, <2>2
    <2> QED
      BY <1>3, <2>3
  <1>12. \A n \in 1..K : R[n] \notin cancelled /\ \E i \in DOMAIN queue : R[n] = queue[i]
    BY <1>7, <1>8
  <1> HIDE DEF kept, out
  <1>13. Len(R) = Len(queue) - Cardinality(cancelled) /\ Cardinality(cancelled) \in Nat
    BY <1>3, <1>4, <1>5, <1>10
  <1> QED
    BY <1>10, <1>11, <1>12, <1>13 DEF R
-----------------------------------------------------------------------------
(* The inductive invariant. *)

Connection ==
    [st : {"new", "open", "freed"}, generating : BOOLEAN, peerClosed : BOOLEAN,
     keepAlive : BOOLEAN, input : Seq(Kinds), out : 0..(OutputLimit + 1),
     chunked : BOOLEAN, complete : BOOLEAN, closeAfter : BOOLEAN, failed : BOOLEAN,
     gone : BOOLEAN, lost : BOOLEAN]

\* What holds of one connection: only the closing unit of a complete response may exceed
\* the limit, a drop marks the response as failed, a failed response that is complete
\* closes the connection, and a connection that waits for a request is clean.
ConnOK(k) ==
    /\ k \in Connection
    /\ ~k.complete => k.out <= OutputLimit
    /\ k.lost => k.failed
    /\ k.complete /\ k.failed => k.closeAfter
    /\ ~k.generating /\ ~k.complete /\ ~k.gone =>
         k.out = 0 /\ ~k.chunked /\ ~k.failed /\ ~k.closeAfter

\* A connection the engine works for.
Owned(k) == k.st = "open" /\ k.generating /\ ~k.complete

Client == [mode : {"none", "open", "half", "closed"}, sock : Seq(Kinds), left : 0..Requests]

TypesOK ==
    /\ client \in [Conns -> Client]
    /\ queue \in Seq(Conns) /\ outstanding \in Nat
    /\ stopping \in BOOLEAN /\ frontStopping \in BOOLEAN /\ fatal \in BOOLEAN
    /\ fpc \in {"poll", "service", "exit"}
    /\ todo \subseteq Conns
    /\ epc \in {"pop", "run", "complete", "wake", "stop", "stopfront", "join", "done"}
    /\ current \in Conns \cup {None}

ConnsOK == conn \in [Conns -> Connection] /\ \A c \in Conns : ConnOK(conn[c])

\* Where the two threads can be together: the front-end leaves its loop only when the
\* engine has left its own, and it services open connections.
ThreadsOK ==
    /\ fpc = "service" => \A c \in todo : conn[c].st = "open"
    /\ current # None <=> epc \in {"run", "complete", "wake"}
    /\ frontStopping => epc \in {"join", "done"}
    /\ fpc = "exit" => frontStopping
    /\ epc = "done" => fpc = "exit"

\* Only a client that has connected is accepted.
AcceptedOK == \A c \in Conns : conn[c].st = "open" => client[c].mode # "none"

AInv ==
    /\ TypesOK /\ ConnsOK /\ AcceptedOK /\ ThreadsOK
    /\ AdmissionExact /\ EngineOwnsItsConnections
-----------------------------------------------------------------------------
(* The operations on one connection. *)

\* A connection as it is allocated, or freed.
LEMMA FreshOK ==
    ASSUME ApiAssumption, NEW st \in {"new", "open", "freed"}
    PROVE  /\ ConnOK(Fresh(st))
           /\ Fresh(st).st = st /\ Fresh(st).generating = FALSE /\ Fresh(st).complete = FALSE
  <1>1. 0 \in 0..(OutputLimit + 1) /\ 0 <= OutputLimit
    BY DEF ApiAssumption
  <1>2. <<>> \in Seq(Kinds)
    OBVIOUS
  <1>3. Fresh(st) \in Connection
    BY <1>1, <1>2 DEF Fresh, Connection
  <1>4. /\ Fresh(st).st = st /\ Fresh(st).generating = FALSE /\ Fresh(st).complete = FALSE
        /\ Fresh(st).out = 0 /\ ~Fresh(st).lost /\ ~Fresh(st).failed
        /\ ~Fresh(st).chunked /\ ~Fresh(st).closeAfter
    BY DEF Fresh
  <1> QED
    BY <1>1, <1>3, <1>4 DEF ConnOK

\* api_connection_append: the limit is kept and a drop is marked.
LEMMA AppendFacts ==
    ASSUME ApiAssumption, NEW k \in Connection, k.out <= OutputLimit, k.lost => k.failed
    PROVE  LET a == Append1(k)
           IN  /\ a \in Connection /\ a.out <= OutputLimit /\ (a.lost => a.failed)
               /\ a.st = k.st /\ a.generating = k.generating /\ a.complete = k.complete
               /\ a.gone = k.gone /\ a.keepAlive = k.keepAlive
  <1>0. OutputLimit \in Nat /\ k.out \in 0..(OutputLimit + 1)
    BY DEF ApiAssumption, Connection
  <1>1. CASE k.failed \/ k.out >= OutputLimit
    <2> DEFINE a == [k EXCEPT !.failed = TRUE, !.lost = TRUE]
    <2>1. Append1(k) = a
      BY <1>1 DEF Append1
    <2>2. /\ a \in Connection /\ a.out = k.out /\ a.failed
          /\ a.st = k.st /\ a.generating = k.generating /\ a.complete = k.complete
          /\ a.gone = k.gone /\ a.keepAlive = k.keepAlive
      BY DEF Connection
    <2> QED
      BY <2>1, <2>2
  <1>2. CASE ~(k.failed \/ k.out >= OutputLimit)
    <2> DEFINE o == k.out + 1
               a == [k EXCEPT !.out = o]
    <2>1. Append1(k) = a
      BY <1>2 DEF Append1
    <2>2. o \in 0..(OutputLimit + 1) /\ o <= OutputLimit
      BY <1>0, <1>2
    <2> HIDE DEF o
    <2>3. /\ a \in Connection /\ a.out = o /\ a.failed = k.failed /\ a.lost = k.lost
          /\ a.st = k.st /\ a.generating = k.generating /\ a.complete = k.complete
          /\ a.gone = k.gone /\ a.keepAlive = k.keepAlive
      BY <2>2 DEF Connection
    <2> QED
      BY <2>1, <2>2, <2>3
  <1> QED
    BY <1>1, <1>2

\* api_connection_complete_response: one unit more at most, and a failed response closes.
LEMMA CompleteFacts ==
    ASSUME ApiAssumption, NEW k \in Connection, k.out <= OutputLimit, k.lost => k.failed,
           NEW close \in BOOLEAN
    PROVE  LET r == CompleteResponse(k, close)
           IN  /\ ConnOK(r)
               /\ r.st = k.st /\ r.generating = k.generating /\ r.complete = TRUE
  <1> DEFINE t == IF k.chunked /\ ~k.failed /\ ~k.gone THEN 1 ELSE 0
             o == k.out + t
             b == k.closeAfter \/ close \/ k.failed \/ k.gone
             s == [k EXCEPT !.out = o, !.closeAfter = b]
             r == [s EXCEPT !.complete = TRUE]
  <1>1. OutputLimit \in Nat /\ k.out \in 0..(OutputLimit + 1)
    BY DEF ApiAssumption, Connection
  <1>2. o \in 0..(OutputLimit + 1)
    BY <1>1
  <1>3. b \in BOOLEAN /\ (k.failed => b)
    OBVIOUS
  <1>4. CompleteResponse(k, close) = r
    BY DEF CompleteResponse, Publish, CompleteSection
  <1> HIDE DEF o, b
  <1>5. /\ s \in Connection /\ s.st = k.st /\ s.generating = k.generating
        /\ s.failed = k.failed /\ s.lost = k.lost /\ s.closeAfter = b
    BY <1>2, <1>3 DEF Connection
  <1> HIDE DEF s
  <1>6. /\ r \in Connection /\ r.st = s.st /\ r.generating = s.generating
        /\ r.failed = s.failed /\ r.lost = s.lost /\ r.closeAfter = s.closeAfter
        /\ r.complete = TRUE
    BY <1>5 DEF Connection
  <1> HIDE DEF r
  <1>7. ConnOK(r)
    BY <1>3, <1>5, <1>6 DEF ConnOK
  <1> QED
    BY <1>4, <1>5, <1>6, <1>7

\* A response the front-end gives itself.
LEMMA RespondFacts ==
    ASSUME ApiAssumption, NEW k, ConnOK(k), ~k.complete, NEW close \in BOOLEAN
    PROVE  LET r == CompleteResponse(Append1(k), close)
           IN  /\ ConnOK(r)
               /\ r.st = k.st /\ r.generating = k.generating /\ r.complete = TRUE
  <1> DEFINE a == Append1(k)
  <1>1. k \in Connection /\ k.out <= OutputLimit /\ (k.lost => k.failed)
    BY DEF ConnOK
  <1>2. /\ a \in Connection /\ a.out <= OutputLimit /\ (a.lost => a.failed)
        /\ a.st = k.st /\ a.generating = k.generating
    BY <1>1, AppendFacts
  <1> HIDE DEF a
  <1>3. LET r == CompleteResponse(a, close)
        IN  ConnOK(r) /\ r.st = a.st /\ r.generating = a.generating /\ r.complete = TRUE
    BY <1>2, CompleteFacts
  <1> QED
    BY <1>2, <1>3 DEF a

\* api_connection_flush sends some of the buffer or drops it with the client.
LEMMA FlushFacts ==
    ASSUME ApiAssumption, NEW c, NEW k, ConnOK(k), NEW f \in Flush(c, k)
    PROVE  /\ ConnOK(f)
           /\ f.st = k.st /\ f.generating = k.generating /\ f.complete = k.complete
  <1>0. /\ k \in Connection /\ OutputLimit \in Nat /\ k.out \in 0..(OutputLimit + 1)
        /\ ~k.complete => k.out <= OutputLimit
        /\ k.lost => k.failed
        /\ k.complete /\ k.failed => k.closeAfter
        /\ ~k.generating /\ ~k.complete /\ ~k.gone =>
             k.out = 0 /\ ~k.chunked /\ ~k.failed /\ ~k.closeAfter
    BY DEF ConnOK, Connection, ApiAssumption
  <1>1. ASSUME NEW left \in 0..k.out, f = [k EXCEPT !.out = left]
        PROVE  /\ ConnOK(f)
               /\ f.st = k.st /\ f.generating = k.generating /\ f.complete = k.complete
    <2>1. left \in 0..(OutputLimit + 1) /\ (~k.complete => left <= OutputLimit)
          /\ (k.out = 0 => left = 0)
      BY <1>0, <1>1
    <2>2. /\ f \in Connection /\ f.out = left /\ f.st = k.st /\ f.generating = k.generating
          /\ f.complete = k.complete /\ f.gone = k.gone /\ f.lost = k.lost
          /\ f.failed = k.failed /\ f.closeAfter = k.closeAfter /\ f.chunked = k.chunked
      BY <1>0, <1>1, <2>1 DEF Connection
    <2>3. ConnOK(f)
      BY <1>0, <2>1, <2>2 DEF ConnOK
    <2> QED
      BY <2>2, <2>3
  <1>2. ASSUME f = [k EXCEPT !.out = 0, !.gone = TRUE, !.closeAfter = TRUE]
        PROVE  /\ ConnOK(f)
               /\ f.st = k.st /\ f.generating = k.generating /\ f.complete = k.complete
    <2>1. 0 \in 0..(OutputLimit + 1) /\ 0 <= OutputLimit
      BY <1>0
    <2>2. /\ f \in Connection /\ f.out = 0 /\ f.st = k.st /\ f.generating = k.generating
          /\ f.complete = k.complete /\ f.gone /\ f.lost = k.lost
          /\ f.failed = k.failed /\ f.closeAfter
      BY <1>0, <1>2, <2>1 DEF Connection
    <2>3. ConnOK(f)
      BY <1>0, <2>1, <2>2 DEF ConnOK
    <2> QED
      BY <2>2, <2>3
  <1> QED
    BY <1>1, <1>2 DEF Flush

\* A heartbeat is one unit in an empty buffer of an unfinished response.
LEMMA HeartbeatFacts ==
    ASSUME ApiAssumption, NEW k, ConnOK(k), NEW expired \in BOOLEAN
    PROVE  LET h == Heartbeat(k, expired)
           IN  /\ ConnOK(h)
               /\ h.st = k.st /\ h.generating = k.generating /\ h.complete = k.complete
               /\ k.complete => h = k
  <1> DEFINE h == [k EXCEPT !.out = 1]
  <1>1. \/ Heartbeat(k, expired) = k
        \/ Heartbeat(k, expired) = h /\ k.generating /\ ~k.complete
    BY DEF Heartbeat
  <1>2. ASSUME k.generating, ~k.complete
        PROVE  ConnOK(h) /\ h.st = k.st /\ h.generating = k.generating /\ h.complete = k.complete
    <2>1. /\ k \in Connection /\ 1 \in 0..(OutputLimit + 1) /\ 1 <= OutputLimit
          /\ k.lost => k.failed
      BY DEF ConnOK, ApiAssumption
    <2>2. /\ h \in Connection /\ h.out = 1 /\ h.st = k.st /\ h.generating = k.generating
          /\ h.complete = k.complete /\ h.lost = k.lost /\ h.failed = k.failed
      BY <2>1 DEF Connection
    <2> HIDE DEF h
    <2>3. ConnOK(h)
      BY <1>2, <2>1, <2>2 DEF ConnOK
    <2> QED
      BY <2>2, <2>3
  <1> HIDE DEF h
  <1> QED
    BY <1>1, <1>2

\* api_frontend_reap: an unfinished connection of the engine is left alone, and one is
\* kept for another request only if its response went out whole.
LEMMA ReapFacts ==
    ASSUME ApiAssumption, NEW k, ConnOK(k), k.st = "open", NEW idle \in BOOLEAN
    PROVE  LET r == ReapOne(k, idle)
           IN  /\ ConnOK(r) /\ r.st \in {"open", "freed"}
               /\ k.generating /\ ~k.complete => r = k
               /\ k.complete /\ r.st = "open" /\ ~r.complete => ~k.lost /\ k.out = 0
  <1> DEFINE g == [k EXCEPT !.generating = FALSE]
             r == ReapOne(k, idle)
  <1>0. /\ k \in Connection /\ OutputLimit \in Nat /\ k.out \in 0..(OutputLimit + 1)
        /\ k.lost => k.failed
        /\ k.complete /\ k.failed => k.closeAfter
    BY DEF ConnOK, Connection, ApiAssumption
  <1>1. CASE Flushed(k) /\ Reusable(k)
    <2>1. r = Reset(g)
      BY <1>1 DEF ReapOne, Free
    <2>2. k.complete /\ k.out = 0 /\ ~k.closeAfter /\ ~k.failed /\ ~k.lost
      BY <1>0, <1>1 DEF Flushed, Reusable
    <2>3. g \in Connection /\ g.st = k.st /\ g.out = k.out /\ g.generating = FALSE
      BY <1>0 DEF Connection
    <2> HIDE DEF g, r
    <2>4. /\ r \in Connection /\ r.st = g.st /\ r.out = g.out /\ r.generating = g.generating
          /\ ~r.chunked /\ ~r.failed /\ ~r.closeAfter /\ ~r.complete /\ ~r.lost
      BY <2>1, <2>3 DEF Connection, Reset
    <2>5. ConnOK(r)
      BY <1>0, <2>2, <2>3, <2>4 DEF ConnOK
    <2> QED
      BY <2>2, <2>3, <2>4, <2>5 DEF r
  <1>2. CASE Flushed(k) /\ ~Reusable(k)
    <2>1. r = Fresh("freed") /\ k.complete
      BY <1>2 DEF ReapOne, Free, Flushed
    <2> HIDE DEF r
    <2> QED
      BY <2>1, FreshOK DEF r
  <1>3. CASE ~Flushed(k) /\ ~k.generating /\ Abandoned(k, idle)
    <2>1. r = Fresh("freed")
      BY <1>3 DEF ReapOne, Free
    <2> HIDE DEF r
    <2> QED
      BY <1>3, <2>1, FreshOK DEF r
  <1>4. CASE ~Flushed(k) /\ ~(~k.generating /\ Abandoned(k, idle))
    <2>1. r = k
      BY <1>4 DEF ReapOne
    <2> HIDE DEF r
    <2> QED
      BY <2>1 DEF r
  <1>5. k.generating /\ ~k.complete => ~Flushed(k)
    BY DEF Flushed
  <1> QED
    BY <1>1, <1>2, <1>3, <1>4
-----------------------------------------------------------------------------
(* The front-end's turn on one connection. *)

\* What one connection's change leaves of the others.
LEMMA OneConnection ==
    ASSUME AInv, NEW c \in Conns, NEW f, ConnOK(f), f.st = conn[c].st,
           conn[c].complete => f.complete, conn' = [conn EXCEPT ![c] = f]
    PROVE  /\ ConnsOK' /\ ReusesWhole
           /\ conn'[c] = f /\ \A d \in Conns : d # c => conn'[d] = conn[d]
           /\ \A d \in Conns : conn'[d].st = conn[d].st
  <1>1. conn \in [Conns -> Connection] /\ \A d \in Conns : ConnOK(conn[d])
    BY DEF AInv, ConnsOK
  <1>2. f \in Connection
    BY DEF ConnOK
  <1>3. /\ conn' \in [Conns -> Connection] /\ conn'[c] = f
        /\ \A d \in Conns : d # c => conn'[d] = conn[d]
    BY <1>1, <1>2
  <1>4. \A d \in Conns : ConnOK(conn'[d])
    BY <1>1, <1>3
  <1>5. \A d \in Conns : conn'[d].st = conn[d].st
    BY <1>3
  <1>6. ConnsOK'
    BY <1>3, <1>4 DEF ConnsOK, ConnOK
  <1>7. ReusesWhole
    BY <1>3 DEF ReusesWhole
  <1> QED
    BY <1>3, <1>5, <1>6, <1>7

\* The connection whose turn it is is open, and the engine runs on.
LEMMA TurnFacts ==
    ASSUME ApiAssumption, AInv, NEW c \in Conns, Turn(c)
    PROVE  /\ c \in todo /\ conn[c].st = "open"
           /\ fpc = "service" /\ epc # "done"
  <1>1. todo \subseteq Nat /\ todo # {} /\ c = Max(todo) /\ fpc = "service"
        /\ \A t \in todo : t <= Clients
    BY DEF AInv, TypesOK, Turn, Conns
  <1>2. Clients \in Nat
    BY DEF ApiAssumption
  <1>3. c \in todo
    BY <1>1, <1>2, MaxIn
  <1> QED
    BY <1>1, <1>3 DEF AInv, ThreadsOK

\* Whether or not it is flushed, the turn leaves the connection with the same owner.
LEMMA ServicedFacts ==
    ASSUME ApiAssumption, NEW c, NEW k, ConnOK(k), Serviced(c, k)
    PROVE  /\ todo' = todo \ {c}
           /\ \E f : /\ conn' = [conn EXCEPT ![c] = f]
                     /\ ConnOK(f) /\ f.st = k.st
                     /\ f.generating = k.generating /\ f.complete = k.complete
                     /\ Owned(k) => Owned(f)
  <1>1. PICK f \in (IF WantsOutput(conn[c]) THEN Flush(c, k) ELSE {k}) :
          conn' = [conn EXCEPT ![c] = f]
    BY DEF Serviced
  <1>2. /\ ConnOK(f) /\ f.st = k.st
        /\ f.generating = k.generating /\ f.complete = k.complete
        /\ Owned(k) => Owned(f)
    <2>1. CASE f \in Flush(c, k)
      BY <2>1, FlushFacts DEF Owned
    <2>2. CASE f = k
      BY <2>2
    <2> QED
      BY <2>1, <2>2
  <1> QED
    BY <1>1, <1>2 DEF Serviced

\* A turn that admits nothing and leaves the engine's connections the engine's.
LEMMA TurnKeeps ==
    ASSUME ApiAssumption, AInv, NEW c \in Conns, Turn(c), NEW k, ConnOK(k),
           k.st = conn[c].st, conn[c].complete => k.complete,
           conn[c].generating => k.generating /\ k.complete = conn[c].complete,
           Serviced(c, k),
           client' \in [Conns -> Client], \A d \in Conns : client'[d].mode = client[d].mode,
           UNCHANGED <<queue, outstanding, control, fpc, engine>>
    PROVE  AInv' /\ ReusesWhole
  <1>1. PICK f : /\ conn' = [conn EXCEPT ![c] = f] /\ ConnOK(f) /\ f.st = k.st
                 /\ f.generating = k.generating /\ f.complete = k.complete
    BY ServicedFacts
  <1>2. /\ todo' = todo \ {c} /\ queue' = queue /\ outstanding' = outstanding
        /\ stopping' = stopping /\ frontStopping' = frontStopping /\ fpc' = fpc
        /\ epc' = epc /\ current' = current /\ fatal' = fatal
    BY ServicedFacts DEF control, engine
  <1>3. /\ ConnsOK' /\ ReusesWhole
        /\ conn'[c] = f /\ \A d \in Conns : d # c => conn'[d] = conn[d]
        /\ \A d \in Conns : conn'[d].st = conn[d].st
    BY <1>1, OneConnection
  <1>4. TypesOK'
    BY <1>2 DEF AInv, TypesOK
  <1>5. ThreadsOK'
    <2>1. fpc' = "service" => \A d \in todo' : conn'[d].st = "open"
      BY <1>2, <1>3 DEF AInv, ThreadsOK, TypesOK
    <2> QED
      BY <1>2, <2>1 DEF AInv, ThreadsOK
  <1>6. AdmissionExact'
    BY <1>2 DEF AInv, AdmissionExact
  <1>7. \A d \in Conns : conn[d].generating /\ ~conn[d].complete =>
                            conn'[d].generating /\ ~conn'[d].complete
    BY <1>1, <1>3
  <1>8. EngineOwnsItsConnections'
    <2> SUFFICES ASSUME epc # "done", fpc # "exit"
                 PROVE  /\ \A i \in DOMAIN queue :
                             /\ conn'[queue[i]].st = "open" /\ conn'[queue[i]].generating
                             /\ ~conn'[queue[i]].complete
                             /\ Serving => queue[i] # current
                             /\ \A j \in DOMAIN queue : queue[i] = queue[j] => i = j
                        /\ Serving => /\ conn'[current].st = "open" /\ conn'[current].generating
                                      /\ ~conn'[current].complete
      BY <1>2 DEF EngineOwnsItsConnections, Serving
    <2>1. \A i \in DOMAIN queue : queue[i] \in Conns
      BY DEF AInv, TypesOK
    <2>2. Serving => current \in Conns
      BY DEF AInv, TypesOK, ThreadsOK, Serving
    <2> QED
      BY <1>3, <1>7, <2>1, <2>2 DEF AInv, EngineOwnsItsConnections
  <1>9. AcceptedOK'
    BY <1>3 DEF AInv, AcceptedOK
  <1> QED
    BY <1>3, <1>4, <1>5, <1>6, <1>8, <1>9 DEF AInv

\* A turn that admits a chat request: it is counted, and the connection, which was nobody
\* else's, becomes the engine's.
LEMMA TurnAdmits ==
    ASSUME ApiAssumption, AInv, NEW c \in Conns, Turn(c), ~conn[c].generating,
           NEW k, ConnOK(k), k.st = conn[c].st, Owned(k),
           ~conn[c].complete,
           Serviced(c, k), Room,
           queue' = Append(queue, c), outstanding' = outstanding + 1,
           client' \in [Conns -> Client], \A d \in Conns : client'[d].mode = client[d].mode,
           UNCHANGED <<control, fpc, engine>>
    PROVE  AInv' /\ ReusesWhole
  <1>1. PICK f : /\ conn' = [conn EXCEPT ![c] = f] /\ ConnOK(f) /\ f.st = k.st
                 /\ Owned(f)
    BY ServicedFacts
  <1>2. /\ todo' = todo \ {c}
        /\ stopping' = stopping /\ frontStopping' = frontStopping /\ fpc' = fpc
        /\ epc' = epc /\ current' = current /\ fatal' = fatal
    BY ServicedFacts DEF control, engine
  <1>3. /\ ConnsOK' /\ ReusesWhole
        /\ conn'[c] = f /\ \A d \in Conns : d # c => conn'[d] = conn[d]
        /\ \A d \in Conns : conn'[d].st = conn[d].st
    BY <1>1, OneConnection
  <1>4. /\ conn[c].st = "open" /\ fpc = "service" /\ epc # "done"
    BY TurnFacts
  <1>5. queue \in Seq(Conns) /\ outstanding \in Nat
    BY DEF AInv, TypesOK
  <1>6. /\ queue' \in Seq(Conns) /\ Len(queue') = Len(queue) + 1
        /\ DOMAIN queue = 1..Len(queue) /\ DOMAIN queue' = 1..(Len(queue) + 1)
        /\ Len(queue) \in Nat
        /\ \A i \in 1..Len(queue) : queue'[i] = queue[i]
        /\ queue'[Len(queue) + 1] = c
    BY <1>5
  <1>7. TypesOK'
    BY <1>2, <1>5, <1>6 DEF AInv, TypesOK
  <1>8. ThreadsOK'
    <2>1. fpc' = "service" => \A d \in todo' : conn'[d].st = "open"
      BY <1>2, <1>3 DEF AInv, ThreadsOK, TypesOK
    <2> QED
      BY <1>2, <2>1 DEF AInv, ThreadsOK
  <1>9. AdmissionExact'
    <2>1. outstanding = Len(queue) + (IF current = None THEN 0 ELSE 1)
      BY <1>4 DEF AInv, AdmissionExact
    <2>2. outstanding < Capacity /\ Capacity \in Nat
      BY DEF Room, ApiAssumption
    <2>3. outstanding' <= Capacity
      BY <1>5, <2>2
    <2>4. outstanding' = Len(queue') + (IF current' = None THEN 0 ELSE 1)
      <3>1. CASE current = None
        BY <1>2, <1>5, <1>6, <2>1, <3>1
      <3>2. CASE current # None
        BY <1>2, <1>5, <1>6, <2>1, <3>2
      <3> QED
        BY <3>1, <3>2
    <2> QED
      BY <2>3, <2>4 DEF AdmissionExact
  <1>10. EngineOwnsItsConnections'
    <2>1. /\ \A i \in DOMAIN queue :
               /\ conn[queue[i]].st = "open" /\ conn[queue[i]].generating
               /\ ~conn[queue[i]].complete
               /\ Serving => queue[i] # current
               /\ \A j \in DOMAIN queue : queue[i] = queue[j] => i = j
          /\ Serving => /\ conn[current].st = "open" /\ conn[current].generating
                        /\ ~conn[current].complete
      BY <1>4 DEF AInv, EngineOwnsItsConnections
    <2>2. \A i \in DOMAIN queue : queue[i] \in Conns /\ queue[i] # c
      BY <1>5, <2>1
    <2>3. Serving => current \in Conns /\ current # c
      BY <2>1 DEF AInv, TypesOK, ThreadsOK, Serving
    <2>4. ASSUME NEW i \in DOMAIN queue'
          PROVE  /\ conn'[queue'[i]].st = "open" /\ conn'[queue'[i]].generating
                 /\ ~conn'[queue'[i]].complete
                 /\ Serving => queue'[i] # current
      <3>1. CASE i \in 1..Len(queue)
        <4>1. queue'[i] = queue[i] /\ queue[i] \in Conns /\ queue[i] # c /\ i \in DOMAIN queue
          BY <1>6, <2>2, <3>1
        <4>2. conn'[queue[i]] = conn[queue[i]]
          BY <1>3, <4>1
        <4> QED
          BY <2>1, <4>1, <4>2
      <3>2. CASE i = Len(queue) + 1
        <4>1. queue'[i] = c /\ conn'[c] = f /\ f.st = "open"
          BY <1>1, <1>3, <1>4, <1>6, <3>2
        <4>2. f.generating /\ ~f.complete
          BY <1>1 DEF Owned
        <4> QED
          BY <2>3, <4>1, <4>2
      <3> QED
        BY <1>6, <3>1, <3>2
    <2>5. ASSUME NEW i \in DOMAIN queue', NEW j \in DOMAIN queue', queue'[i] = queue'[j]
          PROVE  i = j
      <3>1. CASE i \in 1..Len(queue) /\ j \in 1..Len(queue)
        BY <1>6, <2>1, <2>5, <3>1
      <3>2. CASE i = Len(queue) + 1 \/ j = Len(queue) + 1
        BY <1>6, <2>2, <2>5, <3>2
      <3> QED
        BY <1>6, <3>1, <3>2
    <2>6. Serving => /\ conn'[current].st = "open" /\ conn'[current].generating
                     /\ ~conn'[current].complete
      BY <1>3, <2>1, <2>3
    <2>7. Serving' = Serving
      BY <1>2 DEF Serving
    <2> QED
      BY <1>2, <2>4, <2>5, <2>6, <2>7 DEF EngineOwnsItsConnections
  <1>11. AcceptedOK'
    BY <1>3 DEF AInv, AcceptedOK
  <1> QED
    BY <1>3, <1>7, <1>8, <1>9, <1>10, <1>11 DEF AInv

\* Emptying a socket keeps the clients typed.
LEMMA ClientRead ==
    ASSUME AInv, NEW c \in Conns
    PROVE  LET e == [client EXCEPT ![c].sock = <<>>]
           IN  /\ client[c] \in Client
               /\ e \in [Conns -> Client] /\ \A d \in Conns : e[d].mode = client[d].mode
  <1>1. client \in [Conns -> Client]
    BY DEF AInv, TypesOK
  <1>2. client[c] \in Client /\ <<>> \in Seq(Kinds)
    BY <1>1
  <1> DEFINE v == [client[c] EXCEPT !.sock = <<>>]
             e == [client EXCEPT ![c] = v]
  <1>3. v \in Client /\ v.mode = client[c].mode
    BY <1>2 DEF Client
  <1>4. e = [client EXCEPT ![c].sock = <<>>]
    BY <1>1
  <1> HIDE DEF v
  <1>5. e \in [Conns -> Client] /\ \A d \in Conns : e[d].mode = client[d].mode
    BY <1>1, <1>3
  <1> HIDE DEF e
  <1> QED
    BY <1>2, <1>4, <1>5

\* What recv leaves of a connection that has no owner.
LEMMA ReceivedFacts ==
    ASSUME AInv, NEW c \in Conns, conn[c].st = "open", ~conn[c].generating, NEW k \in Received(c)
    PROVE  /\ ConnOK(k) /\ k.st = conn[c].st /\ k.complete = conn[c].complete
           /\ k.generating = conn[c].generating
  <1> DEFINE o == conn[c]
             s == o.input \o client[c].sock
             a == [o EXCEPT !.input = s]
  <1>1. /\ o \in Connection /\ ConnOK(o)
    BY DEF AInv, ConnsOK
  <1>2. s \in Seq(Kinds)
    <2>1. o.input \in Seq(Kinds)
      BY <1>1 DEF Connection
    <2>2. client[c] \in Client
      BY ClientRead
    <2>3. client[c].sock \in Seq(Kinds)
      BY <2>2 DEF Client
    <2> QED
      BY <2>1, <2>3
  <1>3. \/ k = a
        \/ k = [a EXCEPT !.peerClosed = TRUE, !.keepAlive = FALSE]
        \/ k = [a EXCEPT !.gone = TRUE, !.closeAfter = TRUE]
    <2>1. client[c] \in Client
      BY ClientRead
    <2>2. client[c].mode \in {"open", "half", "closed"}
      BY <2>1 DEF Client, AInv, AcceptedOK
    <2>3. CASE client[c].mode = "open"
      BY <2>3 DEF Received
    <2>4. CASE client[c].mode = "half"
      BY <2>4 DEF Received
    <2>5. CASE client[c].mode = "closed"
      BY <2>5 DEF Received
    <2> QED
      BY <2>2, <2>3, <2>4, <2>5
  <1>4. o.generating = conn[c].generating /\ ~o.generating
    OBVIOUS
  <1> HIDE DEF s, o
  <1>5. /\ a \in Connection /\ a.st = o.st /\ a.generating = o.generating
        /\ a.complete = o.complete /\ a.gone = o.gone /\ a.out = o.out /\ a.lost = o.lost
        /\ a.failed = o.failed /\ a.closeAfter = o.closeAfter /\ a.chunked = o.chunked
    BY <1>1, <1>2 DEF Connection
  <1>6. ConnOK(a)
    BY <1>1, <1>5 DEF ConnOK
  <1> HIDE DEF a
  <1>7. ASSUME k = [a EXCEPT !.peerClosed = TRUE, !.keepAlive = FALSE]
        PROVE  ConnOK(k) /\ k.st = a.st /\ k.complete = a.complete /\ k.generating = a.generating
    <2>1. /\ k \in Connection /\ k.st = a.st /\ k.generating = a.generating
          /\ k.complete = a.complete /\ k.gone = a.gone /\ k.out = a.out /\ k.lost = a.lost
          /\ k.failed = a.failed /\ k.closeAfter = a.closeAfter /\ k.chunked = a.chunked
      BY <1>5, <1>7 DEF Connection
    <2> QED
      BY <1>6, <2>1 DEF ConnOK
  <1>8. ASSUME k = [a EXCEPT !.gone = TRUE, !.closeAfter = TRUE]
        PROVE  ConnOK(k) /\ k.st = a.st /\ k.complete = a.complete /\ k.generating = a.generating
    <2>1. /\ k \in Connection /\ k.st = a.st /\ k.generating = a.generating
          /\ k.complete = a.complete /\ k.gone /\ k.out = a.out /\ k.lost = a.lost
          /\ k.failed = a.failed /\ k.closeAfter
      BY <1>5, <1>8 DEF Connection
    <2> QED
      BY <1>6, <2>1 DEF ConnOK
  <1>9. ConnOK(k) /\ k.st = a.st /\ k.complete = a.complete /\ k.generating = a.generating
    BY <1>3, <1>6, <1>7, <1>8
  <1> QED
    BY <1>5, <1>9 DEF o

\* The front-end's turn on a connection preserves the invariant.
LEMMA TurnStep ==
    ASSUME ApiAssumption, AInv, NEW c \in Conns,
           FrontendDetect(c) \/ FrontendRead(c) \/ FrontendQuiet(c)
    PROVE  AInv' /\ ReusesWhole
  <1>0. Turn(c)
    BY DEF FrontendDetect, FrontendRead, FrontendQuiet
  <1>1. conn[c] \in Connection /\ ConnOK(conn[c]) /\ conn[c].st = "open"
    BY <1>0, TurnFacts DEF AInv, ConnsOK
  <1>2. CASE FrontendDetect(c)
    <2> DEFINE g == conn[c].gone \/ client[c].mode # "open"
               o == conn[c]
               k == [o EXCEPT !.gone = g]
    <2>1. /\ Serviced(c, k) /\ conn[c].generating /\ client' = client
          /\ UNCHANGED <<queue, outstanding, control, fpc, engine>>
      BY <1>2 DEF FrontendDetect
    <2>2. g \in BOOLEAN /\ (o.gone => g) /\ o \in Connection /\ ConnOK(o)
      BY <1>1
    <2> HIDE DEF g, o
    <2>3. /\ k \in Connection /\ k.st = o.st /\ k.generating = o.generating
          /\ k.complete = o.complete /\ k.gone = g /\ k.out = o.out /\ k.lost = o.lost
          /\ k.failed = o.failed /\ k.closeAfter = o.closeAfter /\ k.chunked = o.chunked
      BY <2>2 DEF Connection
    <2> HIDE DEF k
    <2>4. ConnOK(k)
      BY <2>2, <2>3 DEF ConnOK
    <2>5. /\ k.st = conn[c].st /\ (conn[c].complete => k.complete)
          /\ conn[c].generating => k.generating /\ k.complete = conn[c].complete
      BY <2>3 DEF o
    <2>6. client' \in [Conns -> Client] /\ \A d \in Conns : client'[d].mode = client[d].mode
      BY <2>1 DEF AInv, TypesOK
    <2> QED
      BY <1>0, <2>1, <2>4, <2>5, <2>6, TurnKeeps
  <1>3. CASE FrontendQuiet(c)
    <2> DEFINE k == conn[c]
    <2>1. /\ Serviced(c, k) /\ client' = client
          /\ UNCHANGED <<queue, outstanding, control, fpc, engine>>
      BY <1>3 DEF FrontendQuiet
    <2>2. client' \in [Conns -> Client] /\ \A d \in Conns : client'[d].mode = client[d].mode
      BY <2>1 DEF AInv, TypesOK
    <2> QED
      BY <1>0, <1>1, <2>1, <2>2, TurnKeeps
  <1>4. CASE FrontendRead(c)
    <2>1. PICK k \in Received(c) : ParseOne(c, k)
      BY <1>4 DEF FrontendRead
    <2>2. /\ ~conn[c].generating /\ UNCHANGED <<control, fpc, engine>>
          /\ client' = [client EXCEPT ![c].sock = <<>>]
      BY <1>4 DEF FrontendRead
    <2>3. client' \in [Conns -> Client] /\ \A d \in Conns : client'[d].mode = client[d].mode
      BY <2>2, ClientRead
    <2>4. /\ ConnOK(k) /\ k.st = conn[c].st /\ k.complete = conn[c].complete
          /\ k.generating = conn[c].generating
      BY <1>1, <2>2, ReceivedFacts
    <2>5. CASE k.input = <<>> \/ k.gone \/ k.complete
      <3>1. Serviced(c, k) /\ UNCHANGED <<queue, outstanding>>
        BY <2>1, <2>5 DEF ParseOne
      <3> QED
        BY <1>0, <2>2, <2>3, <2>4, <3>1, TurnKeeps
    <2>6. ASSUME ~k.complete, NEW a, ConnOK(a), a.st = k.st, a.complete = k.complete,
                 NEW close \in BOOLEAN, Serviced(c, CompleteResponse(Append1(a), close)),
                 UNCHANGED <<queue, outstanding>>
          PROVE  AInv' /\ ReusesWhole
      <3> DEFINE v == CompleteResponse(Append1(a), close)
      <3>1. ~a.complete
        BY <2>6
      <3>2. ConnOK(v) /\ v.st = a.st /\ v.complete = TRUE
        BY <2>6, <3>1, RespondFacts
      <3>3. Serviced(c, v)
        BY <2>6
      <3> HIDE DEF v
      <3>4. v.st = conn[c].st /\ v.complete
        BY <2>4, <2>6, <3>2
      <3> QED
        BY <1>0, <2>2, <2>3, <2>6, <3>2, <3>3, <3>4, TurnKeeps
    <2>7. CASE ~(k.input = <<>> \/ k.gone \/ k.complete) /\ Head(k.input) = "bad"
      <3>1. Serviced(c, CompleteResponse(Append1(k), TRUE)) /\ UNCHANGED <<queue, outstanding>>
        BY <2>1, <2>7 DEF ParseOne
      <3> QED
        BY <2>4, <2>6, <2>7, <3>1
    <2>8. CASE ~(k.input = <<>> \/ k.gone \/ k.complete) /\ Head(k.input) # "bad"
      <3>1. PICK keepAlive \in BOOLEAN :
              Dispatch(c, [k EXCEPT !.input = Tail(@)], Head(k.input), keepAlive)
        BY <2>1, <2>8 DEF ParseOne
      <3> DEFINE s == Tail(k.input)
                 kind == Head(k.input)
                 l == [k EXCEPT !.input = s]
                 b == keepAlive /\ ~l.peerClosed
                 d == [l EXCEPT !.keepAlive = b]
      <3>2. Dispatch(c, l, kind, keepAlive)
        BY <3>1
      <3>3. s \in Seq(Kinds) /\ b \in BOOLEAN /\ k \in Connection
        <4>1. k \in Connection /\ k.input \in Seq(Kinds) /\ k.input # <<>>
          BY <2>4, <2>8 DEF ConnOK, Connection
        <4>2. s \in Seq(Kinds)
          BY <4>1
        <4> QED
          BY <4>1, <4>2
      <3> HIDE DEF s, kind
      <3>4. /\ l \in Connection /\ l.st = k.st /\ l.generating = k.generating
            /\ l.complete = k.complete /\ l.gone = k.gone /\ l.out = k.out /\ l.lost = k.lost
            /\ l.failed = k.failed /\ l.closeAfter = k.closeAfter /\ l.chunked = k.chunked
        BY <3>3 DEF Connection
      <3> HIDE DEF l, b
      <3>5. /\ d \in Connection /\ d.st = l.st /\ d.generating = l.generating
            /\ d.complete = l.complete /\ d.gone = l.gone /\ d.out = l.out /\ d.lost = l.lost
            /\ d.failed = l.failed /\ d.closeAfter = l.closeAfter /\ d.chunked = l.chunked
        BY <3>3, <3>4 DEF Connection
      <3>6. d = [l EXCEPT !.keepAlive = keepAlive /\ ~l.peerClosed]
        BY DEF b
      <3> HIDE DEF d
      <3>7. ConnOK(d) /\ d.st = k.st /\ d.complete = k.complete /\ ~k.complete
        BY <2>4, <2>8, <3>4, <3>5 DEF ConnOK
      <3>8. CASE kind = "chat" /\ ~stopping /\ Room
        <4> DEFINE e == [d EXCEPT !.generating = TRUE]
        <4>1. /\ Serviced(c, e) /\ queue' = Append(queue, c) /\ outstanding' = outstanding + 1
          BY <3>2, <3>6, <3>8 DEF Dispatch
        <4>2. /\ e \in Connection /\ e.st = d.st /\ e.generating
              /\ e.complete = d.complete /\ e.gone = d.gone /\ e.out = d.out /\ e.lost = d.lost
              /\ e.failed = d.failed /\ e.closeAfter = d.closeAfter /\ e.chunked = d.chunked
          BY <3>5 DEF Connection
        <4> HIDE DEF e
        <4>3. ConnOK(e)
          BY <3>7, <4>2 DEF ConnOK
        <4>4. Owned(e) /\ e.st = conn[c].st /\ ~conn[c].complete
          BY <1>1, <2>4, <3>7, <4>2 DEF Owned
        <4> QED
          BY <1>0, <2>2, <2>3, <3>8, <4>1, <4>3, <4>4, TurnAdmits
      <3>9. CASE ~(kind = "chat" /\ ~stopping /\ Room)
        <4>1. Serviced(c, CompleteResponse(Append1(d), ~d.keepAlive))
              /\ UNCHANGED <<queue, outstanding>>
          BY <3>2, <3>6, <3>9 DEF Dispatch, Respond
        <4>2. (~d.keepAlive) \in BOOLEAN
          OBVIOUS
        <4> QED
          BY <2>6, <3>7, <4>1, <4>2
      <3> QED
        BY <3>8, <3>9
    <2> QED
      BY <2>5, <2>7, <2>8
  <1> QED
    BY <1>2, <1>3, <1>4
-----------------------------------------------------------------------------
(* The rest of the front-end thread's loop. *)

\* Closing the sockets of `freed' keeps the clients typed.
LEMMA DisconnectedFacts ==
    ASSUME ApiAssumption, AInv, NEW freed
    PROVE  /\ Disconnected(freed) \in [Conns -> Client]
           /\ \A c \in Conns : client[c].mode # "none" => Disconnected(freed)[c].mode # "none"
  <1>1. client \in [Conns -> Client]
    BY DEF AInv, TypesOK
  <1>2. Ended("closed") \in Client /\ Ended("closed").mode = "closed"
    <2>1. 0 \in 0..Requests /\ <<>> \in Seq(Kinds)
      BY DEF ApiAssumption
    <2> QED
      BY <2>1 DEF Ended, Client
  <1>3. Disconnected(freed) = [c \in Conns |-> IF c \in freed THEN Ended("closed") ELSE client[c]]
    BY DEF Disconnected
  <1> QED
    BY <1>1, <1>2, <1>3

\* When connections change outside the queue and the engine's hands, ownership stays.
LEMMA OwnersStay ==
    ASSUME AInv,
           fpc # "exit" /\ epc # "done" =>
               \A c \in Conns : Owned(conn[c]) => Owned(conn'[c]),
           UNCHANGED <<queue, engine>>, fpc' = "exit" \/ fpc # "exit"
    PROVE  EngineOwnsItsConnections'
  <1>1. queue' = queue /\ epc' = epc /\ current' = current
    BY DEF engine
  <1> SUFFICES ASSUME epc # "done", fpc # "exit"
               PROVE  /\ \A i \in DOMAIN queue :
                           /\ conn'[queue[i]].st = "open" /\ conn'[queue[i]].generating
                           /\ ~conn'[queue[i]].complete
                           /\ Serving => queue[i] # current
                           /\ \A j \in DOMAIN queue : queue[i] = queue[j] => i = j
                      /\ Serving => /\ conn'[current].st = "open" /\ conn'[current].generating
                                    /\ ~conn'[current].complete
    BY <1>1 DEF EngineOwnsItsConnections, Serving
  <1>2. \A i \in DOMAIN queue : queue[i] \in Conns
    BY DEF AInv, TypesOK
  <1>3. Serving => current \in Conns
    BY DEF AInv, TypesOK, ThreadsOK, Serving
  <1> QED
    BY <1>2, <1>3 DEF AInv, EngineOwnsItsConnections, Owned

\* api_frontend_accept touches only connections that were never open.
LEMMA PollStep ==
    ASSUME ApiAssumption, AInv, FrontendPoll
    PROVE  AInv' /\ ReusesWhole
  <1> DEFINE backlog == {c \in Conns : client[c].mode # "none" /\ conn[c].st = "new"}
  <1>1. PICK accepted \in SUBSET backlog :
          /\ conn' = [c \in Conns |->
                        IF c \in accepted THEN Fresh("open")
                        ELSE IF c \in backlog THEN Fresh("freed") ELSE conn[c]]
          /\ client' = Disconnected(backlog \ accepted)
    BY DEF FrontendPoll
  <1>2. /\ todo' = Live /\ fpc = "poll" /\ fpc' = "service" /\ ~frontStopping
        /\ queue' = queue /\ outstanding' = outstanding
        /\ stopping' = stopping /\ frontStopping' = frontStopping
        /\ epc' = epc /\ current' = current /\ fatal' = fatal
    BY DEF FrontendPoll, control, engine
  <1>3. /\ ConnOK(Fresh("open")) /\ Fresh("open").st = "open"
        /\ ConnOK(Fresh("freed")) /\ Fresh("freed").st = "freed"
    BY FreshOK
  <1>4. conn \in [Conns -> Connection] /\ \A c \in Conns : ConnOK(conn[c])
    BY DEF AInv, ConnsOK
  <1>5. ASSUME NEW c \in Conns
        PROVE  /\ ConnOK(conn'[c]) /\ (conn[c].st = "open" => conn'[c] = conn[c])
               /\ conn'[c].st = "open" => client[c].mode # "none" \/ conn[c].st = "open"
    <2>1. CASE c \in accepted
      <3>1. conn'[c] = Fresh("open") /\ conn[c].st # "open" /\ client[c].mode # "none"
        BY <1>1, <2>1
      <3> QED
        BY <1>3, <3>1
    <2>2. CASE c \notin accepted /\ c \in backlog
      <3>1. conn'[c] = Fresh("freed") /\ conn[c].st # "open"
        BY <1>1, <2>2
      <3> QED
        BY <1>3, <3>1
    <2>3. CASE c \notin backlog
      <3>1. conn'[c] = conn[c]
        BY <1>1, <2>3
      <3> QED
        BY <1>4, <3>1
    <2> QED
      BY <2>1, <2>2, <2>3
  <1> HIDE DEF backlog
  <1>6. ConnsOK'
    <2>1. \A c \in Conns : conn'[c] \in Connection
      BY <1>5 DEF ConnOK
    <2> DEFINE F(c) == IF c \in accepted THEN Fresh("open")
                       ELSE IF c \in backlog THEN Fresh("freed") ELSE conn[c]
    <2>2. conn' = [c \in Conns |-> F(c)]
      BY <1>1
    <2> HIDE DEF F
    <2>3. conn' \in [Conns -> Connection]
      BY <2>1, <2>2
    <2> QED
      BY <1>5, <2>3 DEF ConnsOK, ConnOK
  <1>7. TypesOK'
    <2>1. client' \in [Conns -> Client]
      BY <1>1, DisconnectedFacts
    <2> QED
      BY <1>2, <2>1 DEF AInv, TypesOK, Live
  <1>8. AcceptedOK'
    <2> SUFFICES ASSUME NEW c \in Conns, conn'[c].st = "open" PROVE client'[c].mode # "none"
      BY DEF AcceptedOK
    <2>1. client[c].mode # "none"
      BY <1>5 DEF AInv, AcceptedOK
    <2> QED
      BY <1>1, <2>1, DisconnectedFacts
  <1>9. ThreadsOK'
    <2>1. \A c \in Live : c \in Conns /\ conn'[c].st = "open"
      BY <1>5 DEF Live
    <2> QED
      BY <1>2, <2>1 DEF AInv, ThreadsOK
  <1>10. AdmissionExact'
    BY <1>2 DEF AInv, AdmissionExact
  <1>11. EngineOwnsItsConnections'
    <2>1. \A c \in Conns : Owned(conn[c]) => Owned(conn'[c])
      BY <1>5 DEF Owned
    <2> QED
      BY <1>2, <2>1, OwnersStay DEF engine
  <1>12. ReusesWhole
    BY <1>5 DEF ReusesWhole
  <1> QED
    BY <1>6, <1>7, <1>8, <1>9, <1>10, <1>11, <1>12 DEF AInv

\* The loop's end frees what is open; the engine holds nothing any more.
LEMMA ExitStep ==
    ASSUME ApiAssumption, AInv, FrontendExit
    PROVE  AInv' /\ ReusesWhole
  <1>1. /\ conn' = [c \in Conns |-> IF c \in Live THEN Free(conn[c]) ELSE conn[c]]
        /\ client' = Disconnected(Live) /\ fpc' = "exit" /\ frontStopping
        /\ queue' = queue /\ outstanding' = outstanding
        /\ stopping' = stopping /\ frontStopping' = frontStopping /\ todo' = todo
        /\ epc' = epc /\ current' = current /\ fatal' = fatal
    BY DEF FrontendExit, control, engine
  <1>2. ConnOK(Fresh("freed")) /\ Fresh("freed").st = "freed"
    BY FreshOK
  <1>3. conn \in [Conns -> Connection] /\ \A c \in Conns : ConnOK(conn[c])
    BY DEF AInv, ConnsOK
  <1>4. ASSUME NEW c \in Conns PROVE ConnOK(conn'[c]) /\ conn'[c].st # "open"
    <2>1. CASE c \in Live
      <3>1. conn'[c] = Fresh("freed")
        BY <1>1, <2>1 DEF Free
      <3> QED
        BY <1>2, <3>1
    <2>2. CASE c \notin Live
      <3>1. conn'[c] = conn[c] /\ conn[c].st # "open"
        BY <1>1, <2>2 DEF Live
      <3> QED
        BY <1>3, <3>1
    <2> QED
      BY <2>1, <2>2
  <1>5. ConnsOK'
    <2>1. \A c \in Conns : conn'[c] \in Connection
      BY <1>4 DEF ConnOK
    <2> DEFINE F(c) == IF c \in Live THEN Free(conn[c]) ELSE conn[c]
    <2>2. conn' = [c \in Conns |-> F(c)]
      BY <1>1
    <2> HIDE DEF F
    <2>3. conn' \in [Conns -> Connection]
      BY <2>1, <2>2
    <2> QED
      BY <1>4, <2>3 DEF ConnsOK, ConnOK
  <1>6. TypesOK'
    <2>1. client' \in [Conns -> Client]
      BY <1>1, DisconnectedFacts
    <2> QED
      BY <1>1, <2>1 DEF AInv, TypesOK
  <1>7. AcceptedOK' /\ ReusesWhole
    BY <1>4 DEF AcceptedOK, ReusesWhole
  <1>8. ThreadsOK'
    BY <1>1 DEF AInv, ThreadsOK
  <1>9. AdmissionExact'
    BY <1>1 DEF AInv, AdmissionExact
  <1>10. EngineOwnsItsConnections'
    BY <1>1 DEF EngineOwnsItsConnections
  <1> QED
    BY <1>5, <1>6, <1>7, <1>8, <1>9, <1>10 DEF AInv

\* The end of a turn: cancelled requests leave queue and count together, the connections
\* the engine still works for are left alone, and the others are reaped.
LEMMA SweepStep ==
    ASSUME ApiAssumption, AInv, FrontendSweep
    PROVE  AInv' /\ ReusesWhole
  <1> DEFINE cancelled == {c \in Live : Cancelled(c)}
  <1>1. PICK expired \in SUBSET Live, idle \in SUBSET Live :
          LET Swept(c) == IF c \in cancelled THEN CompleteResponse(conn[c], TRUE)
                          ELSE Heartbeat(conn[c], c \in expired)
              reaped == [c \in Live |-> ReapOne(Swept(c), c \in idle)]
          IN  /\ conn' = [c \in Conns |-> IF c \in Live THEN reaped[c] ELSE conn[c]]
              /\ client' = Disconnected({c \in Live : reaped[c].st = "freed"})
    BY DEF FrontendSweep
  <1> DEFINE Swept(c) == IF c \in cancelled THEN CompleteResponse(conn[c], TRUE)
                         ELSE Heartbeat(conn[c], c \in expired)
             reaped == [c \in Live |-> ReapOne(Swept(c), c \in idle)]
             freed == {c \in Live : reaped[c].st = "freed"}
  <1>2. /\ conn' = [c \in Conns |-> IF c \in Live THEN reaped[c] ELSE conn[c]]
        /\ client' = Disconnected(freed)
    BY <1>1
  <1>3. /\ queue' = Remaining(cancelled) /\ outstanding' = outstanding - Cardinality(cancelled)
        /\ fpc = "service" /\ fpc' = "poll" /\ todo' = todo
        /\ stopping' = stopping /\ frontStopping' = frontStopping
        /\ epc' = epc /\ current' = current /\ fatal' = fatal
    BY DEF FrontendSweep, control, engine, Released
  <1>4. \A c \in cancelled : /\ Queued(c) /\ c \in Live
                             /\ conn[c].generating /\ ~conn[c].complete
    BY DEF Cancelled
  <1>5. ASSUME NEW c \in Live
        PROVE  LET r == conn'[c]
               IN  /\ ConnOK(r) /\ r.st \in {"open", "freed"}
                   /\ Owned(conn[c]) /\ c \notin cancelled => Owned(r)
                   /\ conn[c].complete /\ r.st = "open" /\ ~r.complete =>
                        ~conn[c].lost /\ conn[c].out = 0
    <2> DEFINE s == Swept(c)
               id == c \in idle
    <2>1. c \in Conns /\ conn[c].st = "open" /\ ConnOK(conn[c])
      BY <1>5 DEF Live, AInv, ConnsOK
    <2>2. conn'[c] = ReapOne(s, id) /\ id \in BOOLEAN
      BY <1>2, <2>1
    <2>3. /\ ConnOK(s) /\ s.st = "open"
          /\ Owned(conn[c]) /\ c \notin cancelled => Owned(s)
          /\ conn[c].complete => s = conn[c]
      <3>1. CASE c \in cancelled
        <4>1. s = CompleteResponse(conn[c], TRUE) /\ ~conn[c].complete
          BY <1>4, <3>1
        <4>2. /\ conn[c] \in Connection /\ conn[c].out <= OutputLimit
              /\ conn[c].lost => conn[c].failed
          BY <2>1, <4>1 DEF ConnOK
        <4>3. ConnOK(s) /\ s.st = conn[c].st
          BY <4>1, <4>2, CompleteFacts
        <4> QED
          BY <2>1, <3>1, <4>1, <4>3
      <3>2. CASE c \notin cancelled
        <4> DEFINE x == c \in expired
        <4>0. x \in BOOLEAN
          OBVIOUS
        <4>1. s = Heartbeat(conn[c], x)
          BY <3>2, Zenon
        <4> HIDE DEF x, s
        <4>2. /\ ConnOK(s) /\ s.st = conn[c].st
              /\ s.generating = conn[c].generating /\ s.complete = conn[c].complete
              /\ conn[c].complete => s = conn[c]
          <5>1. LET h == Heartbeat(conn[c], x)
                IN  /\ ConnOK(h) /\ h.st = conn[c].st
                    /\ h.generating = conn[c].generating /\ h.complete = conn[c].complete
                    /\ conn[c].complete => h = conn[c]
            BY <2>1, <4>0, HeartbeatFacts
          <5> QED
            BY <4>1, <5>1
        <4>3. Owned(conn[c]) => Owned(s)
          BY <4>2 DEF Owned
        <4> QED
          BY <2>1, <4>2, <4>3
      <3> QED
        BY <3>1, <3>2
    <2> HIDE DEF s, id
    <2> DEFINE r == ReapOne(s, id)
    <2>4. /\ ConnOK(r) /\ r.st \in {"open", "freed"}
          /\ s.generating /\ ~s.complete => r = s
          /\ s.complete /\ r.st = "open" /\ ~r.complete => ~s.lost /\ s.out = 0
      BY <2>2, <2>3, ReapFacts
    <2> HIDE DEF r
    <2>5. Owned(s) => Owned(r)
      BY <2>4 DEF Owned
    <2>6. conn'[c] = r
      BY <2>2 DEF r
    <2> QED
      BY <2>3, <2>4, <2>5, <2>6
  <1>6. ASSUME NEW c \in Conns, c \notin Live
        PROVE  conn'[c] = conn[c] /\ conn[c].st # "open" /\ ConnOK(conn[c])
    BY <1>2, <1>6 DEF Live, AInv, ConnsOK
  <1> HIDE DEF reaped, Swept
  <1>7. \A c \in Conns : ConnOK(conn'[c])
    BY <1>5, <1>6
  <1>8. ConnsOK'
    <2>1. \A c \in Conns : conn'[c] \in Connection
      BY <1>7 DEF ConnOK
    <2> DEFINE F(c) == IF c \in Live THEN reaped[c] ELSE conn[c]
    <2>2. conn' = [c \in Conns |-> F(c)]
      BY <1>2
    <2> HIDE DEF F
    <2>3. conn' \in [Conns -> Connection]
      BY <2>1, <2>2
    <2> QED
      BY <1>7, <2>3 DEF ConnsOK, ConnOK
  <1>9. epc # "done"
    BY <1>3 DEF AInv, ThreadsOK
  <1>10. /\ \A i \in DOMAIN queue :
              /\ Owned(conn[queue[i]])
              /\ Serving => queue[i] # current
              /\ \A j \in DOMAIN queue : queue[i] = queue[j] => i = j
         /\ Serving => Owned(conn[current])
    BY <1>3, <1>9 DEF AInv, EngineOwnsItsConnections, Owned
  <1>11. queue \in Seq(Conns) /\ outstanding \in Nat
    BY DEF AInv, TypesOK
  <1> HIDE DEF cancelled
  <1>12. /\ queue' \in Seq(Conns) /\ Cardinality(cancelled) \in Nat
         /\ Len(queue') = Len(queue) - Cardinality(cancelled)
         /\ \A n \in DOMAIN queue' :
              queue'[n] \notin cancelled /\ \E i \in DOMAIN queue : queue'[n] = queue[i]
         /\ \A n, m \in DOMAIN queue' : queue'[n] = queue'[m] => n = m
    BY <1>3, <1>4, <1>10, <1>11, RemainingFacts
  <1>13. outstanding = Len(queue) + (IF current = None THEN 0 ELSE 1) /\ outstanding <= Capacity
    BY <1>9 DEF AInv, AdmissionExact
  <1>14. /\ outstanding' \in Nat /\ outstanding' <= Capacity
         /\ outstanding' = Len(queue') + (IF current' = None THEN 0 ELSE 1)
    <2>1. Len(queue) \in Nat /\ Len(queue') \in Nat /\ Capacity \in Nat
      BY <1>11, <1>12 DEF ApiAssumption
    <2> DEFINE x == IF current = None THEN 0 ELSE 1
               d == Cardinality(cancelled)
    <2>2. x \in Nat /\ outstanding = Len(queue) + x /\ current' = current
      BY <1>3, <1>13
    <2> HIDE DEF x
    <2>3. /\ outstanding' = outstanding - d /\ d \in Nat /\ Len(queue') = Len(queue) - d
      BY <1>3, <1>12
    <2> HIDE DEF d
    <2>4. outstanding' \in Nat /\ outstanding' <= Capacity /\ outstanding' = Len(queue') + x
      BY <1>11, <1>13, <2>1, <2>2, <2>3
    <2> QED
      BY <2>2, <2>4 DEF x
  <1>15. AdmissionExact'
    BY <1>14 DEF AdmissionExact
  <1>16. TypesOK'
    <2>1. client' \in [Conns -> Client]
      BY <1>2, DisconnectedFacts
    <2> QED
      BY <1>3, <1>12, <1>14, <2>1 DEF AInv, TypesOK
  <1>17. AcceptedOK'
    <2> SUFFICES ASSUME NEW c \in Conns, conn'[c].st = "open" PROVE client'[c].mode # "none"
      BY DEF AcceptedOK
    <2>1. conn[c].st = "open"
      BY <1>6 DEF Live
    <2>2. client[c].mode # "none"
      BY <2>1 DEF AInv, AcceptedOK
    <2> QED
      BY <1>2, <2>2, DisconnectedFacts
  <1>18. ThreadsOK'
    BY <1>3 DEF AInv, ThreadsOK
  <1>19. EngineOwnsItsConnections'
    <2>1. ASSUME NEW n \in DOMAIN queue'
          PROVE  Owned(conn'[queue'[n]]) /\ (Serving => queue'[n] # current)
      <3>1. PICK i \in DOMAIN queue : queue'[n] = queue[i]
        BY <1>12, <2>1
      <3>2. queue[i] \in Conns /\ Owned(conn[queue[i]]) /\ queue[i] \notin cancelled
        BY <1>10, <1>11, <1>12, <2>1, <3>1
      <3>3. queue[i] \in Live
        BY <3>2 DEF Live, Owned
      <3> QED
        BY <1>5, <1>10, <3>1, <3>2, <3>3
    <2>2. ASSUME Serving PROVE Owned(conn'[current])
      <3>1. current \in Conns
        BY <2>2 DEF AInv, TypesOK, ThreadsOK, Serving
      <3>2. current \in Live
        BY <1>10, <2>2, <3>1 DEF Live, Owned
      <3>3. current \notin cancelled
        BY <1>4, <1>10, <2>2 DEF Queued
      <3> QED
        BY <1>5, <1>10, <2>2, <3>2, <3>3
    <2>3. Serving' = Serving
      BY <1>3 DEF Serving
    <2> QED
      BY <1>3, <1>12, <2>1, <2>2, <2>3 DEF EngineOwnsItsConnections, Owned
  <1>20. ReusesWhole
    <2> SUFFICES ASSUME NEW c \in Conns, conn[c].st = "open", conn[c].complete,
                        conn'[c].st = "open", ~conn'[c].complete
                 PROVE  ~conn[c].lost /\ conn[c].out = 0
      BY DEF ReusesWhole
    <2>1. c \in Live
      BY DEF Live
    <2> QED
      BY <1>5, <2>1
  <1> QED
    BY <1>8, <1>15, <1>16, <1>17, <1>18, <1>19, <1>20 DEF AInv
-----------------------------------------------------------------------------
(* The clients and the engine thread. *)

\* What a client does reaches only its own side of the socket.
LEMMA ClientStep ==
    ASSUME ApiAssumption, AInv, NEW c \in Conns,
           ClientConnect(c) \/ ClientSend(c) \/ ClientClose(c)
    PROVE  AInv' /\ ReusesWhole
  <1>1. /\ conn' = conn /\ queue' = queue /\ outstanding' = outstanding
        /\ stopping' = stopping /\ frontStopping' = frontStopping
        /\ fpc' = fpc /\ todo' = todo /\ epc' = epc /\ current' = current /\ fatal' = fatal
    BY DEF ClientConnect, ClientSend, ClientClose, control, frontend, engine
  <1>2. client \in [Conns -> Client] /\ client[c] \in Client
    BY DEF AInv, TypesOK
  <1>3. \E v \in Client : client' = [client EXCEPT ![c] = v] /\ v.mode # "none"
    <2>1. CASE ClientConnect(c)
      <3> DEFINE v == [client[c] EXCEPT !.mode = "open"]
      <3>1. client' = [client EXCEPT ![c] = v]
        BY <1>2, <2>1 DEF ClientConnect
      <3>2. v \in Client /\ v.mode = "open"
        BY <1>2 DEF Client
      <3> HIDE DEF v
      <3> QED
        BY <3>1, <3>2
    <2>2. CASE ClientSend(c)
      <3>1. PICK kind \in Kinds :
              client' = [client EXCEPT ![c].sock = Append(@, kind), ![c].left = @ - 1]
        BY <2>2 DEF ClientSend
      <3> DEFINE s == Append(client[c].sock, kind)
                 l == client[c].left - 1
                 v == [client[c] EXCEPT !.sock = s, !.left = l]
      <3>2. client[c].left > 0 /\ client[c].mode = "open"
        BY <2>2 DEF ClientSend
      <3>3. client[c].sock \in Seq(Kinds) /\ client[c].left \in 0..Requests /\ Requests \in Nat
        BY <1>2 DEF Client, ApiAssumption
      <3>4. s \in Seq(Kinds) /\ l \in 0..Requests
        BY <3>2, <3>3
      <3>5. client' = [client EXCEPT ![c] = v]
        BY <1>2, <3>1
      <3> HIDE DEF s, l
      <3>6. v \in Client /\ v.mode = client[c].mode
        BY <1>2, <3>4 DEF Client
      <3> HIDE DEF v
      <3> QED
        BY <3>2, <3>5, <3>6
    <2>3. CASE ClientClose(c)
      <3>1. PICK m \in Ends : client' = [client EXCEPT ![c].mode = m, ![c].left = 0]
        BY <2>3 DEF ClientClose
      <3> DEFINE v == [client[c] EXCEPT !.mode = m, !.left = 0]
      <3>2. m \in {"half", "closed"} /\ 0 \in 0..Requests
        BY DEF ApiAssumption
      <3>3. client' = [client EXCEPT ![c] = v]
        BY <1>2, <3>1
      <3>4. v \in Client /\ v.mode = m
        BY <1>2, <3>2 DEF Client
      <3> HIDE DEF v
      <3> QED
        BY <3>2, <3>3, <3>4
    <2> QED
      BY <2>1, <2>2, <2>3
  <1>4. PICK v \in Client : client' = [client EXCEPT ![c] = v] /\ v.mode # "none"
    BY <1>3
  <1>5. /\ client' \in [Conns -> Client]
        /\ \A d \in Conns : client[d].mode # "none" => client'[d].mode # "none"
    BY <1>2, <1>4
  <1>6. TypesOK'
    BY <1>1, <1>5 DEF AInv, TypesOK
  <1>7. AcceptedOK'
    BY <1>1, <1>5 DEF AInv, AcceptedOK
  <1>8. ConnsOK' /\ ThreadsOK' /\ AdmissionExact'
    BY <1>1 DEF AInv, ConnsOK, ConnOK, ThreadsOK, AdmissionExact
  <1>9. EngineOwnsItsConnections'
    BY <1>1 DEF AInv, EngineOwnsItsConnections, Serving
  <1>10. ReusesWhole
    BY <1>1 DEF ReusesWhole
  <1> QED
    BY <1>6, <1>7, <1>8, <1>9, <1>10 DEF AInv

\* The engine writes to the connection it works for, and stays in its turn.
LEMMA WriteStep ==
    ASSUME ApiAssumption, AInv, Serving, NEW f, ConnOK(f), Owned(f),
           conn' = [conn EXCEPT ![current] = f],
           UNCHANGED <<client, queue, outstanding, control, frontend, current>>,
           fatal' \in BOOLEAN, epc' \in {"run", "complete"}
    PROVE  AInv' /\ ReusesWhole
  <1>1. /\ client' = client /\ queue' = queue /\ outstanding' = outstanding
        /\ stopping' = stopping /\ frontStopping' = frontStopping
        /\ fpc' = fpc /\ todo' = todo /\ current' = current
    BY DEF control, frontend
  <1>2. current \in Conns /\ current # None /\ ~frontStopping /\ fpc # "exit" /\ epc # "done"
    BY DEF AInv, TypesOK, ThreadsOK, Serving
  <1>3. conn[current].st = "open" /\ ~conn[current].complete
    BY <1>2 DEF AInv, EngineOwnsItsConnections
  <1>4. f.st = "open" /\ f.st = conn[current].st
    BY <1>3 DEF Owned
  <1>5. /\ ConnsOK' /\ ReusesWhole
        /\ conn'[current] = f /\ \A d \in Conns : d # current => conn'[d] = conn[d]
        /\ \A d \in Conns : conn'[d].st = conn[d].st
    BY <1>2, <1>3, <1>4, OneConnection
  <1>6. TypesOK' /\ AcceptedOK'
    BY <1>1, <1>5 DEF AInv, TypesOK, AcceptedOK
  <1>7. ThreadsOK'
    BY <1>1, <1>2, <1>5 DEF AInv, ThreadsOK, TypesOK
  <1>8. AdmissionExact'
    BY <1>1, <1>2 DEF AInv, AdmissionExact
  <1>9. EngineOwnsItsConnections'
    <2>1. /\ \A i \in DOMAIN queue :
               /\ queue[i] \in Conns
               /\ conn[queue[i]].st = "open" /\ conn[queue[i]].generating
               /\ ~conn[queue[i]].complete
               /\ queue[i] # current
               /\ \A j \in DOMAIN queue : queue[i] = queue[j] => i = j
      BY <1>2 DEF AInv, EngineOwnsItsConnections, TypesOK
    <2>2. \A i \in DOMAIN queue : conn'[queue[i]] = conn[queue[i]]
      BY <1>5, <2>1
    <2>3. conn'[current].st = "open" /\ conn'[current].generating /\ ~conn'[current].complete
      BY <1>5 DEF Owned
    <2> QED
      BY <1>1, <2>1, <2>2, <2>3 DEF EngineOwnsItsConnections
  <1> QED
    BY <1>5, <1>6, <1>7, <1>8, <1>9 DEF AInv

\* Every step of the engine thread preserves the invariant.
LEMMA EngineStep ==
    ASSUME ApiAssumption, AInv,
           EngineNext \/ EngineStream \/ EngineToken \/ EngineLeave
    PROVE  AInv' /\ ReusesWhole
  <1>0. conn \in [Conns -> Connection] /\ \A c \in Conns : ConnOK(conn[c])
    BY DEF AInv, ConnsOK
  <1>1. ASSUME Serving
        PROVE  /\ current \in Conns /\ current # None /\ ~frontStopping /\ fpc # "exit"
               /\ Owned(conn[current]) /\ ConnOK(conn[current])
               /\ conn[current] \in Connection /\ conn[current].out <= OutputLimit
               /\ conn[current].lost => conn[current].failed
    <2>1. /\ current \in Conns /\ current # None /\ ~frontStopping /\ fpc # "exit"
          /\ epc # "done"
      BY <1>1 DEF AInv, TypesOK, ThreadsOK, Serving
    <2>2. Owned(conn[current])
      BY <1>1, <2>1 DEF AInv, EngineOwnsItsConnections, Owned
    <2> QED
      BY <1>0, <2>1, <2>2 DEF ConnOK, Owned
  <1>2. ASSUME Serving
        PROVE  LET a == Append1(conn[current])
               IN  ConnOK(a) /\ Owned(a)
    <2> DEFINE k == conn[current]
               a == Append1(k)
    <2>1. /\ k \in Connection /\ k.out <= OutputLimit /\ (k.lost => k.failed) /\ Owned(k)
      BY <1>1, <1>2
    <2> HIDE DEF k
    <2>2. /\ a \in Connection /\ a.out <= OutputLimit /\ (a.lost => a.failed)
          /\ a.st = k.st /\ a.generating = k.generating /\ a.complete = k.complete
      BY <2>1, AppendFacts
    <2> HIDE DEF a
    <2>3. Owned(a) /\ ConnOK(a)
      BY <2>1, <2>2 DEF Owned, ConnOK
    <2> QED
      BY <2>3 DEF a, k
  <1>3. CASE EnginePop
    <2>1. /\ epc = "pop" /\ queue # <<>> /\ current' = Head(queue) /\ queue' = Tail(queue)
          /\ epc' \in {"run", "complete"} /\ client' = client /\ conn' = conn
          /\ outstanding' = outstanding /\ stopping' = stopping
          /\ frontStopping' = frontStopping /\ fpc' = fpc /\ todo' = todo /\ fatal' = fatal
      BY <1>3 DEF EnginePop, control, frontend
    <2>2. queue \in Seq(Conns) /\ outstanding \in Nat
      BY DEF AInv, TypesOK
    <2>3. /\ Tail(queue) \in Seq(Conns) /\ Len(Tail(queue)) = Len(queue) - 1
          /\ Head(queue) = queue[1] /\ 1 \in DOMAIN queue /\ queue[1] \in Conns
          /\ \A n \in DOMAIN Tail(queue) : n + 1 \in DOMAIN queue /\ Tail(queue)[n] = queue[n + 1]
          /\ DOMAIN Tail(queue) \subseteq Nat \ {0} /\ Len(queue) \in Nat
      BY <2>1, <2>2, HeadTailProperties, EmptySeq
    <2>4. Clients \in Nat /\ queue[1] # None /\ current = None
          /\ ~frontStopping /\ fpc # "exit"
      BY <2>1, <2>3 DEF ApiAssumption, Conns, None, AInv, ThreadsOK
    <2>5. TypesOK' /\ AcceptedOK' /\ ConnsOK'
      BY <2>1, <2>3 DEF AInv, TypesOK, AcceptedOK, ConnsOK, ConnOK
    <2>6. ThreadsOK'
      BY <2>1, <2>3, <2>4 DEF AInv, ThreadsOK
    <2>7. AdmissionExact'
      <3>1. outstanding <= Capacity /\ outstanding = Len(queue) + 0
        BY <2>1, <2>4 DEF AInv, AdmissionExact
      <3>2. outstanding' = Len(queue') + 1 /\ current' # None
        BY <2>1, <2>2, <2>3, <2>4, <3>1
      <3> QED
        BY <2>1, <3>1, <3>2 DEF AdmissionExact
    <2>8. EngineOwnsItsConnections'
      <3>1. \A i \in DOMAIN queue :
              /\ conn[queue[i]].st = "open" /\ conn[queue[i]].generating
              /\ ~conn[queue[i]].complete
              /\ \A j \in DOMAIN queue : queue[i] = queue[j] => i = j
        BY <2>1, <2>4 DEF AInv, EngineOwnsItsConnections
      <3>2. ASSUME NEW n \in DOMAIN queue'
            PROVE  /\ conn'[queue'[n]].st = "open" /\ conn'[queue'[n]].generating
                   /\ ~conn'[queue'[n]].complete /\ queue'[n] # current'
        <4>1. n + 1 \in DOMAIN queue /\ queue'[n] = queue[n + 1] /\ n + 1 # 1
          BY <2>1, <2>3, <3>2
        <4> QED
          BY <2>1, <2>3, <3>1, <4>1
      <3>3. ASSUME NEW n \in DOMAIN queue', NEW m \in DOMAIN queue', queue'[n] = queue'[m]
            PROVE  n = m
        <4>1. /\ n + 1 \in DOMAIN queue /\ queue'[n] = queue[n + 1]
              /\ m + 1 \in DOMAIN queue /\ queue'[m] = queue[m + 1]
              /\ n \in Nat /\ m \in Nat
          BY <2>1, <2>3
        <4>2. n + 1 = m + 1
          BY <3>1, <3>3, <4>1
        <4> QED
          BY <4>1, <4>2
      <3>4. /\ conn'[current'].st = "open" /\ conn'[current'].generating
            /\ ~conn'[current'].complete
        BY <2>1, <2>3, <3>1
      <3> QED
        BY <3>2, <3>3, <3>4 DEF EngineOwnsItsConnections
    <2>9. ReusesWhole
      BY <2>1 DEF ReusesWhole
    <2> QED
      BY <2>5, <2>6, <2>7, <2>8, <2>9 DEF AInv
  <1>4. CASE EngineStream
    <2> DEFINE a == Append1(conn[current])
               b == ~a.failed
               f == [a EXCEPT !.chunked = b]
    <2>1. /\ Serving /\ conn' = [conn EXCEPT ![current] = f]
          /\ UNCHANGED <<client, queue, outstanding, control, frontend, current>>
          /\ fatal' = fatal /\ epc' = "run"
      BY <1>4 DEF EngineStream, Serving, engine
    <2>2. ConnOK(a) /\ Owned(a) /\ b \in BOOLEAN
      BY <1>2, <2>1
    <2> HIDE DEF a, b
    <2>3. /\ f \in Connection /\ f.out = a.out /\ f.st = a.st
          /\ f.generating = a.generating /\ f.complete = a.complete
          /\ f.lost = a.lost /\ f.failed = a.failed /\ f.closeAfter = a.closeAfter
      BY <2>2 DEF ConnOK, Connection
    <2> HIDE DEF f
    <2>4. ConnOK(f) /\ Owned(f)
      BY <2>2, <2>3 DEF ConnOK, Owned
    <2>5. fatal' \in BOOLEAN
      BY <2>1 DEF AInv, TypesOK
    <2> QED
      BY <2>1, <2>4, <2>5, WriteStep
  <1>5. CASE EngineToken
    <2> DEFINE a == Append1(conn[current])
    <2>1. /\ Serving /\ conn' = [conn EXCEPT ![current] = a]
          /\ UNCHANGED <<client, queue, outstanding, control, frontend, current>>
          /\ fatal' = fatal /\ epc' = "run"
      BY <1>5 DEF EngineToken, Serving, engine
    <2>2. ConnOK(a) /\ Owned(a)
      BY <1>2, <2>1
    <2>3. fatal' \in BOOLEAN
      BY <2>1 DEF AInv, TypesOK
    <2> HIDE DEF a
    <2> QED
      BY <2>1, <2>2, <2>3, WriteStep
  <1>6. CASE EngineFinish
    <2> DEFINE a == Append1(conn[current])
    <2>1. /\ Serving /\ conn' = [conn EXCEPT ![current] = a]
          /\ UNCHANGED <<client, queue, outstanding, control, frontend, current>>
          /\ fatal' \in BOOLEAN /\ epc' = "complete"
      BY <1>6 DEF EngineFinish, Serving
    <2>2. ConnOK(a) /\ Owned(a)
      BY <1>2, <2>1
    <2> HIDE DEF a
    <2> QED
      BY <2>1, <2>2, WriteStep
  <1>7. CASE EngineComplete
    <2> DEFINE k == conn[current]
               close == ~k.keepAlive
               f == CompleteResponse(k, close)
    <2>1. /\ Serving /\ conn' = [conn EXCEPT ![current] = f] /\ epc' = "wake"
          /\ client' = client /\ queue' = queue /\ outstanding' = outstanding
          /\ stopping' = stopping /\ frontStopping' = frontStopping
          /\ fpc' = fpc /\ todo' = todo /\ current' = current /\ fatal' = fatal
      BY <1>7 DEF EngineComplete, Serving, control, frontend
    <2>2. /\ current \in Conns /\ current # None /\ ~frontStopping /\ fpc # "exit"
          /\ k \in Connection /\ k.out <= OutputLimit /\ (k.lost => k.failed) /\ Owned(k)
          /\ close \in BOOLEAN
      BY <1>1, <2>1
    <2> HIDE DEF close
    <2>3. ConnOK(f) /\ f.st = k.st /\ f.complete = TRUE
      BY <2>2, CompleteFacts
    <2> HIDE DEF f
    <2>4. f.st = conn[current].st /\ f.complete
      BY <2>3
    <2>5. /\ ConnsOK' /\ ReusesWhole
          /\ conn'[current] = f /\ \A d \in Conns : d # current => conn'[d] = conn[d]
          /\ \A d \in Conns : conn'[d].st = conn[d].st
      BY <2>1, <2>2, <2>3, <2>4, OneConnection
    <2>6. TypesOK' /\ AcceptedOK'
      BY <2>1, <2>5 DEF AInv, TypesOK, AcceptedOK
    <2>7. ThreadsOK'
      BY <2>1, <2>2, <2>5 DEF AInv, ThreadsOK, TypesOK
    <2>8. AdmissionExact'
      BY <2>1 DEF AInv, AdmissionExact, Serving
    <2>9. EngineOwnsItsConnections'
      <3>1. \A i \in DOMAIN queue :
              /\ queue[i] \in Conns
              /\ conn[queue[i]].st = "open" /\ conn[queue[i]].generating
              /\ ~conn[queue[i]].complete
              /\ queue[i] # current
              /\ \A j \in DOMAIN queue : queue[i] = queue[j] => i = j
        BY <2>1, <2>2 DEF AInv, EngineOwnsItsConnections, TypesOK, Serving
      <3>2. \A i \in DOMAIN queue : conn'[queue[i]] = conn[queue[i]]
        BY <2>5, <3>1
      <3>3. ~Serving'
        BY <2>1 DEF Serving
      <3> QED
        BY <2>1, <3>1, <3>2, <3>3 DEF EngineOwnsItsConnections
    <2> QED
      BY <2>5, <2>6, <2>7, <2>8, <2>9 DEF AInv
  <1>8. CASE EngineRelease
    <2>1. /\ epc = "wake" /\ outstanding' = (IF outstanding > 0 THEN outstanding - 1 ELSE 0)
          /\ current' = None /\ epc' \in {"stop", "pop"} /\ fatal' = FALSE
          /\ client' = client /\ conn' = conn /\ queue' = queue
          /\ stopping' = stopping /\ frontStopping' = frontStopping
          /\ fpc' = fpc /\ todo' = todo
      BY <1>8 DEF EngineRelease, control, frontend
    <2>2. /\ current # None /\ ~frontStopping /\ fpc # "exit"
          /\ queue \in Seq(Conns) /\ outstanding \in Nat /\ Capacity \in Nat
      BY <2>1 DEF AInv, ThreadsOK, TypesOK, ApiAssumption
    <2>3. outstanding = Len(queue) + 1 /\ outstanding <= Capacity /\ Len(queue) \in Nat
      BY <2>1, <2>2 DEF AInv, AdmissionExact
    <2>4. /\ outstanding' = Len(queue) + 0 /\ outstanding' \in Nat /\ outstanding' <= Capacity
      BY <2>1, <2>2, <2>3
    <2>5. TypesOK' /\ AcceptedOK' /\ ConnsOK'
      BY <2>1, <2>4 DEF AInv, TypesOK, AcceptedOK, ConnsOK, ConnOK
    <2>6. ThreadsOK'
      BY <2>1, <2>2 DEF AInv, ThreadsOK
    <2>7. AdmissionExact'
      BY <2>1, <2>4 DEF AdmissionExact
    <2>8. EngineOwnsItsConnections'
      BY <2>1 DEF AInv, EngineOwnsItsConnections, Serving
    <2>9. ReusesWhole
      BY <2>1 DEF ReusesWhole
    <2> QED
      BY <2>5, <2>6, <2>7, <2>8, <2>9 DEF AInv
  <1>9. CASE EngineLeave \/ EngineStopQueue \/ EngineStopFrontend
    <2>1. /\ epc \in {"pop", "stop", "stopfront"} /\ epc' \in {"stop", "stopfront", "join"}
          /\ frontStopping' = frontStopping \/ (frontStopping' = TRUE /\ epc' = "join")
          /\ stopping' = stopping \/ stopping' = TRUE
          /\ client' = client /\ conn' = conn /\ queue' = queue /\ outstanding' = outstanding
          /\ fpc' = fpc /\ todo' = todo /\ current' = current /\ fatal' = fatal
      BY <1>9 DEF EngineLeave, EngineStopQueue, EngineStopFrontend, control, frontend
    <2>2. TypesOK' /\ AcceptedOK' /\ ConnsOK'
      BY <2>1 DEF AInv, TypesOK, AcceptedOK, ConnsOK, ConnOK
    <2>3. ThreadsOK'
      BY <2>1 DEF AInv, ThreadsOK
    <2>4. AdmissionExact'
      BY <2>1 DEF AInv, AdmissionExact
    <2>5. EngineOwnsItsConnections'
      BY <2>1 DEF AInv, EngineOwnsItsConnections, Serving
    <2>6. ReusesWhole
      BY <2>1 DEF ReusesWhole
    <2> QED
      BY <2>2, <2>3, <2>4, <2>5, <2>6 DEF AInv
  <1>10. CASE EngineJoin
    <2>1. /\ epc = "join" /\ fpc = "exit" /\ queue' = <<>> /\ epc' = "done"
          /\ client' = client /\ conn' = conn /\ outstanding' = outstanding
          /\ stopping' = stopping /\ frontStopping' = frontStopping
          /\ fpc' = fpc /\ todo' = todo /\ current' = current /\ fatal' = fatal
      BY <1>10 DEF EngineJoin, control, frontend
    <2>2. TypesOK' /\ AcceptedOK' /\ ConnsOK'
      BY <2>1 DEF AInv, TypesOK, AcceptedOK, ConnsOK, ConnOK
    <2>3. ThreadsOK'
      BY <2>1 DEF AInv, ThreadsOK
    <2>4. AdmissionExact' /\ EngineOwnsItsConnections'
      BY <2>1 DEF AInv, AdmissionExact, EngineOwnsItsConnections
    <2>5. ReusesWhole
      BY <2>1 DEF ReusesWhole
    <2> QED
      BY <2>2, <2>3, <2>4, <2>5 DEF AInv
  <1> QED
    BY <1>3, <1>4, <1>5, <1>6, <1>7, <1>8, <1>9, <1>10 DEF EngineNext
-----------------------------------------------------------------------------
(* The theorems. *)

\* Nothing is open, queued or counted at first.
LEMMA InitOK ==
    ASSUME ApiAssumption, Init
    PROVE  AInv
  <1>1. ConnOK(Fresh("new")) /\ Fresh("new").st = "new"
    BY FreshOK
  <1>2. Fresh("new") \in Connection
    BY <1>1 DEF ConnOK
  <1>3. ConnsOK /\ AcceptedOK
    BY <1>1, <1>2 DEF Init, ConnsOK, AcceptedOK
  <1>4. TypesOK
    <2>1. [mode |-> "none", sock |-> <<>>, left |-> Requests] \in Client
      BY DEF Client, ApiAssumption
    <2>2. client \in [Conns -> Client]
      BY <2>1 DEF Init
    <2>3. queue \in Seq(Conns) /\ outstanding \in Nat
      BY DEF Init
    <2>4. stopping \in BOOLEAN /\ frontStopping \in BOOLEAN /\ fatal \in BOOLEAN
      BY DEF Init
    <2>5. fpc \in {"poll", "service", "exit"} /\ todo \subseteq Conns
      BY DEF Init
    <2>6. /\ epc \in {"pop", "run", "complete", "wake", "stop", "stopfront", "join", "done"}
          /\ current \in Conns \cup {None}
      BY DEF Init
    <2> QED
      BY <2>2, <2>3, <2>4, <2>5, <2>6 DEF TypesOK
  <1>5. ThreadsOK
    BY DEF Init, ThreadsOK
  <1>6. AdmissionExact
    BY DEF Init, AdmissionExact, ApiAssumption
  <1>7. EngineOwnsItsConnections
    BY DEF Init, EngineOwnsItsConnections, Serving
  <1> QED
    BY <1>3, <1>4, <1>5, <1>6, <1>7 DEF AInv

\* Every step preserves the invariant and reuses a connection only after a whole response.
LEMMA NextOK ==
    ASSUME ApiAssumption, AInv, [Next]_vars
    PROVE  AInv' /\ (ReusesWhole \/ UNCHANGED vars)
  <1>1. CASE Next
    BY <1>1, ClientStep, PollStep, SweepStep, ExitStep, TurnStep, EngineStep
       DEF Next, ClientNext, FrontendNext
  <1>2. CASE UNCHANGED vars
    <2>1. /\ conn' = conn /\ client' = client /\ queue' = queue /\ outstanding' = outstanding
          /\ stopping' = stopping /\ frontStopping' = frontStopping
          /\ fpc' = fpc /\ todo' = todo /\ epc' = epc /\ current' = current /\ fatal' = fatal
      BY <1>2 DEF vars, control, frontend, engine
    <2>2. TypesOK' /\ AcceptedOK' /\ ConnsOK'
      BY <2>1 DEF AInv, TypesOK, AcceptedOK, ConnsOK, ConnOK
    <2>3. ThreadsOK' /\ AdmissionExact' /\ EngineOwnsItsConnections'
      BY <2>1 DEF AInv, ThreadsOK, AdmissionExact, EngineOwnsItsConnections, Serving
    <2> QED
      BY <1>2, <2>2, <2>3 DEF AInv
  <1> QED
    BY <1>1, <1>2

\* Admission and ownership, for any number of clients and any capacity: the counter is
\* exactly the requests that wait plus the one the engine has not released and never
\* exceeds the capacity (api_engine_queue_try_push, cancel, pop, complete), and a
\* connection that waits or is served is allocated, the engine's and admitted once.
THEOREM AdmissionCorrect ==
    ASSUME ApiAssumption
    PROVE  Spec => []AdmissionInv
  <1>1. Init => AInv
    BY InitOK
  <1>2. AInv /\ [Next]_vars => AInv'
    BY NextOK
  <1>3. AInv => AdmissionInv
    <2> SUFFICES ASSUME AInv PROVE AdmissionInv
      OBVIOUS
    <2>1. {stopping, frontStopping, fatal} \subseteq BOOLEAN
      BY DEF AInv, TypesOK
    <2>2. client \in [Conns -> [mode : {"none", "open", "half", "closed"},
                                sock : Seq(Kinds), left : 0..Requests]]
      BY DEF AInv, TypesOK, Client
    <2>3. conn \in [Conns -> Connection]
      BY DEF AInv, ConnsOK
    <2>4. TypeOK
      BY <2>1, <2>2, <2>3 DEF AInv, TypesOK, TypeOK, Connection
    <2> QED
      BY <2>4 DEF AInv, AdmissionInv
  <1> QED
    BY <1>1, <1>2, <1>3, PTL DEF Spec

\* A kept connection is clean between requests and is kept only after its whole response
\* was delivered (api_frontend_reap, api_connection_reusable), for every output limit.
THEOREM KeepAliveClean ==
    ASSUME ApiAssumption
    PROVE  Spec => ReuseIsClean
  <1>1. Init => AInv
    BY InitOK
  <1>2. AInv /\ [Next]_vars => AInv' /\ [ReusesWhole]_vars
    BY NextOK
  <1>3. AInv => CleanBetweenRequests
    BY DEF AInv, ConnsOK, ConnOK, CleanBetweenRequests, Live
  <1> QED
    BY <1>1, <1>2, <1>3, PTL DEF Spec, ReuseIsClean, ReuseOnlyWhole
=============================================================================

------------------------- MODULE MultiSessionProofs -------------------------
(***************************************************************************)
(* Proofs about the cooperative pipeline and its recovery, for every       *)
(* number of requests, chunks and tokens, every queue capacity, every      *)
(* choice of the prefill windows and any number of outages.                *)
(***************************************************************************)
EXTENDS MultiSession, FiniteSetTheorems, SequenceTheorems, TLAPS

Frames == [slot : Sessions, id : Ids]

SlotState ==
    [active : BOOLEAN, waiting : BOOLEAN, result : {"ok", "fault"},
     phase : {"prefill", "decode"}, streaming : BOOLEAN,
     id : Ids \cup {NoId}, ring : 0..MaxOutages, todo : 0..Chunks,
     flight : 0..Alone, left : 0..Tokens, aborted : BOOLEAN]

\* Places of the frames of slot j in w.
Places(w, j) == {n \in DOMAIN w : w[n].slot = j}

-----------------------------------------------------------------------------
(* Counting the frames of a slot. *)

\* A ring holds finitely many frames of a slot.
LEMMA PlacesFinite ==
    ASSUME NEW w \in Seq(Frames), NEW j
    PROVE  IsFiniteSet(Places(w, j)) /\ Cardinality(Places(w, j)) \in Nat
  <1>1. Places(w, j) \subseteq Nat /\ \A n \in Places(w, j) : n <= Len(w)
    BY DEF Places
  <1>2. IsFiniteSet(Places(w, j))
    BY <1>1, FS_BoundedSetOfNaturals
  <1> QED
    BY <1>2, FS_CardinalityType

\* An empty ring holds none.
LEMMA PlacesEmpty ==
    ASSUME NEW j
    PROVE  Cardinality(Places(<<>>, j)) = 0
  BY FS_EmptySet DEF Places

\* A frame that is sent is one more of its slot and changes no other count.
LEMMA PlacesAppend ==
    ASSUME NEW w \in Seq(Frames), NEW f \in Frames, NEW j
    PROVE  /\ w \o <<f>> \in Seq(Frames)
           /\ Len(w \o <<f>>) = Len(w) + 1
           /\ \A n \in DOMAIN (w \o <<f>>) :
                \/ n \in DOMAIN w /\ (w \o <<f>>)[n] = w[n]
                \/ (w \o <<f>>)[n] = f
           /\ Cardinality(Places(w \o <<f>>, j)) =
                Cardinality(Places(w, j)) + (IF f.slot = j THEN 1 ELSE 0)
  <1> DEFINE v == w \o <<f>>
  <1>1. /\ v \in Seq(Frames) /\ Len(v) = Len(w) + 1
        /\ \A n \in 1..Len(w) : v[n] = w[n]
        /\ v[Len(w) + 1] = f
        /\ DOMAIN v = 1..(Len(w) + 1) /\ DOMAIN w = 1..Len(w)
    OBVIOUS
  <1> HIDE DEF v
  <1>2. CASE f.slot = j
    <2>1. Places(v, j) = Places(w, j) \cup {Len(w) + 1} /\ Len(w) + 1 \notin Places(w, j)
      BY <1>1, <1>2 DEF Places
    <2> QED
      BY <1>1, <1>2, <2>1, PlacesFinite, FS_AddElement DEF v
  <1>3. CASE f.slot # j
    <2>1. Places(v, j) = Places(w, j)
      BY <1>1, <1>3 DEF Places
    <2> QED
      BY <1>1, <1>3, <2>1, PlacesFinite DEF v
  <1> QED
    BY <1>2, <1>3

\* The frame that is read is one less of its slot and changes no other count.
LEMMA PlacesTail ==
    ASSUME NEW w \in Seq(Frames), w # <<>>, NEW j
    PROVE  /\ Tail(w) \in Seq(Frames)
           /\ Len(Tail(w)) = Len(w) - 1
           /\ \A n \in DOMAIN Tail(w) : n + 1 \in DOMAIN w /\ Tail(w)[n] = w[n + 1]
           /\ Cardinality(Places(Tail(w), j)) =
                Cardinality(Places(w, j)) - (IF Head(w).slot = j THEN 1 ELSE 0)
  <1> DEFINE v == Tail(w)
             R == Places(w, j) \ {1}
             g == [n \in R |-> n - 1]
  <1>1. /\ v \in Seq(Frames) /\ Len(v) = Len(w) - 1 /\ Len(w) \in Nat \ {0}
        /\ \A n \in 1..Len(v) : v[n] = w[n + 1]
        /\ Head(w) = w[1]
        /\ DOMAIN v = 1..Len(v) /\ DOMAIN w = 1..Len(w)
    BY HeadTailProperties, EmptySeq
  <1> HIDE DEF v
  <1>2. Cardinality(R) = Cardinality(Places(w, j)) - (IF Head(w).slot = j THEN 1 ELSE 0)
        /\ IsFiniteSet(R)
    <2>1. 1 \in Places(w, j) <=> Head(w).slot = j
      BY <1>1 DEF Places
    <2> QED
      BY <2>1, PlacesFinite, FS_RemoveElement
  <1>3. ExistsBijection(R, Places(v, j))
    <2>1. g \in [R -> Places(v, j)]
      <3>1. ASSUME NEW n \in R PROVE n - 1 \in Places(v, j)
        <4>1. n \in 2..Len(w) /\ w[n].slot = j
          BY <1>1, <3>1 DEF Places
        <4> QED
          BY <1>1, <4>1 DEF Places
      <3> QED
        BY <3>1
    <2>2. \A a, b \in R : g[a] = g[b] => a = b
      BY <1>1 DEF Places
    <2>3. ASSUME NEW m \in Places(v, j) PROVE \E n \in R : g[n] = m
      <3>1. m \in 1..Len(v) /\ w[m + 1].slot = j
        BY <1>1, <2>3 DEF Places
      <3>2. m + 1 \in R /\ (m + 1) - 1 = m
        BY <1>1, <3>1 DEF Places
      <3> QED
        BY <3>2
    <2> QED
      BY <2>1, <2>2, <2>3 DEF ExistsBijection, Bijection, Injection, Surjection, IsInjective
  <1>4. Cardinality(Places(v, j)) = Cardinality(R)
    <2> HIDE DEF R
    <2> QED
      BY <1>2, <1>3, FS_Bijection
  <1> QED
    BY <1>1, <1>2, <1>4 DEF v

\* What a lost link leaves is a prefix of what was sent.
LEMMA PlacesPrefix ==
    ASSUME NEW w \in Seq(Frames), NEW a \in 0..Len(w), NEW j
    PROVE  /\ SubSeq(w, 1, a) \in Seq(Frames)
           /\ Len(SubSeq(w, 1, a)) = a
           /\ \A n \in DOMAIN SubSeq(w, 1, a) : n \in DOMAIN w /\ SubSeq(w, 1, a)[n] = w[n]
           /\ Cardinality(Places(SubSeq(w, 1, a), j)) <= Cardinality(Places(w, j))
  <1> DEFINE v == SubSeq(w, 1, a)
  <1>1. /\ v \in Seq(Frames) /\ Len(v) = a
        /\ \A n \in 1..a : v[n] = w[n]
        /\ DOMAIN v = 1..a /\ DOMAIN w = 1..Len(w)
    OBVIOUS
  <1> HIDE DEF v
  <1>2. Places(v, j) \in SUBSET Places(w, j)
    BY <1>1 DEF Places
  <1>3. Cardinality(Places(v, j)) <= Cardinality(Places(w, j))
    BY <1>2, PlacesFinite, FS_Subset
  <1> QED
    BY <1>1, <1>3 DEF v
-----------------------------------------------------------------------------
(* The inductive invariant. *)

\* The conjuncts of TypeOK that a step needs one by one.
RequestsOK ==
    /\ request \in [Ids -> {"new", "queued", "running", "done", "refused"}]
    /\ queue \in Seq(Ids)

StateOK ==
    /\ slots \in [Sessions -> SlotState]
    /\ next \in Sessions
    /\ transport \in [Sessions -> {"ready", "pending", "poisoned"}]
    /\ failed \in BOOLEAN /\ up \in BOOLEAN /\ recovering \in BOOLEAN /\ stop \in BOOLEAN
    /\ epc \in {"turn", "admit", "ended", "done"}

WireOK == wire \in Seq(Frames) /\ arrived \in 0..Len(wire)

\* An idle slot is as fg_pipeline_init left it; a job has a request; while the pipeline
\* unwinds nobody waits, and only then has a receive failed.
SlotsOK ==
    \A i \in Sessions :
        /\ ~slots[i].active => ~slots[i].waiting /\ slots[i].flight = 0 /\ slots[i].result = "ok"
        /\ slots[i].active => slots[i].id \in Ids
        /\ failed => ~slots[i].waiting
        /\ slots[i].result = "fault" => failed

\* While the pipeline has not failed, unread frames are of the running jobs and no more
\* than they count: a lost link may have swallowed some.
FramesOK ==
    ~failed =>
        /\ \A n \in DOMAIN wire :
             slots[wire[n].slot].active /\ slots[wire[n].slot].id = wire[n].id
        /\ \A i \in Sessions :
             /\ Cardinality(Places(wire, i)) <= slots[i].flight
             /\ up => Cardinality(Places(wire, i)) = slots[i].flight

\* The bound on outages covers the one under way, and a transaction that did not
\* complete has failed the pipeline.
OutagesOK ==
    /\ rings \in Nat /\ epoch \in 0..MaxOutages
    /\ ~up /\ ~failed => epoch < MaxOutages
    /\ ~failed => \A i \in Sessions : transport[i] # "poisoned"

PInv ==
    /\ RequestsOK /\ StateOK /\ WireOK
    /\ SlotsOK /\ FramesOK /\ OutagesOK
    /\ JobsStayOnTheirRing /\ EpochCountsOutages /\ IdleTransportReady
-----------------------------------------------------------------------------
(* A job's turn: what it resumes with and what it leaves. *)

\* A job that is resumed was active, waits no more, and has one frame less in flight
\* exactly if it consumed one; a failed receive means a lost ring or an unwinding one.
LEMMA ResumedFacts ==
    ASSUME MultiSessionAssumption, PInv, NEW i \in Sessions, Turn(i)
    PROVE  /\ Resumed(i) \in SlotState
           /\ slots[i].active /\ Resumed(i).active = TRUE
           /\ Resumed(i).id = slots[i].id /\ slots[i].id \in Ids
           /\ Resumed(i).ring = slots[i].ring
           /\ Resumed(i).waiting = FALSE
           /\ Resumed(i).flight = slots[i].flight - (IF Consumes(i) THEN 1 ELSE 0)
           /\ Resumed(i).result = "fault" => failed \/ ~up
           /\ Consumes(i) => ~failed /\ arrived > 0 /\ wire # <<>> /\ Head(wire).slot = i
  <1>1. /\ slots[i] \in SlotState /\ slots[i].active = TRUE /\ slots[i].id \in Ids
        /\ slots[i].waiting => Polled(i) # "none"
    BY DEF PInv, StateOK, SlotsOK, SlotState, Turn, Picked, Ready
  <1>2. Consumes(i) => ~failed /\ arrived > 0 /\ wire # <<>> /\ Head(wire).slot = i
    BY DEF Consumes, Polled, PInv, SlotsOK, WireOK
  <1>3. Consumes(i) => slots[i].flight - 1 \in 0..Alone
    <2> SUFFICES ASSUME Consumes(i) PROVE slots[i].flight >= 1
      BY <1>1, MultiSessionAssumption DEF SlotState, MultiSessionAssumption
    <2>1. wire \in Seq(Frames) /\ wire # <<>> /\ Head(wire).slot = i
      BY <1>2 DEF PInv, WireOK
    <2>2. Cardinality(Places(wire, i)) <= slots[i].flight
      BY <1>2 DEF PInv, FramesOK
    <2>3. /\ Cardinality(Places(Tail(wire), i)) = Cardinality(Places(wire, i)) - 1
          /\ Tail(wire) \in Seq(Frames)
      BY <2>1, PlacesTail
    <2>4. Cardinality(Places(Tail(wire), i)) \in Nat /\ Cardinality(Places(wire, i)) \in Nat
      BY <2>1, <2>3, PlacesFinite
    <2> QED
      BY <1>1, <2>2, <2>3, <2>4 DEF SlotState
  <1> DEFINE s == slots[i]
  <1>4. CASE Consumes(i)
    <2> DEFINE f == s.flight - 1
    <2>1. Resumed(i) = [s EXCEPT !.waiting = FALSE, !.result = "ok", !.flight = f]
      BY <1>4 DEF Resumed
    <2>2. f \in 0..Alone /\ s \in SlotState /\ s.active = TRUE
      BY <1>1, <1>3, <1>4
    <2> DEFINE r == Resumed(i)
    <2> HIDE DEF s, f, r
    <2>3. /\ r \in SlotState /\ r.active = TRUE /\ r.id = s.id /\ r.ring = s.ring
          /\ r.waiting = FALSE /\ r.flight = f /\ r.result = "ok"
      BY <2>1, <2>2 DEF SlotState, r
    <2> QED
      BY <1>1, <1>2, <1>4, <2>3 DEF s, f, r
  <1>5. CASE ~Consumes(i) /\ slots[i].waiting
    <2>1. Resumed(i) = [s EXCEPT !.waiting = FALSE, !.result = "fault"]
      BY <1>5 DEF Resumed
    <2>2. s \in SlotState /\ s.active = TRUE
      BY <1>1
    <2>3. ~up
      BY <1>1, <1>5 DEF Consumes, Polled
    <2> DEFINE r == Resumed(i)
    <2> HIDE DEF s, r
    <2>4. /\ r \in SlotState /\ r.active = TRUE /\ r.id = s.id /\ r.ring = s.ring
          /\ r.waiting = FALSE /\ r.flight = s.flight
      BY <2>1, <2>2 DEF SlotState, r
    <2>5. s.flight - 0 = s.flight
      BY <2>2 DEF SlotState
    <2> QED
      BY <1>1, <1>2, <1>5, <2>3, <2>4, <2>5 DEF s, r
  <1>6. CASE ~Consumes(i) /\ ~slots[i].waiting
    <2>1. Resumed(i) = slots[i]
      BY <1>6 DEF Resumed
    <2>2. slots[i].waiting = FALSE /\ slots[i].flight - 0 = slots[i].flight
      BY <1>1, <1>6 DEF SlotState
    <2>3. slots[i].result = "fault" => failed
      BY DEF PInv, SlotsOK
    <2> QED
      BY <1>1, <1>2, <1>6, <2>1, <2>2, <2>3
  <1> QED
    BY <1>4, <1>5, <1>6

\* What is left in the channel when the turn has begun.
LEMMA WireLeftFacts ==
    ASSUME MultiSessionAssumption, PInv, NEW i \in Sessions, Turn(i)
    PROVE  /\ WireLeft(i) \in Seq(Frames)
           /\ arrived - (IF Consumes(i) THEN 1 ELSE 0) \in 0..Len(WireLeft(i))
           /\ ~failed =>
                /\ \A n \in DOMAIN WireLeft(i) :
                     /\ slots[WireLeft(i)[n].slot].active
                     /\ slots[WireLeft(i)[n].slot].id = WireLeft(i)[n].id
                /\ \A j \in Sessions :
                     LET f == IF j = i THEN Resumed(i).flight ELSE slots[j].flight
                     IN  /\ Cardinality(Places(WireLeft(i), j)) <= f
                         /\ up => Cardinality(Places(WireLeft(i), j)) = f
  <1>0. wire \in Seq(Frames) /\ arrived \in 0..Len(wire)
    BY DEF PInv, WireOK
  <1>1. ~failed =>
          /\ \A n \in DOMAIN wire :
               slots[wire[n].slot].active /\ slots[wire[n].slot].id = wire[n].id
          /\ \A j \in Sessions :
               /\ Cardinality(Places(wire, j)) <= slots[j].flight
               /\ up => Cardinality(Places(wire, j)) = slots[j].flight
    BY DEF PInv, FramesOK
  <1>2. /\ Resumed(i).flight = slots[i].flight - (IF Consumes(i) THEN 1 ELSE 0)
        /\ Consumes(i) => ~failed /\ arrived > 0 /\ wire # <<>> /\ Head(wire).slot = i
    BY ResumedFacts
  <1>3. \A j \in Sessions : slots[j].flight \in Nat /\ Cardinality(Places(wire, j)) \in Nat
    <2> TAKE j \in Sessions
    <2>1. slots[j] \in SlotState
      BY DEF PInv, StateOK
    <2>2. slots[j].flight \in Nat
      BY <2>1 DEF SlotState
    <2>3. Cardinality(Places(wire, j)) \in Nat
      BY <1>0, PlacesFinite
    <2> QED
      BY <2>2, <2>3
  <1>4. CASE Consumes(i)
    <2>1. WireLeft(i) = Tail(wire)
      BY <1>4 DEF WireLeft
    <2>2. /\ Tail(wire) \in Seq(Frames) /\ Len(Tail(wire)) = Len(wire) - 1
          /\ \A n \in DOMAIN Tail(wire) : n + 1 \in DOMAIN wire /\ Tail(wire)[n] = wire[n + 1]
          /\ \A j \in Sessions : Cardinality(Places(Tail(wire), j)) =
                Cardinality(Places(wire, j)) - (IF Head(wire).slot = j THEN 1 ELSE 0)
      BY <1>0, <1>2, <1>4, PlacesTail
    <2>3. arrived - 1 \in 0..Len(Tail(wire))
      BY <1>0, <1>2, <1>4, <2>2
    <2>4. \A n \in DOMAIN Tail(wire) :
            /\ slots[Tail(wire)[n].slot].active
            /\ slots[Tail(wire)[n].slot].id = Tail(wire)[n].id
      BY <1>1, <1>2, <1>4, <2>2
    <2>5. \A j \in Sessions :
            LET f == IF j = i THEN Resumed(i).flight ELSE slots[j].flight
            IN  /\ Cardinality(Places(Tail(wire), j)) <= f
                /\ up => Cardinality(Places(Tail(wire), j)) = f
      <3> TAKE j \in Sessions
      <3>1. CASE j = i
        BY <1>1, <1>2, <1>3, <1>4, <2>2, <3>1
      <3>2. CASE j # i
        BY <1>1, <1>2, <1>3, <1>4, <2>2, <3>2
      <3> QED
        BY <3>1, <3>2
    <2> QED
      BY <1>4, <2>1, <2>2, <2>3, <2>4, <2>5
  <1>5. CASE ~Consumes(i)
    <2>1. WireLeft(i) = wire /\ arrived - 0 = arrived /\ Resumed(i).flight = slots[i].flight
      BY <1>0, <1>2, <1>3, <1>5 DEF WireLeft
    <2> QED
      BY <1>0, <1>1, <1>5, <2>1
  <1> QED
    BY <1>4, <1>5

\* A turn that ends in a yield: the job keeps its request and ring, and counts a frame
\* more exactly if it sent one.
LEMMA YieldsInv ==
    ASSUME MultiSessionAssumption, PInv, NEW i \in Sessions, Turn(i), failed = FALSE,
           NEW s \in SlotState, NEW t \in {"ready", "pending"}, NEW sent,
           s.active = TRUE, s.id = slots[i].id, s.ring = slots[i].ring, s.result = "ok",
           \/ s.flight = Resumed(i).flight /\ sent = <<>>
           \/ s.flight = Resumed(i).flight + 1 /\ sent = (IF up THEN <<Frame(i)>> ELSE <<>>),
           Yields(i, s, t, sent),
           UNCHANGED <<request, queue, failed, up, health, stop>>
    PROVE  PInv'
  <1> DEFINE w == WireLeft(i)
  <1>1. /\ slots' = [slots EXCEPT ![i] = s] /\ transport' = [transport EXCEPT ![i] = t]
        /\ wire' = w \o sent
        /\ arrived' = (IF Consumes(i) THEN arrived - 1 ELSE arrived)
        /\ next' = Other(i) /\ epc' = "admit"
        /\ request' = request /\ queue' = queue /\ failed' = failed /\ up' = up
        /\ recovering' = recovering /\ epoch' = epoch /\ rings' = rings /\ stop' = stop
    BY DEF Yields, health
  <1>2. /\ slots \in [Sessions -> SlotState]
        /\ transport \in [Sessions -> {"ready", "pending", "poisoned"}]
        /\ arrived \in Nat
    BY DEF PInv, StateOK, WireOK
  <1>3. /\ slots' \in [Sessions -> SlotState] /\ slots'[i] = s
        /\ \A j \in Sessions : j # i => slots'[j] = slots[j]
    BY <1>1, <1>2
  <1>4. RequestsOK'
    BY <1>1 DEF PInv, RequestsOK
  <1>5. StateOK'
    <2>1. Other(i) \in Sessions
      BY DEF Other, Sessions
    <2> QED
      BY <1>1, <1>2, <1>3, <2>1 DEF PInv, StateOK
  <1>6. /\ slots[i].active /\ slots[i].id \in Ids /\ Resumed(i).flight \in Nat
    <2>1. Resumed(i) \in SlotState
      BY ResumedFacts
    <2>2. Resumed(i).flight \in Nat
      BY <2>1 DEF SlotState
    <2> QED
      BY <2>2, ResumedFacts
  <1>7. /\ w \in Seq(Frames) /\ arrived' \in 0..Len(w)
        /\ \A n \in DOMAIN w : slots[w[n].slot].active /\ slots[w[n].slot].id = w[n].id
        /\ \A j \in Sessions : j # i =>
             /\ Cardinality(Places(w, j)) <= slots[j].flight
             /\ up => Cardinality(Places(w, j)) = slots[j].flight
        /\ Cardinality(Places(w, i)) <= Resumed(i).flight
        /\ up => Cardinality(Places(w, i)) = Resumed(i).flight
    BY <1>1, <1>2, WireLeftFacts
  <1> HIDE DEF w
  <1>8. Frame(i) \in Frames /\ Frame(i).slot = i /\ Frame(i).id = slots[i].id
    BY <1>6 DEF Frame, Frames
  <1>9. /\ wire' \in Seq(Frames) /\ arrived' \in 0..Len(wire')
        /\ \A n \in DOMAIN wire' :
             slots[wire'[n].slot].active /\ slots[wire'[n].slot].id = wire'[n].id
        /\ \A j \in Sessions : j # i =>
             /\ Cardinality(Places(wire', j)) <= slots[j].flight
             /\ up => Cardinality(Places(wire', j)) = slots[j].flight
        /\ Cardinality(Places(wire', i)) <= s.flight
        /\ up => Cardinality(Places(wire', i)) = s.flight
    <2>1. CASE sent = <<>>
      <3>1. wire' = w
        BY <1>1, <1>7, <2>1
      <3>2. Cardinality(Places(w, i)) \in Nat
        BY <1>7, PlacesFinite
      <3>3. Cardinality(Places(w, i)) <= s.flight /\ (up => Cardinality(Places(w, i)) = s.flight)
        <4>1. CASE s.flight = Resumed(i).flight
          BY <1>7, <4>1
        <4>2. CASE s.flight = Resumed(i).flight + 1 /\ ~up
          BY <1>6, <1>7, <3>2, <4>2
        <4>3. sent = <<Frame(i)>> => sent # <<>>
          OBVIOUS
        <4> QED
          BY <2>1, <4>1, <4>2, <4>3
      <3> QED
        BY <1>7, <3>1, <3>3
    <2>2. CASE sent = <<Frame(i)>>
      <3>1. s.flight = Resumed(i).flight + 1
        <4>1. <<Frame(i)>> # <<>>
          OBVIOUS
        <4> QED
          BY <2>2, <4>1
      <3>2. wire' = w \o <<Frame(i)>>
        BY <1>1, <2>2
      <3> DEFINE v == w \o <<Frame(i)>>
                 f == Frame(i)
      <3>3. /\ v \in Seq(Frames) /\ Len(v) = Len(w) + 1
            /\ \A n \in DOMAIN v : (n \in DOMAIN w /\ v[n] = w[n]) \/ v[n] = f
            /\ \A j \in Sessions : Cardinality(Places(v, j)) =
                  Cardinality(Places(w, j)) + (IF f.slot = j THEN 1 ELSE 0)
        BY <1>7, <1>8, PlacesAppend
      <3> HIDE DEF v, f
      <3>4. f.slot = i /\ f.id = slots[i].id
        BY <1>8 DEF f
      <3>5. \A j \in Sessions : Cardinality(Places(w, j)) \in Nat
        BY <1>7, PlacesFinite
      <3>6. \A n \in DOMAIN v : slots[v[n].slot].active /\ slots[v[n].slot].id = v[n].id
        BY <1>6, <1>7, <3>3, <3>4
      <3>7. /\ Cardinality(Places(v, i)) <= s.flight
            /\ up => Cardinality(Places(v, i)) = s.flight
        BY <1>6, <1>7, <3>1, <3>3, <3>4, <3>5
      <3>8. ASSUME NEW j \in Sessions, j # i
            PROVE  Cardinality(Places(v, j)) = Cardinality(Places(w, j))
        BY <3>3, <3>4, <3>5, <3>8
      <3>9. arrived' \in 0..Len(v)
        BY <1>7, <3>3
      <3>10. wire' = v
        BY <3>2 DEF v
      <3> QED
        BY <1>7, <3>3, <3>6, <3>7, <3>8, <3>9, <3>10
    <2> QED
      BY <2>1, <2>2
  <1>10. WireOK'
    BY <1>9 DEF WireOK
  <1>11. SlotsOK'
    <2> SUFFICES ASSUME NEW j \in Sessions
                 PROVE  /\ ~slots'[j].active => /\ ~slots'[j].waiting /\ slots'[j].flight = 0
                                                /\ slots'[j].result = "ok"
                        /\ slots'[j].active => slots'[j].id \in Ids
                        /\ failed' => ~slots'[j].waiting
                        /\ slots'[j].result = "fault" => failed'
      BY DEF SlotsOK
    <2>1. CASE j = i
      BY <1>1, <1>3, <1>6, <2>1
    <2>2. CASE j # i
      BY <1>1, <1>3, <2>2 DEF PInv, SlotsOK
    <2> QED
      BY <2>1, <2>2
  <1>12. FramesOK'
    <2>1. ASSUME NEW n \in DOMAIN wire'
          PROVE  slots'[wire'[n].slot].active /\ slots'[wire'[n].slot].id = wire'[n].id
      <3>1. wire'[n] \in Frames
        BY <1>9
      <3>2. wire'[n].slot \in Sessions
        BY <3>1 DEF Frames
      <3>3. CASE wire'[n].slot = i
        BY <1>3, <1>9, <3>3
      <3>4. CASE wire'[n].slot # i
        BY <1>3, <1>9, <3>2, <3>4
      <3> QED
        BY <3>3, <3>4
    <2>2. ASSUME NEW j \in Sessions
          PROVE  /\ Cardinality(Places(wire', j)) <= slots'[j].flight
                 /\ up => Cardinality(Places(wire', j)) = slots'[j].flight
      <3>1. CASE j = i
        BY <1>3, <1>9, <3>1
      <3>2. CASE j # i
        BY <1>3, <1>9, <3>2
      <3> QED
        BY <3>1, <3>2
    <2> QED
      BY <1>1, <2>1, <2>2 DEF FramesOK
  <1>13. OutagesOK'
    <2>1. \A j \in Sessions : transport[j] # "poisoned"
      BY DEF PInv, OutagesOK
    <2>2. \A j \in Sessions : transport'[j] # "poisoned"
      BY <1>1, <1>2, <2>1
    <2> QED
      BY <1>1, <2>2 DEF PInv, OutagesOK
  <1>14. JobsStayOnTheirRing'
    <2> SUFFICES ASSUME NEW j \in Sessions, slots'[j].active PROVE slots'[j].ring = rings'
      BY DEF JobsStayOnTheirRing
    <2>1. CASE j = i
      BY <1>1, <1>3, <1>6, <2>1 DEF PInv, JobsStayOnTheirRing
    <2>2. CASE j # i
      BY <1>1, <1>3, <2>2 DEF PInv, JobsStayOnTheirRing
    <2> QED
      BY <2>1, <2>2
  <1>15. EpochCountsOutages'
    BY <1>1 DEF PInv, EpochCountsOutages
  <1>16. IdleTransportReady'
    <2> SUFFICES ASSUME NEW j \in Sessions, ~slots'[j].active PROVE transport'[j] = "ready"
      BY DEF IdleTransportReady
    <2>1. j # i
      BY <1>3
    <2> QED
      BY <1>1, <1>2, <1>3, <2>1 DEF PInv, IdleTransportReady
  <1> QED
    BY <1>4, <1>5, <1>10, <1>11, <1>12, <1>13, <1>14, <1>15, <1>16 DEF PInv

\* A vacant slot is a slot state.
LEMMA VacantFacts ==
    ASSUME MultiSessionAssumption
    PROVE  /\ Vacant \in SlotState
           /\ Vacant.active = FALSE /\ Vacant.waiting = FALSE /\ Vacant.flight = 0
           /\ Vacant.result = "ok"
  <1>1. 0 \in 0..MaxOutages /\ 0 \in 0..Chunks /\ 0 \in 0..Alone /\ 0 \in 0..Tokens
    BY DEF MultiSessionAssumption
  <1> QED
    BY <1>1 DEF Vacant, SlotState, NoId

\* fg_pipeline_abort leaves a slot its job and only ends its wait.
LEMMA AbortedFacts ==
    ASSUME NEW s \in SlotState
    PROVE  /\ Aborted(s) \in SlotState
           /\ Aborted(s).active = s.active /\ Aborted(s).id = s.id /\ Aborted(s).ring = s.ring
           /\ Aborted(s).flight = s.flight
           /\ (~s.active => ~s.waiting) => Aborted(s).waiting = FALSE
           /\ ~s.active => Aborted(s).result = s.result
  <1>1. CASE s.active /\ s.waiting
    <2>1. Aborted(s) = [s EXCEPT !.waiting = FALSE, !.result = "fault"]
      BY <1>1 DEF Aborted
    <2> QED
      BY <1>1, <2>1 DEF SlotState
  <1>2. CASE ~(s.active /\ s.waiting)
    <2>1. Aborted(s) = s
      BY <1>2 DEF Aborted
    <2>2. (~s.active => ~s.waiting) => s.waiting = FALSE
      BY <1>2 DEF SlotState
    <2> QED
      BY <2>1, <2>2
  <1> QED
    BY <1>1, <1>2

\* A turn that ends the job: with a fault the pipeline fails and the other job's wait
\* ends; without one nothing of the job may be left on the ring.
LEMMA EndsInv ==
    ASSUME MultiSessionAssumption, PInv, NEW i \in Sessions, Turn(i),
           NEW faulted \in BOOLEAN, NEW t \in {"ready", "pending", "poisoned"},
           Ends(i, faulted, t),
           ~Incomplete(faulted, t) => Resumed(i).flight = 0,
           Incomplete(faulted, t) /\ ~failed => epoch < MaxOutages,
           UNCHANGED <<queue, up, rings, stop>>
    PROVE  PInv'
  <1> DEFINE w == WireLeft(i)
             r == slots[i].id
  <1>1. /\ request' = [request EXCEPT ![r] = "done"]
        /\ transport' = [transport EXCEPT ![i] = t]
        /\ wire' = w
        /\ arrived' = (IF Consumes(i) THEN arrived - 1 ELSE arrived)
        /\ next' = Other(i) /\ epc' = "ended"
        /\ queue' = queue /\ up' = up /\ rings' = rings /\ stop' = stop
    BY DEF Ends
  <1>2. /\ slots \in [Sessions -> SlotState]
        /\ transport \in [Sessions -> {"ready", "pending", "poisoned"}]
        /\ arrived \in Nat /\ failed \in BOOLEAN /\ recovering \in BOOLEAN
        /\ rings \in Nat /\ epoch \in 0..MaxOutages
    BY DEF PInv, StateOK, WireOK, OutagesOK
  <1>3. r \in Ids
    BY ResumedFacts
  <1>4. RequestsOK'
    BY <1>1, <1>3 DEF PInv, RequestsOK
  <1>5. /\ w \in Seq(Frames) /\ arrived' \in 0..Len(w)
        /\ ~failed =>
             /\ \A n \in DOMAIN w : slots[w[n].slot].active /\ slots[w[n].slot].id = w[n].id
             /\ \A j \in Sessions : j # i =>
                  /\ Cardinality(Places(w, j)) <= slots[j].flight
                  /\ up => Cardinality(Places(w, j)) = slots[j].flight
             /\ Cardinality(Places(w, i)) <= Resumed(i).flight
             /\ up => Cardinality(Places(w, i)) = Resumed(i).flight
    BY <1>1, <1>2, WireLeftFacts
  <1> HIDE DEF w, r
  <1>6. WireOK'
    BY <1>1, <1>5 DEF WireOK
  <1>7. Other(i) \in Sessions
    BY DEF Other, Sessions
  <1>8. /\ Vacant \in SlotState
        /\ Vacant.active = FALSE /\ Vacant.waiting = FALSE /\ Vacant.flight = 0
        /\ Vacant.result = "ok"
    BY VacantFacts
  <1>9. transport' \in [Sessions -> {"ready", "pending", "poisoned"}]
    BY <1>1, <1>2
  <1>10. CASE Incomplete(faulted, t)
    <2>1. /\ epoch' = Outages /\ recovering' = TRUE /\ failed' = TRUE
          /\ slots' = [j \in Sessions |->
                         IF j = i THEN Vacant
                         ELSE IF failed THEN slots[j] ELSE Aborted(slots[j])]
      BY <1>10 DEF Ends
    <2>2. slots'[i] = Vacant
      BY <2>1
    <2>3. ASSUME NEW j \in Sessions, j # i
          PROVE  /\ slots'[j] \in SlotState
                 /\ slots'[j].active = slots[j].active /\ slots'[j].id = slots[j].id
                 /\ slots'[j].ring = slots[j].ring /\ slots'[j].flight = slots[j].flight
                 /\ ~slots'[j].waiting
                 /\ ~slots[j].active => slots'[j].result = slots[j].result
      <3>1. /\ ~slots[j].active => ~slots[j].waiting
            /\ failed => ~slots[j].waiting
        BY <2>3 DEF PInv, SlotsOK
      <3>2. slots[j] \in SlotState
        BY <1>2
      <3>3. CASE failed
        <4>1. slots'[j] = slots[j]
          BY <2>1, <2>3, <3>3
        <4> QED
          BY <3>1, <3>2, <3>3, <4>1
      <3>4. CASE ~failed
        <4>1. slots'[j] = Aborted(slots[j])
          BY <2>1, <2>3, <3>4
        <4> QED
          BY <3>1, <3>2, <4>1, AbortedFacts
      <3> QED
        BY <3>3, <3>4
    <2>4. slots' \in [Sessions -> SlotState]
      <3>1. \A j \in Sessions : slots'[j] \in SlotState
        BY <1>8, <2>2, <2>3
      <3> DEFINE F(j) == IF j = i THEN Vacant
                         ELSE IF failed THEN slots[j] ELSE Aborted(slots[j])
      <3>2. slots' = [j \in Sessions |-> F(j)]
        BY <2>1
      <3> HIDE DEF F
      <3> QED
        BY <3>1, <3>2
    <2>5. StateOK'
      BY <1>1, <1>7, <1>9, <2>1, <2>4 DEF PInv, StateOK
    <2>6. SlotsOK'
      <3> SUFFICES ASSUME NEW j \in Sessions
                   PROVE  /\ ~slots'[j].active => /\ ~slots'[j].waiting /\ slots'[j].flight = 0
                                                  /\ slots'[j].result = "ok"
                          /\ slots'[j].active => slots'[j].id \in Ids
                          /\ failed' => ~slots'[j].waiting
                          /\ slots'[j].result = "fault" => failed'
        BY DEF SlotsOK
      <3>1. CASE j = i
        BY <1>8, <2>1, <2>2, <3>1
      <3>2. CASE j # i
        BY <2>1, <2>3, <3>2 DEF PInv, SlotsOK
      <3> QED
        BY <3>1, <3>2
    <2>7. FramesOK'
      BY <2>1 DEF FramesOK
    <2>8. /\ epoch' \in 0..MaxOutages
          /\ epoch' = rings + 1
      <3>1. epoch = rings + (IF failed THEN 1 ELSE 0) /\ MaxOutages \in Nat
        BY DEF PInv, EpochCountsOutages, MultiSessionAssumption
      <3>2. CASE failed
        BY <1>2, <2>1, <3>1, <3>2 DEF Outages
      <3>3. CASE ~failed
        BY <1>2, <1>10, <2>1, <3>1, <3>3 DEF Outages
      <3> QED
        BY <3>2, <3>3
    <2>9. OutagesOK'
      BY <1>1, <1>2, <2>1, <2>8 DEF OutagesOK
    <2>10. JobsStayOnTheirRing'
      <3> SUFFICES ASSUME NEW j \in Sessions, slots'[j].active PROVE slots'[j].ring = rings'
        BY DEF JobsStayOnTheirRing
      <3>1. j # i
        BY <1>8, <2>2
      <3> QED
        BY <1>1, <2>3, <3>1 DEF PInv, JobsStayOnTheirRing
    <2>11. EpochCountsOutages'
      BY <1>1, <2>1, <2>8 DEF EpochCountsOutages
    <2>12. IdleTransportReady'
      BY <2>1 DEF IdleTransportReady
    <2> QED
      BY <1>4, <1>6, <2>5, <2>6, <2>7, <2>9, <2>10, <2>11, <2>12 DEF PInv
  <1>11. CASE ~Incomplete(faulted, t)
    <2>1. /\ slots' = [slots EXCEPT ![i] = Vacant] /\ t = "ready"
          /\ failed' = failed /\ recovering' = recovering /\ epoch' = epoch
      BY <1>11 DEF Ends, Incomplete
    <2>2. /\ slots' \in [Sessions -> SlotState] /\ slots'[i] = Vacant
          /\ \A j \in Sessions : j # i => slots'[j] = slots[j]
      BY <1>2, <1>8, <2>1
    <2>3. StateOK'
      BY <1>1, <1>7, <1>9, <2>1, <2>2 DEF PInv, StateOK
    <2>4. SlotsOK'
      <3> SUFFICES ASSUME NEW j \in Sessions
                   PROVE  /\ ~slots'[j].active => /\ ~slots'[j].waiting /\ slots'[j].flight = 0
                                                  /\ slots'[j].result = "ok"
                          /\ slots'[j].active => slots'[j].id \in Ids
                          /\ failed' => ~slots'[j].waiting
                          /\ slots'[j].result = "fault" => failed'
        BY DEF SlotsOK
      <3>1. CASE j = i
        BY <1>8, <2>1, <2>2, <3>1
      <3>2. CASE j # i
        BY <2>1, <2>2, <3>2 DEF PInv, SlotsOK
      <3> QED
        BY <3>1, <3>2
    <2>5. FramesOK'
      <3> SUFFICES ASSUME ~failed
                   PROVE  /\ \A n \in DOMAIN wire' :
                               /\ slots'[wire'[n].slot].active
                               /\ slots'[wire'[n].slot].id = wire'[n].id
                          /\ \A j \in Sessions :
                               /\ Cardinality(Places(wire', j)) <= slots'[j].flight
                               /\ up => Cardinality(Places(wire', j)) = slots'[j].flight
        BY <1>1, <2>1 DEF FramesOK
      <3>1. Cardinality(Places(w, i)) = 0 /\ IsFiniteSet(Places(w, i))
        <4>1. Cardinality(Places(w, i)) \in Nat /\ IsFiniteSet(Places(w, i))
          BY <1>5, PlacesFinite
        <4>2. Cardinality(Places(w, i)) <= 0
          BY <1>5, <1>11
        <4> QED
          BY <4>1, <4>2
      <3>2. Places(w, i) = {}
        BY <3>1, FS_EmptySet
      <3>3. ASSUME NEW n \in DOMAIN w
            PROVE  slots'[w[n].slot].active /\ slots'[w[n].slot].id = w[n].id
        <4>1. w[n].slot # i
          BY <3>2, <3>3 DEF Places
        <4>2. w[n] \in Frames
          BY <1>5
        <4>3. w[n].slot \in Sessions
          BY <4>2 DEF Frames
        <4>4. slots[w[n].slot].active /\ slots[w[n].slot].id = w[n].id
          BY <1>5
        <4> QED
          BY <2>2, <4>1, <4>3, <4>4
      <3>4. ASSUME NEW j \in Sessions
            PROVE  /\ Cardinality(Places(w, j)) <= slots'[j].flight
                   /\ up => Cardinality(Places(w, j)) = slots'[j].flight
        <4>1. CASE j = i
          BY <1>8, <2>2, <3>1, <4>1
        <4>2. CASE j # i
          BY <1>5, <2>2, <4>2
        <4> QED
          BY <4>1, <4>2
      <3> QED
        BY <1>1, <3>3, <3>4
    <2>6. ~failed => \A j \in Sessions : transport'[j] # "poisoned"
      BY <1>1, <1>2, <2>1 DEF PInv, OutagesOK
    <2>7. OutagesOK'
      BY <1>1, <2>1, <2>6 DEF PInv, OutagesOK
    <2>8. JobsStayOnTheirRing'
      <3> SUFFICES ASSUME NEW j \in Sessions, slots'[j].active PROVE slots'[j].ring = rings'
        BY DEF JobsStayOnTheirRing
      <3>1. j # i
        BY <1>8, <2>2
      <3> QED
        BY <1>1, <2>2, <3>1 DEF PInv, JobsStayOnTheirRing
    <2>9. EpochCountsOutages'
      BY <1>1, <2>1 DEF PInv, EpochCountsOutages
    <2>10. IdleTransportReady'
      <3> SUFFICES ASSUME ~failed, NEW j \in Sessions, ~slots'[j].active
                   PROVE  transport'[j] = "ready"
        BY <2>1 DEF IdleTransportReady
      <3>1. CASE j = i
        BY <1>1, <1>2, <2>1, <3>1
      <3>2. CASE j # i
        BY <1>1, <1>2, <2>2, <3>2 DEF PInv, IdleTransportReady
      <3> QED
        BY <3>1, <3>2
    <2> QED
      BY <1>4, <1>6, <2>3, <2>4, <2>5, <2>7, <2>8, <2>9, <2>10 DEF PInv
  <1> QED
    BY <1>10, <1>11

\* The turns of a job preserve the invariant.
LEMMA JobStep ==
    ASSUME MultiSessionAssumption, PInv, NEW i \in Sessions, JobNext(i)
    PROVE  PInv'
  <1> DEFINE R == Resumed(i)
  <1>0. Turn(i)
    BY DEF JobNext, JobIssue, JobAwait, JobInterrupted, JobDecode, JobDone, JobFault,
           JobLeaves, GoesOn
  <1>1. /\ R \in SlotState /\ R.active = TRUE
        /\ R.id = slots[i].id /\ R.ring = slots[i].ring
        /\ R.result = "fault" => failed \/ ~up
    BY <1>0, ResumedFacts
  <1>2. /\ R.flight \in 0..Alone /\ R.todo \in 0..Chunks /\ R.left \in 0..Tokens
        /\ R.result \in {"ok", "fault"}
        /\ Alone \in Nat \ {0} /\ Chunks \in Nat /\ Tokens \in Nat
    BY <1>1 DEF SlotState, MultiSessionAssumption
  <1>3. /\ transport[i] \in {"ready", "pending", "poisoned"} /\ failed \in BOOLEAN
        /\ ~failed => transport[i] # "poisoned"
        /\ ~up /\ ~failed => epoch < MaxOutages
    BY DEF PInv, StateOK, OutagesOK
  <1>4. Budget(i) <= Alone
    <2>1. Alone \in Nat /\ Both \in Nat /\ Mixed \in Nat
      BY DEF MultiSessionAssumption
    <2> QED
      BY <2>1 DEF Budget
  <1>41. Budget(i) \in Nat
    <2>1. Alone \in Nat /\ Both \in Nat /\ Mixed \in Nat
      BY DEF MultiSessionAssumption
    <2> QED
      BY <2>1 DEF Budget
  <1>5. CASE JobIssue(i)
    <2> DEFINE d == R.todo - 1
               f == R.flight + 1
               s == [R EXCEPT !.todo = d, !.flight = f]
               t == IF transport[i] = "ready" THEN "pending" ELSE transport[i]
               sent == IF up THEN <<Frame(i)>> ELSE <<>>
    <2>1. /\ Yields(i, s, t, sent) /\ failed = FALSE /\ R.result = "ok"
          /\ R.todo > 0 /\ R.flight < Budget(i)
          /\ UNCHANGED <<request, queue, failed, up, health, stop>>
      BY <1>3, <1>5 DEF JobIssue, GoesOn, MayIssue
    <2>2. d \in 0..Chunks /\ f \in 0..Alone
      BY <1>2, <1>4, <1>41, <2>1
    <2>3. t \in {"ready", "pending"}
      BY <1>3, <2>1
    <2> HIDE DEF R, d, f, t, sent
    <2>4. /\ s \in SlotState /\ s.active = TRUE /\ s.id = R.id /\ s.ring = R.ring
          /\ s.result = R.result /\ s.flight = f
      BY <1>1, <2>2 DEF SlotState
    <2> HIDE DEF s
    <2>5. s.flight = Resumed(i).flight + 1 /\ sent = (IF up THEN <<Frame(i)>> ELSE <<>>)
      BY <2>4 DEF f, R, sent
    <2> QED
      BY <1>0, <1>1, <2>1, <2>3, <2>4, <2>5, YieldsInv
  <1>6. CASE JobAwait(i)
    <2>1. PICK aborted \in BOOLEAN :
            Yields(i, [R EXCEPT !.waiting = TRUE, !.aborted = aborted], transport[i], <<>>)
      BY <1>6 DEF JobAwait
    <2> DEFINE s == [R EXCEPT !.waiting = TRUE, !.aborted = aborted]
    <2>2. /\ failed = FALSE /\ R.result = "ok"
          /\ UNCHANGED <<request, queue, failed, up, health, stop>>
      BY <1>3, <1>6 DEF JobAwait, GoesOn
    <2>3. transport[i] \in {"ready", "pending"}
      BY <1>3, <2>2
    <2> HIDE DEF R
    <2>4. /\ s \in SlotState /\ s.active = TRUE /\ s.id = R.id /\ s.ring = R.ring
          /\ s.result = R.result /\ s.flight = R.flight
      BY <1>1 DEF SlotState
    <2>5. Yields(i, s, transport[i], <<>>)
      BY <2>1
    <2> HIDE DEF s
    <2>6. s.flight = Resumed(i).flight
      BY <2>4 DEF R
    <2> QED
      BY <1>0, <1>1, <2>2, <2>3, <2>4, <2>5, <2>6, YieldsInv
  <1>7. CASE JobDecode(i)
    <2> DEFINE t == IF Completed(i) = "ready" THEN "pending" ELSE Completed(i)
               sent == IF up THEN <<Frame(i)>> ELSE <<>>
               l == R.left - 1
    <2>1. PICK streaming \in BOOLEAN :
            Yields(i, [R EXCEPT !.phase = "decode", !.waiting = TRUE,
                           !.streaming = streaming, !.left = l, !.flight = 1], t, sent)
      BY <1>7 DEF JobDecode
    <2> DEFINE s == [R EXCEPT !.phase = "decode", !.waiting = TRUE,
                           !.streaming = streaming, !.left = l, !.flight = 1]
    <2>2. /\ failed = FALSE /\ R.result = "ok" /\ R.flight = 0 /\ R.left > 0
          /\ UNCHANGED <<request, queue, failed, up, health, stop>>
      BY <1>3, <1>7 DEF JobDecode, GoesOn
    <2>3. t \in {"ready", "pending"}
      BY <1>3, <2>2 DEF Completed
    <2>4. l \in 0..Tokens /\ 1 \in 0..Alone
      BY <1>2, <2>2
    <2> HIDE DEF R, l, t, sent
    <2>5. /\ s \in SlotState /\ s.active = TRUE /\ s.id = R.id /\ s.ring = R.ring
          /\ s.result = R.result /\ s.flight = 1
      BY <1>1, <2>4 DEF SlotState
    <2>6. Yields(i, s, t, sent)
      BY <2>1
    <2> HIDE DEF s
    <2>7. s.flight = Resumed(i).flight + 1 /\ sent = (IF up THEN <<Frame(i)>> ELSE <<>>)
      BY <2>2, <2>5 DEF R, sent
    <2> QED
      BY <1>0, <1>1, <2>2, <2>3, <2>5, <2>6, <2>7, YieldsInv
  <1>8. CASE JobInterrupted(i) \/ JobDone(i)
    <2>1. /\ Ends(i, FALSE, Completed(i)) /\ Resumed(i).flight = 0
          /\ UNCHANGED <<queue, up, rings, stop>>
      BY <1>8 DEF JobInterrupted, JobDone
    <2>2. /\ Completed(i) \in {"ready", "pending", "poisoned"}
          /\ Completed(i) = "ready" \/ failed
      BY <1>3 DEF Completed
    <2>3. ~Incomplete(FALSE, Completed(i)) \/ failed
      BY <2>2 DEF Incomplete
    <2> QED
      BY <1>0, <2>1, <2>2, <2>3, EndsInv
  <1>9. CASE JobFault(i)
    <2>1. /\ Ends(i, TRUE, "poisoned") /\ UNCHANGED <<queue, up, rings, stop>>
          /\ R.result = "fault" \/ failed \/ epoch < MaxOutages
      BY <1>9 DEF JobFault
    <2>2. Incomplete(TRUE, "poisoned") /\ (~failed => epoch < MaxOutages)
      BY <1>1, <1>3, <2>1 DEF Incomplete
    <2> QED
      BY <1>0, <2>1, <2>2, EndsInv
  <1>10. CASE JobLeaves(i)
    <2>1. /\ Ends(i, FALSE, "poisoned") /\ UNCHANGED <<queue, up, rings, stop>>
          /\ epoch < MaxOutages /\ Incomplete(FALSE, "poisoned")
      BY <1>10 DEF JobLeaves, Incomplete
    <2> QED
      BY <1>0, <2>1, EndsInv
  <1> QED
    BY <1>5, <1>6, <1>7, <1>8, <1>9, <1>10 DEF JobNext
-----------------------------------------------------------------------------
(* The environment and the engine loop. *)

\* Steps of the clients, the workers, the link and the signal preserve the invariant.
LEMMA EnvironmentStep ==
    ASSUME MultiSessionAssumption, PInv,
           (\E r \in Ids : Submit(r)) \/ Deliver \/ Disconnect \/ Signal
    PROVE  PInv'
  <1>1. ASSUME NEW r \in Ids, Submit(r) PROVE PInv'
    <2>1. /\ slots' = slots /\ next' = next /\ failed' = failed /\ transport' = transport
          /\ wire' = wire /\ arrived' = arrived /\ up' = up
          /\ recovering' = recovering /\ epoch' = epoch /\ rings' = rings
          /\ stop' = stop /\ epc' = epc
      BY <1>1 DEF Submit, pipeline, ring, health
    <2>2. /\ \E a \in {"queued", "refused"} : request' = [request EXCEPT ![r] = a]
          /\ queue' = Append(queue, r) \/ queue' = queue
      BY <1>1 DEF Submit
    <2>3. RequestsOK'
      BY <2>2 DEF PInv, RequestsOK
    <2> QED
      BY <2>1, <2>3 DEF PInv, StateOK, WireOK, SlotsOK, FramesOK, OutagesOK,
           JobsStayOnTheirRing, EpochCountsOutages, IdleTransportReady, Places
  <1>2. CASE Deliver
    <2>1. /\ slots' = slots /\ next' = next /\ failed' = failed /\ transport' = transport
          /\ wire' = wire /\ up' = up
          /\ recovering' = recovering /\ epoch' = epoch /\ rings' = rings
          /\ stop' = stop /\ epc' = epc /\ request' = request /\ queue' = queue
          /\ arrived' = arrived + 1 /\ arrived < Len(wire)
      BY <1>2 DEF Deliver, pipeline, health
    <2>2. WireOK'
      BY <2>1 DEF PInv, WireOK
    <2> QED
      BY <2>1, <2>2 DEF PInv, RequestsOK, StateOK, SlotsOK, FramesOK, OutagesOK,
           JobsStayOnTheirRing, EpochCountsOutages, IdleTransportReady, Places
  <1>3. CASE Disconnect
    <2>1. /\ slots' = slots /\ next' = next /\ failed' = failed /\ transport' = transport
          /\ arrived' = arrived /\ wire' = SubSeq(wire, 1, arrived)
          /\ recovering' = recovering /\ epoch' = epoch /\ rings' = rings
          /\ stop' = stop /\ epc' = epc /\ request' = request /\ queue' = queue
          /\ up = TRUE /\ up' = FALSE /\ epoch < MaxOutages
      BY <1>3 DEF Disconnect, pipeline, health, PInv, StateOK
    <2> DEFINE v == SubSeq(wire, 1, arrived)
    <2>2. wire \in Seq(Frames) /\ arrived \in 0..Len(wire)
      BY DEF PInv, WireOK
    <2>3. /\ v \in Seq(Frames) /\ Len(v) = arrived
          /\ \A n \in DOMAIN v : n \in DOMAIN wire /\ v[n] = wire[n]
          /\ \A j \in Sessions : Cardinality(Places(v, j)) <= Cardinality(Places(wire, j))
      BY <2>2, PlacesPrefix
    <2>4. wire' = v
      BY <2>1
    <2> HIDE DEF v
    <2>5. WireOK'
      BY <2>1, <2>2, <2>3, <2>4 DEF WireOK
    <2>6. FramesOK'
      <3> SUFFICES ASSUME ~failed
                   PROVE  /\ \A n \in DOMAIN v :
                               slots[v[n].slot].active /\ slots[v[n].slot].id = v[n].id
                          /\ \A j \in Sessions : Cardinality(Places(v, j)) <= slots[j].flight
        BY <2>1, <2>4 DEF FramesOK
      <3>1. /\ \A n \in DOMAIN wire :
                 slots[wire[n].slot].active /\ slots[wire[n].slot].id = wire[n].id
            /\ \A j \in Sessions : Cardinality(Places(wire, j)) <= slots[j].flight
        BY DEF PInv, FramesOK
      <3>2. ASSUME NEW j \in Sessions PROVE Cardinality(Places(v, j)) <= slots[j].flight
        <4>1. Cardinality(Places(v, j)) \in Nat /\ Cardinality(Places(wire, j)) \in Nat
          BY <2>2, <2>3, PlacesFinite
        <4>2. slots[j] \in SlotState
          BY DEF PInv, StateOK
        <4>3. slots[j].flight \in Nat
          BY <4>2 DEF SlotState
        <4> QED
          BY <2>3, <3>1, <4>1, <4>3
      <3> QED
        BY <2>3, <3>1, <3>2
    <2> QED
      BY <2>1, <2>5, <2>6 DEF PInv, RequestsOK, StateOK, SlotsOK, OutagesOK,
           JobsStayOnTheirRing, EpochCountsOutages, IdleTransportReady
  <1>4. CASE Signal
    BY <1>4 DEF Signal, pipeline, ring, health, PInv, RequestsOK, StateOK, WireOK, SlotsOK,
         FramesOK, OutagesOK, JobsStayOnTheirRing, EpochCountsOutages, IdleTransportReady,
         Places
  <1> QED
    BY <1>1, <1>2, <1>3, <1>4

\* Reconnection finds no job, so it may replace ring and transports.
LEMMA ReconnectStep ==
    ASSUME MultiSessionAssumption, PInv, EngineReconnect
    PROVE  PInv'
  <1>1. /\ wire' = <<>> /\ arrived' = 0 /\ up' = TRUE
        /\ transport' = [i \in Sessions |-> "ready"]
        /\ next' = 0 /\ failed' = FALSE /\ recovering' = FALSE /\ rings' = rings + 1
        /\ epc' = "turn" /\ request' = request /\ queue' = queue /\ slots' = slots
        /\ epoch' = epoch /\ stop' = stop /\ failed
    BY DEF EngineReconnect
  <1>2. \A i \in Sessions : ~slots[i].active
    BY DEF EngineReconnect, Quiet
  <1>3. RequestsOK'
    BY <1>1 DEF PInv, RequestsOK
  <1>4. StateOK'
    BY <1>1 DEF PInv, StateOK, Sessions
  <1>5. WireOK'
    BY <1>1 DEF WireOK
  <1>6. \A i \in Sessions : ~slots[i].waiting /\ slots[i].flight = 0
    BY <1>2 DEF PInv, SlotsOK
  <1>7. epoch = rings + 1 /\ rings \in Nat /\ epoch \in 0..MaxOutages
    BY <1>1 DEF PInv, EpochCountsOutages, OutagesOK
  <1>8. FramesOK'
    <2>1. \A i \in Sessions : Cardinality(Places(<<>>, i)) = 0
      BY PlacesEmpty
    <2> QED
      BY <1>1, <1>6, <2>1 DEF FramesOK
  <1>9. OutagesOK'
    BY <1>1, <1>7 DEF OutagesOK
  <1>10. JobsStayOnTheirRing'
    BY <1>1, <1>2 DEF JobsStayOnTheirRing
  <1>11. EpochCountsOutages'
    <2>1. recovering' = failed'
      BY <1>1, Zenon
    <2>2. epoch' = rings' + (IF failed' THEN 1 ELSE 0)
      BY <1>1, <1>7
    <2> QED
      BY <2>1, <2>2 DEF EpochCountsOutages
  <1>12. IdleTransportReady'
    BY <1>1 DEF IdleTransportReady
  <1>14. SlotsOK'
    BY <1>1, <1>2, <1>6 DEF PInv, SlotsOK
  <1> QED
    BY <1>3, <1>4, <1>5, <1>8, <1>9, <1>10, <1>11, <1>12, <1>14 DEF PInv

\* An admitted job starts in a slot that has neither frames nor a spoilt transport.
LEMMA AdmitStep ==
    ASSUME MultiSessionAssumption, PInv, EngineAdmit
    PROVE  PInv'
  <1>1. PICK q \in DOMAIN queue, i \in Sessions :
          /\ ~slots[i].active
          /\ slots' = [slots EXCEPT ![i] =
                [Vacant EXCEPT !.active = TRUE, !.id = queue[q], !.ring = rings,
                               !.todo = Chunks, !.left = Tokens]]
          /\ request' = [request EXCEPT ![queue[q]] = "running"]
          /\ queue' = SubSeq(queue, 1, q - 1) \o SubSeq(queue, q + 1, Len(queue))
    BY DEF EngineAdmit
  <1>2. /\ next' = next /\ failed' = failed /\ transport' = transport
        /\ wire' = wire /\ arrived' = arrived /\ up' = up
        /\ recovering' = recovering /\ epoch' = epoch /\ rings' = rings
        /\ stop' = stop /\ epc' = "turn" /\ ~failed
    BY DEF EngineAdmit, ring, health
  <1>3. queue \in Seq(Ids) /\ request \in [Ids -> {"new", "queued", "running", "done", "refused"}]
    BY DEF PInv, RequestsOK
  <1>4. queue[q] \in Ids /\ q \in 1..Len(queue) /\ Len(queue) \in Nat
    BY <1>3
  <1>5. RequestsOK'
    <2>1. /\ SubSeq(queue, 1, q - 1) \in Seq(Ids)
          /\ SubSeq(queue, q + 1, Len(queue)) \in Seq(Ids)
      BY <1>3, <1>4, SubSeqProperties
    <2>2. queue' \in Seq(Ids)
      BY <1>1, <2>1
    <2> QED
      BY <1>1, <1>3, <1>4, <2>2 DEF RequestsOK
  <1> DEFINE r == queue[q]
             s == [Vacant EXCEPT !.active = TRUE, !.id = r, !.ring = rings,
                                 !.todo = Chunks, !.left = Tokens]
  <1>6. /\ Vacant \in SlotState /\ Vacant.waiting = FALSE /\ Vacant.flight = 0
        /\ Vacant.result = "ok"
    BY VacantFacts
  <1>7. rings \in 0..MaxOutages /\ Chunks \in 0..Chunks /\ Tokens \in 0..Tokens
    <2>1. rings \in Nat /\ epoch \in 0..MaxOutages /\ epoch = rings
      <3>1. epoch = rings + 0 /\ rings \in Nat /\ epoch \in 0..MaxOutages
        BY <1>2 DEF PInv, EpochCountsOutages, OutagesOK
      <3> QED
        BY <3>1
    <2> QED
      BY <2>1 DEF MultiSessionAssumption
  <1>8. r \in Ids
    BY <1>4
  <1>9. slots' = [slots EXCEPT ![i] = s] /\ slots \in [Sessions -> SlotState]
    BY <1>1 DEF PInv, StateOK
  <1> HIDE DEF r
  <1>10. /\ s \in SlotState /\ s.active = TRUE /\ s.id = r /\ s.ring = rings
         /\ s.waiting = Vacant.waiting /\ s.flight = Vacant.flight /\ s.result = Vacant.result
    BY <1>6, <1>7, <1>8 DEF SlotState
  <1> HIDE DEF s
  <1>11. /\ slots' \in [Sessions -> SlotState] /\ slots'[i] = s
         /\ \A j \in Sessions : j # i => slots'[j] = slots[j]
    BY <1>9, <1>10
  <1>12. StateOK'
    BY <1>2, <1>11 DEF PInv, StateOK
  <1>13. WireOK'
    BY <1>2 DEF PInv, WireOK
  <1>14. SlotsOK'
    <2> SUFFICES ASSUME NEW j \in Sessions
                 PROVE  /\ ~slots'[j].active => /\ ~slots'[j].waiting /\ slots'[j].flight = 0
                                                /\ slots'[j].result = "ok"
                        /\ slots'[j].active => slots'[j].id \in Ids
                        /\ failed' => ~slots'[j].waiting
                        /\ slots'[j].result = "fault" => failed'
      BY DEF SlotsOK
    <2>1. CASE j = i
      BY <1>2, <1>6, <1>8, <1>10, <1>11, <2>1
    <2>2. CASE j # i
      BY <1>2, <1>11, <2>2 DEF PInv, SlotsOK
    <2> QED
      BY <2>1, <2>2
  <1>15. FramesOK'
    <2>1. /\ \A n \in DOMAIN wire :
               slots[wire[n].slot].active /\ slots[wire[n].slot].id = wire[n].id
          /\ \A j \in Sessions :
               /\ Cardinality(Places(wire, j)) <= slots[j].flight
               /\ up => Cardinality(Places(wire, j)) = slots[j].flight
          /\ slots[i].flight = 0 /\ wire \in Seq(Frames)
      BY <1>1, <1>2 DEF PInv, FramesOK, SlotsOK, WireOK
    <2>2. ASSUME NEW n \in DOMAIN wire
          PROVE  slots'[wire[n].slot].active /\ slots'[wire[n].slot].id = wire[n].id
      <3>1. wire[n] \in Frames
        BY <2>1
      <3>2. wire[n].slot \in Sessions /\ wire[n].slot # i
        BY <1>1, <2>1, <2>2, <3>1 DEF Frames
      <3> QED
        BY <1>11, <2>1, <3>2
    <2>3. ASSUME NEW j \in Sessions
          PROVE  /\ Cardinality(Places(wire, j)) <= slots'[j].flight
                 /\ up => Cardinality(Places(wire, j)) = slots'[j].flight
      <3>1. CASE j = i
        BY <1>6, <1>10, <1>11, <2>1, <3>1
      <3>2. CASE j # i
        BY <1>11, <2>1, <3>2
      <3> QED
        BY <3>1, <3>2
    <2> QED
      BY <1>2, <2>2, <2>3 DEF FramesOK
  <1>16. OutagesOK'
    BY <1>2 DEF PInv, OutagesOK
  <1>17. JobsStayOnTheirRing'
    <2> SUFFICES ASSUME NEW j \in Sessions, slots'[j].active PROVE slots'[j].ring = rings'
      BY DEF JobsStayOnTheirRing
    <2>1. CASE j = i
      BY <1>2, <1>10, <1>11, <2>1
    <2>2. CASE j # i
      BY <1>2, <1>11, <2>2 DEF PInv, JobsStayOnTheirRing
    <2> QED
      BY <2>1, <2>2
  <1>18. EpochCountsOutages'
    BY <1>2 DEF PInv, EpochCountsOutages
  <1>19. IdleTransportReady'
    <2> SUFFICES ASSUME NEW j \in Sessions, ~slots'[j].active PROVE transport'[j] = "ready"
      BY DEF IdleTransportReady
    <2>1. j # i
      BY <1>10, <1>11
    <2> QED
      BY <1>2, <1>11, <2>1 DEF PInv, IdleTransportReady
  <1> QED
    BY <1>5, <1>12, <1>13, <1>14, <1>15, <1>16, <1>17, <1>18, <1>19 DEF PInv

\* Every step of the engine thread preserves the invariant.
LEMMA EngineStep ==
    ASSUME MultiSessionAssumption, PInv, EngineNext
    PROVE  PInv'
  <1>1. CASE EngineProbe
    <2>1. /\ request' = request /\ queue' = queue /\ slots' = slots /\ next' = next
          /\ transport' = transport /\ wire' = wire /\ arrived' = arrived /\ up' = up
          /\ rings' = rings /\ stop' = stop /\ epoch' = epoch + 1 /\ recovering' = TRUE
          /\ failed' = TRUE /\ epc' = "admit" /\ ~failed /\ ~up
          /\ \A i \in Sessions : ~slots[i].active
      BY <1>1 DEF EngineProbe, ring
    <2>2. epoch < MaxOutages /\ epoch \in 0..MaxOutages /\ rings \in Nat
      BY <2>1 DEF PInv, OutagesOK
    <2>3. MaxOutages \in Nat /\ epoch = rings + 0
      BY <2>1 DEF PInv, EpochCountsOutages, MultiSessionAssumption
    <2>4. RequestsOK' /\ WireOK'
      BY <2>1 DEF PInv, RequestsOK, WireOK
    <2>5. StateOK'
      BY <2>1 DEF PInv, StateOK
    <2>6. SlotsOK'
      BY <2>1 DEF PInv, SlotsOK
    <2>7. FramesOK' /\ IdleTransportReady'
      BY <2>1 DEF FramesOK, IdleTransportReady
    <2>8. OutagesOK'
      BY <2>1, <2>2, <2>3 DEF OutagesOK
    <2>9. JobsStayOnTheirRing'
      BY <2>1 DEF PInv, JobsStayOnTheirRing
    <2>10. EpochCountsOutages'
      <3>1. recovering' = failed'
        BY <2>1, Zenon
      <3>2. epoch' = rings' + (IF failed' THEN 1 ELSE 0)
        BY <2>1, <2>2, <2>3
      <3> QED
        BY <3>1, <3>2 DEF EpochCountsOutages
    <2> QED
      BY <2>4, <2>5, <2>6, <2>7, <2>8, <2>9, <2>10 DEF PInv
  <1>2. CASE EngineWaits \/ EngineUnwinds \/ EngineGivesUp \/ EngineAdmitsNone \/ EngineStops
    <2>1. /\ UNCHANGED <<request, queue, pipeline, ring, health, stop>>
          /\ epc' \in {"turn", "admit", "done"}
      BY <1>2 DEF EngineWaits, EngineUnwinds, EngineGivesUp, EngineAdmitsNone, EngineStops
    <2>2. /\ request' = request /\ queue' = queue /\ slots' = slots /\ next' = next
          /\ failed' = failed /\ transport' = transport /\ wire' = wire
          /\ arrived' = arrived /\ up' = up /\ recovering' = recovering /\ epoch' = epoch
          /\ rings' = rings /\ stop' = stop
      BY <2>1 DEF pipeline, ring, health
    <2> QED
      BY <2>1, <2>2 DEF PInv, RequestsOK, StateOK, WireOK, SlotsOK, FramesOK, OutagesOK,
           JobsStayOnTheirRing, EpochCountsOutages, IdleTransportReady, Places
  <1> QED
    BY <1>1, <1>2, ReconnectStep, AdmitStep, JobStep DEF EngineNext

\* Init satisfies the invariant.
LEMMA InitOK ==
    ASSUME MultiSessionAssumption, Init
    PROVE  PInv
  <1>1. /\ Vacant \in SlotState /\ Vacant.active = FALSE /\ Vacant.waiting = FALSE
        /\ Vacant.flight = 0 /\ Vacant.result = "ok"
    BY VacantFacts
  <1>2. slots \in [Sessions -> SlotState] /\ \A i \in Sessions : slots[i] = Vacant
    BY <1>1 DEF Init
  <1>3. RequestsOK /\ WireOK
    BY DEF Init, RequestsOK, WireOK
  <1>4. StateOK
    BY <1>2 DEF Init, StateOK, Sessions
  <1>5. SlotsOK
    BY <1>1, <1>2 DEF SlotsOK
  <1>6. FramesOK
    BY <1>1, <1>2, PlacesEmpty DEF Init, FramesOK
  <1>7. OutagesOK /\ EpochCountsOutages
    <2>1. OutagesOK
      BY DEF Init, OutagesOK, MultiSessionAssumption
    <2>2. recovering = failed
      BY Zenon DEF Init
    <2>3. epoch = rings + (IF failed THEN 1 ELSE 0)
      BY DEF Init
    <2> QED
      BY <2>1, <2>2, <2>3 DEF EpochCountsOutages
  <1>8. JobsStayOnTheirRing /\ IdleTransportReady
    BY <1>1, <1>2 DEF Init, JobsStayOnTheirRing, IdleTransportReady
  <1> QED
    BY <1>3, <1>4, <1>5, <1>6, <1>7, <1>8 DEF PInv

\* The inductive invariant is at least as strong as the one the run checks.
LEMMA PInvImplies ==
    ASSUME MultiSessionAssumption, PInv
    PROVE  PipelineInv
  <1>1. rings \in 0..MaxOutages /\ epoch \in 0..MaxOutages
    <2>1. /\ rings \in Nat /\ epoch \in 0..MaxOutages /\ MaxOutages \in Nat
          /\ epoch = rings + (IF failed THEN 1 ELSE 0)
      BY DEF PInv, OutagesOK, EpochCountsOutages, MultiSessionAssumption
    <2> QED
      BY <2>1
  <1>2. TypeOK
    <2>1. {failed, up, recovering, stop} \subseteq BOOLEAN
      BY DEF PInv, StateOK
    <2>2. slots \in [Sessions ->
          [active : BOOLEAN, waiting : BOOLEAN, result : {"ok", "fault"},
           phase : {"prefill", "decode"}, streaming : BOOLEAN,
           id : Ids \cup {NoId}, ring : 0..MaxOutages, todo : 0..Chunks,
           flight : 0..Alone, left : 0..Tokens, aborted : BOOLEAN]]
      BY DEF PInv, StateOK, SlotState
    <2>3. wire \in Seq([slot : Sessions, id : Ids]) /\ arrived \in 0..Len(wire)
      BY DEF PInv, WireOK, Frames
    <2> QED
      BY <1>1, <2>1, <2>2, <2>3 DEF PInv, RequestsOK, StateOK, TypeOK
  <1>3. NoInheritedFrames
    <2>1. \A i \in Sessions : Unread(i) = Places(wire, i)
      BY DEF Unread, Places
    <2> QED
      BY <2>1 DEF PInv, FramesOK, NoInheritedFrames
  <1> QED
    BY <1>2, <1>3 DEF PInv, PipelineInv

\* Two cooperative jobs on one ring, with any number of requests and outages: each reads
\* only its own frames, a ring is replaced only when both jobs have unwound
\* (api_pipeline_engine), the recovery epoch counts outages, and a slot that is given a job
\* has a usable transport.
THEOREM PipelineCorrect ==
    ASSUME MultiSessionAssumption
    PROVE  Spec => []PipelineInv
  <1>1. Init => PInv
    BY InitOK
  <1>2. PInv /\ [Next]_vars => PInv'
    <2> SUFFICES ASSUME PInv, [Next]_vars PROVE PInv'
      OBVIOUS
    <2>1. CASE Next
      BY <2>1, EngineStep, EnvironmentStep DEF Next
    <2>2. CASE UNCHANGED vars
      BY <2>2 DEF vars, pipeline, ring, health, PInv, RequestsOK, StateOK, WireOK, SlotsOK,
           FramesOK, OutagesOK, JobsStayOnTheirRing, EpochCountsOutages,
           IdleTransportReady, Places
    <2> QED
      BY <2>1, <2>2
  <1>3. PInv => PipelineInv
    BY PInvImplies
  <1> QED
    BY <1>1, <1>2, <1>3, PTL DEF Spec
=============================================================================

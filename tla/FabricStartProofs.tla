------------------------- MODULE FabricStartProofs -------------------------
(***************************************************************************)
(* StartInv of FabricStart for every number of ranks, every choice of      *)
(* manifests and every number of processes that die and start again.       *)
(*                                                                         *)
(* What StartInv says of two ranks in their loops rests on what both ends  *)
(* of a connection know while one of them is still starting: the reply     *)
(* that is under way, the visitors of processes that died, and the frames  *)
(* they left.  SInv adds that.                                             *)
(***************************************************************************)
EXTENDS FabricStart, FiniteSetTheorems, SequenceTheorems, TLAPS

(* p holds r's connection on channel c to incarnation x of r, or the reply  *)
(* that makes it is there to be read.                                       *)
Replied(p, r, c, x) ==
    /\ phase[p] = "hello" /\ Target(p) = r /\ TargetChannel(p) = c
    /\ answer[p].said = "yes" /\ answer[p].life = x

Knows(p, r, c, x) == <<r, c, x>> \in link[p] \/ Replied(p, r, c, x)

Linked(r, p, c) == \E x \in 0 .. Crashes : <<p, c, x>> \in link[r]

(* The higher ranks that r has accepted on channel c.                       *)
Accepted(r, c) == {p \in Ranks : p > r /\ Linked(r, p, c)}

(* r has read the READY of p.                                               *)
Place(r, p) == IF p < r THEN p ELSE p - 1
Heard(r, p) == phase[r] = "loop" \/ (phase[r] = "ready" /\ Place(r, p) < step[r])

Types ==
    /\ manifest \in [Ranks -> Manifests]
    /\ life \in [Ranks -> 0 .. Crashes]
    /\ phase \in [Ranks -> Phases]
    /\ step \in [Ranks -> Nat]
    /\ backlog \in [Ranks -> [Channels -> Seq(Visitor)]]
    /\ answer \in [Ranks -> Reply]
    /\ link \in [Ranks -> SUBSET (Ranks \X Channels \X (0 .. Crashes))]
    /\ wire \in [Ranks -> [Ranks -> Seq({"READY", "BEGIN"})]]

(* Links are to other ranks, in incarnations that have been, under the      *)
(* manifest of both, one per peer and channel.                              *)
LinksOK(r) ==
    /\ \A l \in link[r] : l[1] # r /\ l[3] <= life[l[1]] /\ manifest[l[1]] = manifest[r]
    /\ \A k, l \in link[r] : (k[1] = l[1] /\ k[2] = l[2]) => k = l

(* How far fg_fabric_open and rank_ready are.                               *)
Below(r, n) == \A p \in Ranks, c \in Channels : p < r => (Linked(r, p, c) <=> 2 * p + c < n)

ProgressOK(r) ==
    /\ phase[r] = "down" => step[r] = 0 /\ link[r] = {}
    /\ phase[r] \in {"connect", "hello"} =>
         /\ r > 0 /\ step[r] < 2 * r /\ Below(r, step[r])
         /\ \A c \in Channels : Accepted(r, c) = {}
    /\ phase[r] = "accept" =>
         /\ r < N - 1 /\ step[r] < 2 * (N - 1 - r) /\ Below(r, 2 * r)
         /\ Cardinality(Accepted(r, 0)) = IF step[r] < N - 1 - r THEN step[r] ELSE N - 1 - r
         /\ Cardinality(Accepted(r, 1)) = IF step[r] < N - 1 - r THEN 0 ELSE step[r] - (N - 1 - r)
    /\ phase[r] \in {"greet", "ready", "loop"} =>
         \A p \in Peers(r), c \in Channels : Linked(r, p, c)
    /\ phase[r] = "greet" => step[r] = 0
    /\ phase[r] = "ready" => step[r] < N - 1
    /\ phase[r] = "loop" => step[r] = N - 1 \/ (r = 0 /\ step[r] = N)
    /\ phase[r] = "failed" => step[r] <= 2 * N

(* Visitors wait where a process listens; one whose process still runs     *)
(* waits once, and its process for it.                                      *)
VisitorOK(r, c, v) ==
    /\ v.rank > r /\ v.life <= life[v.rank] /\ v.manifest = manifest[v.rank]
    /\ v.life = life[v.rank] =>
         /\ phase[v.rank] = "hello" /\ Target(v.rank) = r /\ TargetChannel(v.rank) = c
         /\ answer[v.rank].said = "none"

BacklogOK(r) ==
    /\ \A c \in Channels :
        /\ backlog[r][c] # <<>> => Listening(r)
        /\ \A i \in 1 .. Len(backlog[r][c]) : VisitorOK(r, c, backlog[r][c][i])
        /\ \A i, j \in 1 .. Len(backlog[r][c]) :
             (backlog[r][c][i] = backlog[r][c][j] /\ backlog[r][c][i].life = life[backlog[r][c][i].rank])
                => i = j

(* A reply names an incarnation that has been, of the same manifest.        *)
ReplyOK(p) ==
    (phase[p] = "hello" /\ answer[p].said = "yes") =>
        answer[p].life <= life[Target(p)] /\ manifest[Target(p)] = manifest[p]

(* The two ends of a connection of two processes that run know each other,  *)
(* but for a duplicate: it was answered, and then r gave up.                *)
Paired(r, p) ==
    \A c \in Channels :
        /\ Knows(p, r, c, life[r]) => <<p, c, life[p]>> \in link[r] \/ phase[r] = "failed"
        /\ <<p, c, life[p]>> \in link[r] => Knows(p, r, c, life[r])

(* r holds a connection of an earlier incarnation of p, or will accept one. *)
HasOld(r, p) ==
    \E c \in Channels :
        \/ \E x \in 0 .. Crashes : x < life[p] /\ <<p, c, x>> \in link[r]
        \/ \E i \in 1 .. Len(backlog[r][c]) :
             backlog[r][c][i].rank = p /\ backlog[r][c][i].life < life[p]

(* Not both ends hold an earlier incarnation of the other.                  *)
NotBothOld(r, p) ==
    HasOld(r, p) => ~\E c \in Channels, y \in 0 .. Crashes : y < life[r] /\ Knows(p, r, c, y)

(* The CONTROL frames from p to r.                                          *)
FramesOK(p, r) ==
    /\ wire[p][r] # <<>> => r # p /\ \E x \in 0 .. Crashes : Knows(r, p, 0, x)
    /\ (wire[p][r] # <<>> /\ Knows(r, p, 0, life[p])) => phase[p] \in {"ready", "loop", "failed"}
    /\ phase[r] # "failed" => \A i \in 1 .. Len(wire[p][r]) :
         wire[p][r][i] = "READY" <=> (i = 1 /\ ~Heard(r, p))
    /\ (r # p /\ Heard(r, p) /\ Knows(r, p, 0, life[p])) => phase[p] \in {"ready", "loop", "failed"}
    /\ (r # p /\ phase[p] \in {"ready", "loop"} /\ Alive(p, r) /\ phase[r] # "failed" /\ ~Heard(r, p))
          => wire[p][r] # <<>>

BeginSent(r) ==
    (r # 0 /\ step[0] = N /\ phase[0] = "loop" /\ Alive(0, r)) =>
        \E i \in 1 .. Len(wire[0][r]) : wire[0][r][i] = "BEGIN"

SInv ==
    /\ Types
    /\ \A r \in Ranks : LinksOK(r) /\ ProgressOK(r) /\ BacklogOK(r) /\ ReplyOK(r) /\ BeginSent(r)
    /\ \A r, p \in Ranks : r < p => Paired(r, p) /\ NotBothOld(r, p)
    /\ \A r, p \in Ranks : FramesOK(p, r)
-----------------------------------------------------------------------------
(* What a step that leaves a rank alone leaves true of it. *)
\* The halves of a connector's progress: the peer and the channel.
LEMMA TargetOf ==
    ASSUME NEW n \in Nat
    PROVE  n \div 2 \in Nat /\ n % 2 \in Channels /\ n = 2 * (n \div 2) + (n % 2)
  BY DEF Channels

\* The target of a rank that is connecting is a lower rank, not yet linked.
LEMMA TargetLower ==
    ASSUME StartAssumption, SInv, NEW r \in Ranks, phase[r] \in {"connect", "hello"}
    PROVE  /\ Target(r) \in Ranks /\ Target(r) < r /\ TargetChannel(r) \in Channels
           /\ step[r] = 2 * Target(r) + TargetChannel(r)
           /\ \A x : <<Target(r), TargetChannel(r), x>> \notin link[r]
  <1>1. step[r] \in Nat /\ step[r] < 2 * r /\ Below(r, step[r])
    BY DEF SInv, Types, ProgressOK
  <1>2. Target(r) \in Nat /\ TargetChannel(r) \in Channels
        /\ step[r] = 2 * Target(r) + TargetChannel(r)
    BY <1>1, TargetOf DEF Target, TargetChannel
  <1>3. Target(r) \in Ranks /\ Target(r) < r
    BY <1>1, <1>2 DEF StartAssumption, Ranks, Channels
  <1>4. ~Linked(r, Target(r), TargetChannel(r))
    BY <1>1, <1>2, <1>3 DEF Below, Channels, Ranks
  <1>5. ASSUME NEW x, <<Target(r), TargetChannel(r), x>> \in link[r] PROVE FALSE
    <2>1. link[r] \subseteq Ranks \X Channels \X (0 .. Crashes)
      BY DEF SInv, Types
    <2>2. x \in 0 .. Crashes
      BY <1>5, <2>1
    <2> QED
      BY <1>4, <1>5, <2>2 DEF Linked
  <1> QED
    BY <1>2, <1>3, <1>5

\* Who is linked depends on the links only.
LEMMA LinkedSame ==
    ASSUME NEW r, link'[r] = link[r]
    PROVE  /\ \A p, c : Linked(r, p, c)' <=> Linked(r, p, c)
           /\ \A c : Accepted(r, c)' = Accepted(r, c)
           /\ \A n : Below(r, n)' <=> Below(r, n)
  BY DEF Linked, Accepted, Below

\* A rank that takes no part keeps its progress.
LEMMA ProgressSame ==
    ASSUME NEW r, link'[r] = link[r], phase'[r] = phase[r], step'[r] = step[r], ProgressOK(r)
    PROVE  ProgressOK(r)'
  <1>1. /\ \A p, c : Linked(r, p, c)' <=> Linked(r, p, c)
        /\ \A c : Accepted(r, c)' = Accepted(r, c)
    BY LinkedSame
  <1>2. Below(r, step[r])' <=> Below(r, step[r])
    BY <1>1 DEF Below
  <1>3. Below(r, 2 * r)' <=> Below(r, 2 * r)
    BY <1>1 DEF Below
  <1>4. Below(r, step[r]) <=> Below(r, step'[r])
    OBVIOUS
  <1>5. Accepted(r, 0)' = Accepted(r, 0) /\ Accepted(r, 1)' = Accepted(r, 1)
    BY <1>1
  <1> QED
    BY <1>1, <1>2, <1>3, <1>5 DEF ProgressOK, Peers

\* What a rank knows of its peers depends on its own state, and of its answer only on
\* a reply that accepts it.
LEMMA KnowsSame ==
    ASSUME NEW p, link'[p] = link[p], phase'[p] = phase[p], step'[p] = step[p],
           answer'[p] = answer[p] \/ (answer'[p].said # "yes" /\ answer[p].said # "yes")
    PROVE  \A r, c, x : Knows(p, r, c, x)' <=> Knows(p, r, c, x)
  BY DEF Knows, Replied, Target, TargetChannel

\* The same of a rank that waits for no reply, before or after.
LEMMA KnowsLinks ==
    ASSUME NEW p, link'[p] = link[p], phase'[p] # "hello",
           phase[p] # "hello" \/ answer[p].said # "yes"
    PROVE  \A r, c, x : Knows(p, r, c, x)' <=> Knows(p, r, c, x)
  BY DEF Knows, Replied

\* What was read of a peer depends on the place in rank_ready only.
LEMMA HeardSame ==
    ASSUME NEW r, phase'[r] = phase[r], step'[r] = step[r]
    PROVE  \A p : Heard(r, p)' <=> Heard(r, p)
  BY DEF Heard, Place

\* The frames from p to r stay in order when neither end does anything about them.
LEMMA FramesSame ==
    ASSUME NEW p \in Ranks, NEW r \in Ranks, FramesOK(p, r),
           wire'[p][r] = wire[p][r], life'[p] = life[p],
           \A x : Knows(r, p, 0, x)' <=> Knows(r, p, 0, x),
           phase'[r] = "failed" \/ (phase[r] # "failed" /\ (Heard(r, p)' <=> Heard(r, p))),
           phase'[p] \in {"ready", "loop"} => phase[p] \in {"ready", "loop"},
           phase[p] \in {"ready", "loop", "failed"} => phase'[p] \in {"ready", "loop", "failed"},
           (phase'[p] \in {"ready", "loop"} /\ Alive(p, r)') => Alive(p, r)
    PROVE  FramesOK(p, r)'
  <1>1. /\ \A x : Knows(r, p, 0, x)' <=> Knows(r, p, 0, x)
        /\ Knows(r, p, 0, life[p])' <=> Knows(r, p, 0, life[p])
    <2>1. \A x : Knows(r, p, 0, x)' <=> Knows(r, p, 0, x)
      OBVIOUS
    <2>2. PICK a : a = life[p]
      OBVIOUS
    <2>3. Knows(r, p, 0, life[p])' <=> Knows(r, p, 0, a)'
      BY <2>2 DEF Knows, Replied
    <2> QED
      BY <2>1, <2>2, <2>3
  <1>2. phase'[r] = "failed" => ~Heard(r, p)'
    BY DEF Heard
  <1> QED
    BY <1>1, <1>2 DEF FramesOK

\* The two ends of a connection stay paired.
LEMMA PairedSame ==
    ASSUME NEW r \in Ranks, NEW p \in Ranks, Paired(r, p),
           link'[r] = link[r], life'[r] = life[r], life'[p] = life[p],
           phase[r] = "failed" => phase'[r] = "failed",
           \A q, c, x : Knows(p, q, c, x)' <=> Knows(p, q, c, x)
    PROVE  Paired(r, p)'
  <1>1. PICK a : a = life[r]
    OBVIOUS
  <1>2. \A c : Knows(p, r, c, life[r])' <=> Knows(p, r, c, a)'
    BY <1>1 DEF Knows, Replied
  <1>3. \A c : Knows(p, r, c, life[r])' <=> Knows(p, r, c, life[r])
    BY <1>1, <1>2
  <1> QED
    BY <1>3 DEF Paired

\* A step that changes no link and no incarnation keeps NotBothOld.
LEMMA NotBothOldSame ==
    ASSUME NEW r \in Ranks, NEW p \in Ranks, NotBothOld(r, p),
           life'[r] = life[r], HasOld(r, p)' => HasOld(r, p),
           \A q, c, x : Knows(p, q, c, x)' <=> Knows(p, q, c, x)
    PROVE  NotBothOld(r, p)'
  BY DEF NotBothOld

\* Whether a rank holds an earlier incarnation of its peer depends on the links and incarnations only.
LEMMA HasOldSame ==
    ASSUME NEW r \in Ranks, NEW p \in Ranks,
           link'[r] = link[r], life'[p] = life[p],
           backlog'[r] = backlog[r] \/ \A c \in Channels : backlog'[r][c] = <<>>
    PROVE  HasOld(r, p)' => HasOld(r, p)
  BY DEF HasOld

\* Nobody new waits, and who waits is still in his place.
LEMMA BacklogSame ==
    ASSUME NEW r \in Ranks, BacklogOK(r), Types,
           backlog'[r] = backlog[r], life' = life, manifest' = manifest,
           Listening(r) => Listening(r)',
           \A c \in Channels : \A i \in 1 .. Len(backlog[r][c]) :
               VisitorOK(r, c, backlog[r][c][i]) => VisitorOK(r, c, backlog[r][c][i])'
    PROVE  BacklogOK(r)'
  <1>1. \A c \in Channels : \A i \in 1 .. Len(backlog[r][c]) : VisitorOK(r, c, backlog[r][c][i])'
    BY DEF BacklogOK
  <1> QED
    BY <1>1 DEF BacklogOK

\* An empty backlog is in order.
LEMMA BacklogEmpty ==
    ASSUME NEW r \in Ranks, \A c \in Channels : backlog'[r][c] = <<>>
    PROVE  BacklogOK(r)'
  BY DEF BacklogOK

\* Nobody new waits, and those who wait for a reply of r still do.
LEMMA BacklogKept ==
    ASSUME NEW r \in Ranks, BacklogOK(r), Types,
           backlog'[r] = backlog[r], life' = life, manifest' = manifest,
           Listening(r) => Listening(r)',
           \A p \in Ranks : (phase[p] = "hello" /\ answer[p].said = "none" /\ Target(p) = r) =>
               phase'[p] = phase[p] /\ step'[p] = step[p] /\ answer'[p] = answer[p]
    PROVE  BacklogOK(r)'
  <1>1. ASSUME NEW c \in Channels, NEW i \in 1 .. Len(backlog[r][c])
        PROVE  VisitorOK(r, c, backlog[r][c][i])'
    <2>1. PICK v : v = backlog[r][c][i]
      OBVIOUS
    <2>2. VisitorOK(r, c, v) /\ v \in Visitor
      BY <2>1 DEF BacklogOK, Types
    <2>3. v.rank \in Ranks
      BY <2>2 DEF Visitor
    <2>4. VisitorOK(r, c, v)'
      BY <2>2, <2>3 DEF VisitorOK, Target, TargetChannel
    <2>5. backlog'[r][c][i] = v
      BY <2>1
    <2> QED
      BY <2>4, <2>5 DEF VisitorOK, Target, TargetChannel
  <1> QED
    BY <1>1, BacklogSame

\* A step that touches neither the frames nor the announcement keeps BeginSent.
LEMMA BeginSame ==
    ASSUME NEW r \in Ranks, BeginSent(r), wire'[0][r] = wire[0][r], Alive(0, r)' => Alive(0, r),
           (step'[0] = N /\ phase'[0] = "loop") => (step[0] = N /\ phase[0] = "loop")
    PROVE  BeginSent(r)'
  BY DEF BeginSent
-----------------------------------------------------------------------------
(* One lemma per action. *)
\* fg_rank_main opening its listeners keeps the invariant.
LEMMA ListenKeeps ==
    ASSUME StartAssumption, SInv, NEW r \in Ranks, Listen(r)
    PROVE  SInv'
  <1> DEFINE to == IF r = 0 THEN "accept" ELSE "connect"
  <1>1. /\ phase[r] = "down" /\ phase' = [phase EXCEPT ![r] = to]
        /\ step' = [step EXCEPT ![r] = 0]
        /\ UNCHANGED <<manifest, life, backlog, answer, link, wire>>
    BY DEF Listen
  <1>2. to \in {"accept", "connect"} /\ to \in Phases
    BY DEF Phases
  <1> HIDE DEF to
  <1>3. Types'
    BY <1>1, <1>2 DEF SInv, Types
  <1>4. /\ phase'[r] = to /\ step'[r] = 0 /\ step[r] = 0 /\ link[r] = {}
        /\ \A q \in Ranks : q # r => phase'[q] = phase[q] /\ step'[q] = step[q]
    BY <1>1 DEF SInv, Types, ProgressOK
  <1>5. \A q \in Ranks : \A p, c, x : Knows(q, p, c, x)' <=> Knows(q, p, c, x)
    <2> SUFFICES ASSUME NEW q \in Ranks PROVE \A p, c, x : Knows(q, p, c, x)' <=> Knows(q, p, c, x)
      OBVIOUS
    <2>1. CASE q = r
      BY <1>1, <1>2, <1>4, <2>1, KnowsLinks
    <2>2. CASE q # r
      BY <1>1, <1>4, <2>2, KnowsSame
    <2> QED
      BY <2>1, <2>2
  <1>6. ASSUME NEW q \in Ranks PROVE LinksOK(q)' /\ ProgressOK(q)'
    <2>1. LinksOK(q)'
      BY <1>1 DEF SInv, LinksOK
    <2>2. CASE q # r
      BY <1>1, <1>4, <2>1, <2>2, ProgressSame DEF SInv
    <2>3. CASE q = r
      <3>1. \A p, c : ~Linked(r, p, c)'
        BY <1>1, <1>4 DEF Linked
      <3>2. \A c : Accepted(r, c)' = {}
        BY <3>1 DEF Accepted
      <3>3. Cardinality({}) = 0
        BY FS_EmptySet
      <3>4. r \in Nat /\ r <= N - 1 /\ N >= 2 /\ N \in Nat
        BY DEF Ranks, StartAssumption
      <3>5. CASE r = 0
        <4>1. to = "accept"
          BY <3>5 DEF to
        <4>2. Below(r, 2 * r)'
          BY <3>5 DEF Below, Ranks
        <4>3. Cardinality(Accepted(r, 0))' = 0 /\ Cardinality(Accepted(r, 1))' = 0
          BY <3>2, <3>3
        <4>4. phase'[r] = "accept" /\ step'[r] = 0
          BY <1>4, <4>1
        <4>5. 0 < N - 1 - r /\ r < N - 1 /\ 0 < 2 * (N - 1 - r)
          BY <3>4, <3>5
        <4> QED
          BY <2>1, <2>3, <4>2, <4>3, <4>4, <4>5 DEF ProgressOK
      <3>6. CASE r # 0
        <4>1. to = "connect"
          BY <3>6 DEF to
        <4>2. Below(r, 0)'
          BY <3>1, <3>4 DEF Below, Ranks, Channels
        <4>3. Below(r, step[r])'
          BY <1>4, <4>2 DEF Below
        <4> QED
          BY <1>4, <2>1, <2>3, <3>2, <3>3, <3>4, <3>6, <4>1, <4>3 DEF ProgressOK
      <3> QED
        BY <3>5, <3>6
    <2> QED
      BY <2>2, <2>3
  <1>7. ASSUME NEW q \in Ranks PROVE BacklogOK(q)'
    <2>1. \A p \in Ranks : phase[p] = "hello" => p # r
      BY <1>1
    <2>2. Listening(q) => Listening(q)'
      BY <1>1, <1>4, <1>2 DEF Listening
    <2> QED
      BY <1>1, <1>4, <2>1, <2>2, BacklogKept DEF SInv
  <1>8. ASSUME NEW q \in Ranks PROVE ReplyOK(q)'
    BY <1>1, <1>2, <1>4 DEF SInv, ReplyOK, Target
  <1>9. \A p, q \in Ranks : Alive(p, q)' <=> Alive(p, q)
    BY <1>1 DEF Alive
  <1>10. ASSUME NEW q \in Ranks PROVE BeginSent(q)'
    <2>1. (step'[0] = N /\ phase'[0] = "loop") => (step[0] = N /\ phase[0] = "loop")
      BY <1>1, <1>2, <1>4 DEF Ranks, StartAssumption
    <2>2. 0 \in Ranks
      BY DEF Ranks, StartAssumption
    <2> QED
      BY <1>1, <1>9, <2>1, <2>2, BeginSame DEF SInv
  <1>11. ASSUME NEW q \in Ranks, NEW p \in Ranks, q < p PROVE Paired(q, p)' /\ NotBothOld(q, p)'
    <2>1. HasOld(q, p)' => HasOld(q, p)
      BY <1>1, HasOldSame
    <2>2. phase[q] = "failed" => phase'[q] = "failed"
      BY <1>1, <1>4
    <2> QED
      BY <1>1, <1>5, <1>11, <2>1, <2>2, PairedSame, NotBothOldSame DEF SInv
  <1>12. ASSUME NEW q \in Ranks, NEW p \in Ranks PROVE FramesOK(p, q)'
    <2>1. phase'[q] = "failed" \/ (phase[q] # "failed" /\ (Heard(q, p)' <=> Heard(q, p)))
      <3>1. CASE q = r
        BY <1>1, <1>2, <1>4, <3>1 DEF Heard
      <3>2. CASE q # r
        BY <1>4, <3>2, HeardSame
      <3> QED
        BY <3>1, <3>2
    <2>2. /\ phase'[p] \in {"ready", "loop"} => phase[p] \in {"ready", "loop"}
          /\ phase[p] \in {"ready", "loop", "failed"} => phase'[p] \in {"ready", "loop", "failed"}
      BY <1>1, <1>2, <1>4
    <2> QED
      BY <1>1, <1>5, <1>9, <2>1, <2>2, FramesSame DEF SInv
  <1> QED
    BY <1>3, <1>6, <1>7, <1>8, <1>10, <1>11, <1>12 DEF SInv

\* connect_retry reaching a listener keeps the invariant.
LEMMA ConnectKeeps ==
    ASSUME StartAssumption, SInv, NEW r \in Ranks, Connect(r)
    PROVE  SInv'
  <1>1. PICK t \in Ranks, d \in Channels : t = Target(r) /\ d = TargetChannel(r) /\ t < r
    BY TargetLower DEF Connect
  <1>2. PICK v \in Visitor : v = [rank |-> r, life |-> life[r], manifest |-> manifest[r]]
    BY DEF SInv, Types, Visitor
  <1>3. /\ phase[r] = "connect" /\ phase' = [phase EXCEPT ![r] = "hello"]
        /\ Listening(t)
        /\ backlog' = [backlog EXCEPT ![t][d] = Append(@, v)]
        /\ answer' = [answer EXCEPT ![r] = Silence]
        /\ UNCHANGED <<manifest, life, step, link, wire>>
    BY <1>1, <1>2 DEF Connect
  <1>4. Types'
    <2>1. backlog[t][d] \in Seq(Visitor)
      BY DEF SInv, Types
    <2>2. Append(backlog[t][d], v) \in Seq(Visitor)
      BY <2>1
    <2>3. backlog' \in [Ranks -> [Channels -> Seq(Visitor)]]
      BY <1>3, <2>2 DEF SInv, Types
    <2>4. Silence \in Reply
      BY DEF Silence, Reply, StartAssumption
    <2> QED
      BY <1>3, <2>3, <2>4 DEF SInv, Types, Phases
  <1>5. /\ phase'[r] = "hello" /\ answer'[r].said = "none"
        /\ \A q \in Ranks : q # r => phase'[q] = phase[q] /\ answer'[q] = answer[q]
    BY <1>3 DEF SInv, Types, Silence
  <1>6. \A q \in Ranks : \A p, c, x : Knows(q, p, c, x)' <=> Knows(q, p, c, x)
    <2> SUFFICES ASSUME NEW q \in Ranks PROVE \A p, c, x : Knows(q, p, c, x)' <=> Knows(q, p, c, x)
      OBVIOUS
    <2>1. CASE q = r
      BY <1>3, <1>5, <2>1 DEF Knows, Replied
    <2>2. CASE q # r
      BY <1>3, <1>5, <2>2, KnowsSame
    <2> QED
      BY <2>1, <2>2
  <1>7. ASSUME NEW q \in Ranks PROVE LinksOK(q)' /\ ProgressOK(q)'
    <2>1. LinksOK(q)'
      BY <1>3 DEF SInv, LinksOK
    <2>2. CASE q # r
      BY <1>3, <1>5, <2>1, <2>2, ProgressSame DEF SInv
    <2>3. CASE q = r
      <3>1. /\ \A c : Accepted(r, c)' = Accepted(r, c)
            /\ Below(r, step[r])' <=> Below(r, step[r])
        BY <1>3, LinkedSame DEF Below
      <3> QED
        BY <1>3, <1>5, <2>1, <2>3, <3>1 DEF SInv, ProgressOK
    <2> QED
      BY <2>2, <2>3
  <1>8. ASSUME NEW q \in Ranks PROVE BacklogOK(q)'
    <2>1. CASE q # t
      <3>1. backlog'[q] = backlog[q]
        BY <1>3, <2>1 DEF SInv, Types
      <3>2. Listening(q) => Listening(q)'
        BY <1>3, <1>5 DEF Listening
      <3>3. \A p \in Ranks : phase[p] = "hello" => p # r
        BY <1>3
      <3> QED
        BY <1>3, <1>5, <3>1, <3>2, <3>3, BacklogKept DEF SInv
    <2>2. CASE q = t
      <3> SUFFICES ASSUME NEW c \in Channels
                   PROVE  /\ Listening(t)'
                          /\ \A i \in 1 .. Len(backlog'[t][c]) : VisitorOK(t, c, backlog[t][c][i])'
                          /\ \A i, j \in 1 .. Len(backlog'[t][c]) :
                                (backlog'[t][c][i] = backlog'[t][c][j]
                                 /\ backlog'[t][c][i].life = life'[backlog'[t][c][i].rank]) => i = j
        BY <2>2 DEF BacklogOK
      <3>1. Listening(t)'
        BY <1>1, <1>3, <1>5 DEF Listening
      <3>2. PICK b \in Seq(Visitor) : b = backlog[t][c]
        BY DEF SInv, Types
      <3>3. ASSUME NEW i \in 1 .. Len(b)
            PROVE  /\ VisitorOK(t, c, b[i])' /\ (b[i].life = life[b[i].rank] => b[i].rank # r)
        <4>1. PICK u \in Visitor : u = b[i]
          BY <3>2
        <4>2. VisitorOK(t, c, u)
          BY <3>2, <4>1 DEF SInv, BacklogOK
        <4>3. u.life = life[u.rank] => u.rank # r
          BY <1>3, <4>2 DEF VisitorOK
        <4>4. u.rank \in Ranks
          BY <4>1 DEF Visitor
        <4>5. VisitorOK(t, c, u)'
          BY <1>3, <1>5, <4>2, <4>3, <4>4 DEF VisitorOK, Target, TargetChannel
        <4> QED
          BY <4>1, <4>3, <4>5
      <3>4. \A i, j \in 1 .. Len(b) : (b[i] = b[j] /\ b[i].life = life[b[i].rank]) => i = j
        BY <3>2 DEF SInv, BacklogOK
      <3>5. PICK e : e = backlog'[t][c]
        OBVIOUS
      <3>6. CASE c # d
        <4>1. e = b
          BY <1>3, <3>2, <3>5, <3>6 DEF SInv, Types
        <4>2. \A i \in 1 .. Len(e) : VisitorOK(t, c, e[i])'
          BY <3>3, <4>1
        <4>3. \A i \in 1 .. Len(e) : VisitorOK(t, c, backlog[t][c][i])'
          BY <3>5, <4>2 DEF VisitorOK, Target, TargetChannel
        <4> QED
          BY <1>3, <3>1, <3>4, <3>5, <4>1, <4>3
      <3>7. CASE c = d
        <4>1. e = Append(b, v)
          BY <1>3, <3>2, <3>5, <3>7 DEF SInv, Types
        <4>2. /\ Len(e) = Len(b) + 1 /\ e[Len(b) + 1] = v /\ Len(b) \in Nat
              /\ \A i \in 1 .. Len(b) : e[i] = b[i]
          BY <4>1
        <4>3. v.rank = r /\ v.life = life[r] /\ v.manifest = manifest[r]
          BY <1>2
        <4>4. VisitorOK(t, c, v)'
          <5>1. Target(r)' = t /\ TargetChannel(r)' = c
            BY <1>1, <1>3, <3>7 DEF Target, TargetChannel
          <5>2. life[r] \in Nat /\ life'[r] = life[r] /\ manifest'[r] = manifest[r]
            BY <1>3 DEF SInv, Types, StartAssumption
          <5>3. v.rank > t
            BY <1>1, <4>3 DEF Ranks
          <5> QED
            BY <1>5, <4>3, <5>1, <5>2, <5>3 DEF VisitorOK
        <4> HIDE DEF VisitorOK
        <4>5. ASSUME NEW i \in 1 .. Len(e) PROVE VisitorOK(t, c, e[i])'
          <5>1. CASE i = Len(b) + 1
            BY <4>2, <4>4, <5>1
          <5>2. CASE i # Len(b) + 1
            <6>1. i \in 1 .. Len(b)
              BY <4>2, <5>2
            <6> QED
              BY <3>3, <4>2, <6>1
          <5> QED
            BY <5>1, <5>2
        <4>6. \A i \in 1 .. Len(e) : VisitorOK(t, c, backlog[t][c][i])'
          BY <3>5, <4>5 DEF VisitorOK, Target, TargetChannel
        <4>7. ASSUME NEW i \in 1 .. Len(e), NEW j \in 1 .. Len(e), e[i] = e[j],
                     e[i].life = life[e[i].rank]
              PROVE  i = j
          <5>1. CASE i \in 1 .. Len(b) /\ j \in 1 .. Len(b)
            BY <3>4, <4>2, <4>7, <5>1
          <5>2. CASE i \in 1 .. Len(b) /\ j \notin 1 .. Len(b)
            <6>1. j = Len(b) + 1
              BY <4>2, <5>2
            <6>2. b[i] = v
              BY <4>2, <4>7, <5>2, <6>1
            <6> QED
              BY <3>3, <4>3, <5>2, <6>2
          <5>3. CASE i \notin 1 .. Len(b) /\ j \in 1 .. Len(b)
            <6>1. i = Len(b) + 1
              BY <4>2, <5>3
            <6>2. b[j] = v
              BY <4>2, <4>7, <5>3, <6>1
            <6> QED
              BY <3>3, <4>3, <5>3, <6>2
          <5>4. CASE i \notin 1 .. Len(b) /\ j \notin 1 .. Len(b)
            BY <4>2, <5>4
          <5> QED
            BY <5>1, <5>2, <5>3, <5>4
        <4> QED
          BY <1>3, <3>1, <3>5, <4>6, <4>7
      <3> QED
        BY <3>6, <3>7
    <2> QED
      BY <2>1, <2>2
  <1>9. ASSUME NEW q \in Ranks PROVE ReplyOK(q)'
    BY <1>3, <1>5 DEF SInv, ReplyOK, Target
  <1>10. \A p, q \in Ranks : Alive(p, q)' <=> Alive(p, q)
    BY <1>3 DEF Alive
  <1>11. ASSUME NEW q \in Ranks PROVE BeginSent(q)'
    <2>1. (step'[0] = N /\ phase'[0] = "loop") => (step[0] = N /\ phase[0] = "loop")
      BY <1>3, <1>5 DEF Ranks, StartAssumption
    <2>2. 0 \in Ranks
      BY DEF Ranks, StartAssumption
    <2> QED
      BY <1>3, <1>10, <2>1, <2>2, BeginSame DEF SInv
  <1>12. ASSUME NEW q \in Ranks, NEW p \in Ranks, q < p PROVE Paired(q, p)' /\ NotBothOld(q, p)'
    <2>1. HasOld(q, p)' => HasOld(q, p)
      <3>1. CASE q # t
        <4>1. backlog'[q] = backlog[q]
          BY <1>3, <3>1 DEF SInv, Types
        <4> QED
          BY <1>3, <4>1, HasOldSame
      <3>2. CASE q = t
        <4>1. ASSUME NEW c \in Channels, NEW i \in 1 .. Len(backlog'[t][c]),
                     backlog'[t][c][i].rank = p, backlog'[t][c][i].life < life[p]
              PROVE  i \in 1 .. Len(backlog[t][c]) /\ backlog[t][c][i] = backlog'[t][c][i]
          <5>1. PICK b \in Seq(Visitor) : b = backlog[t][c]
            BY DEF SInv, Types
          <5>2. CASE c # d
            BY <1>3, <4>1, <5>2 DEF SInv, Types
          <5>3. CASE c = d
            <6>1. backlog'[t][c] = Append(b, v)
              BY <1>3, <5>1, <5>3 DEF SInv, Types
            <6>2. /\ Len(Append(b, v)) = Len(b) + 1 /\ Append(b, v)[Len(b) + 1] = v /\ Len(b) \in Nat
                  /\ \A n \in 1 .. Len(b) : Append(b, v)[n] = b[n]
              OBVIOUS
            <6>3. i # Len(b) + 1
              <7>1. v.rank = r /\ v.life = life[r] /\ life[r] \in Nat
                BY <1>2 DEF SInv, Types, StartAssumption
              <7> QED
                BY <4>1, <6>1, <6>2, <7>1
            <6> QED
              BY <4>1, <5>1, <6>1, <6>2, <6>3
          <5> QED
            BY <5>2, <5>3
        <4> QED
          BY <1>3, <3>2, <4>1 DEF HasOld
      <3> QED
        BY <3>1, <3>2
    <2>2. phase[q] = "failed" => phase'[q] = "failed"
      BY <1>3, <1>5
    <2> QED
      BY <1>3, <1>6, <1>12, <2>1, <2>2, PairedSame, NotBothOldSame DEF SInv
  <1>13. ASSUME NEW q \in Ranks, NEW p \in Ranks PROVE FramesOK(p, q)'
    <2>1. phase'[q] = "failed" \/ (phase[q] # "failed" /\ (Heard(q, p)' <=> Heard(q, p)))
      <3>1. CASE q = r
        BY <1>3, <1>5, <3>1 DEF Heard
      <3>2. CASE q # r
        BY <1>3, <1>5, <3>2, HeardSame
      <3> QED
        BY <3>1, <3>2
    <2>2. /\ phase'[p] \in {"ready", "loop"} => phase[p] \in {"ready", "loop"}
          /\ phase[p] \in {"ready", "loop", "failed"} => phase'[p] \in {"ready", "loop", "failed"}
      BY <1>3, <1>5
    <2> QED
      BY <1>3, <1>6, <1>10, <2>1, <2>2, FramesSame DEF SInv
  <1> QED
    BY <1>4, <1>7, <1>8, <1>9, <1>11, <1>12, <1>13 DEF SInv

\* outgoing reading an accepted handshake keeps the invariant.
LEMMA AnsweredYesKeeps ==
    ASSUME StartAssumption, SInv, NEW r \in Ranks, Answered(r), answer[r].said = "yes"
    PROVE  SInv'
  <1>1. PICK t \in Ranks, d \in Channels :
           /\ t = Target(r) /\ d = TargetChannel(r) /\ t < r
           /\ step[r] = 2 * t + d /\ \A x : <<t, d, x>> \notin link[r]
    BY TargetLower DEF Answered
  <1>2. PICK a \in 0 .. Crashes : a = answer[r].life
    BY DEF SInv, Types, Reply
  <1> DEFINE to == IF step[r] + 1 < 2 * r THEN "connect" ELSE IF r = N - 1 THEN "greet" ELSE "accept"
             st == IF step[r] + 1 = 2 * r THEN 0 ELSE step[r] + 1
  <1>3. /\ phase[r] = "hello" /\ phase' = [phase EXCEPT ![r] = to]
        /\ step' = [step EXCEPT ![r] = st]
        /\ link' = [link EXCEPT ![r] = @ \cup {<<t, d, a>>}]
        /\ UNCHANGED <<manifest, life, backlog, answer, wire>>
    BY <1>1, <1>2 DEF Answered
  <1>4. /\ to \in {"connect", "greet", "accept"} /\ to \in Phases /\ st \in Nat
        /\ step[r] \in Nat /\ step[r] < 2 * r /\ r \in Nat /\ r <= N - 1 /\ N \in Nat
        /\ step[r] + 1 < 2 * r => to = "connect" /\ st = step[r] + 1
        /\ step[r] + 1 = 2 * r => st = 0 /\ to = IF r = N - 1 THEN "greet" ELSE "accept"
    <2>1. step[r] \in Nat /\ step[r] < 2 * r /\ r \in Nat /\ r <= N - 1 /\ N \in Nat
      BY <1>3 DEF SInv, Types, ProgressOK, Ranks, StartAssumption
    <2> QED
      BY <2>1 DEF Phases
  <1> HIDE DEF to, st
  <1>5. Types'
    <2>1. <<t, d, a>> \in Ranks \X Channels \X (0 .. Crashes)
      OBVIOUS
    <2>2. link' \in [Ranks -> SUBSET (Ranks \X Channels \X (0 .. Crashes))]
      BY <1>3, <2>1 DEF SInv, Types
    <2> QED
      BY <1>3, <1>4, <2>2 DEF SInv, Types
  <1>6. /\ phase'[r] = to /\ step'[r] = st /\ link'[r] = link[r] \cup {<<t, d, a>>}
        /\ \A q \in Ranks : q # r => phase'[q] = phase[q] /\ step'[q] = step[q] /\ link'[q] = link[q]
    BY <1>3 DEF SInv, Types
  <1>7. \A q \in Ranks : \A p, c, x : Knows(q, p, c, x)' <=> Knows(q, p, c, x)
    <2> SUFFICES ASSUME NEW q \in Ranks PROVE \A p, c, x : Knows(q, p, c, x)' <=> Knows(q, p, c, x)
      OBVIOUS
    <2>1. CASE q = r
      <3> SUFFICES ASSUME NEW p, NEW c, NEW x PROVE Knows(r, p, c, x)' <=> Knows(r, p, c, x)
        BY <2>1
      <3>1. Replied(r, p, c, x) <=> <<p, c, x>> = <<t, d, a>>
        BY <1>1, <1>2, <1>3 DEF Replied
      <3>2. ~Replied(r, p, c, x)'
        BY <1>4, <1>6 DEF Replied
      <3> QED
        BY <1>6, <3>1, <3>2 DEF Knows
    <2>2. CASE q # r
      BY <1>3, <1>6, <2>2, KnowsSame
    <2> QED
      BY <2>1, <2>2
  <1>8. ASSUME NEW q \in Ranks PROVE LinksOK(q)'
    <2>1. CASE q # r
      BY <1>3, <1>6, <2>1 DEF SInv, LinksOK
    <2>2. CASE q = r
      <3>1. a <= life[t] /\ manifest[t] = manifest[r]
        BY <1>1, <1>2, <1>3 DEF SInv, ReplyOK
      <3>2. t # r
        BY <1>1 DEF Ranks
      <3>3. ASSUME NEW l \in link'[r] PROVE l[1] # r /\ l[3] <= life[l[1]] /\ manifest[l[1]] = manifest[r]
        <4>1. CASE l \in link[r]
          BY <4>1 DEF SInv, LinksOK
        <4>2. CASE l = <<t, d, a>>
          BY <3>1, <3>2, <4>2
        <4> QED
          BY <1>6, <4>1, <4>2
      <3>4. ASSUME NEW k \in link'[r], NEW l \in link'[r], k[1] = l[1], k[2] = l[2] PROVE k = l
        <4>1. link[r] \subseteq Ranks \X Channels \X (0 .. Crashes)
          BY DEF SInv, Types
        <4>2. \A m \in link[r] : m = <<m[1], m[2], m[3]>>
          BY <4>1
        <4>3. \A m \in link[r] : ~(m[1] = t /\ m[2] = d)
          BY <1>1, <4>2
        <4>4. \A m, n \in link[r] : (m[1] = n[1] /\ m[2] = n[2]) => m = n
          BY DEF SInv, LinksOK
        <4> QED
          BY <1>6, <3>4, <4>3, <4>4
      <3> QED
        BY <1>3, <2>2, <3>3, <3>4 DEF LinksOK
    <2> QED
      BY <2>1, <2>2
  <1>9. ASSUME NEW q \in Ranks PROVE ProgressOK(q)'
    <2>1. CASE q # r
      BY <1>6, <2>1, ProgressSame DEF SInv
    <2>2. CASE q = r
      <3>1. \A p, c : Linked(r, p, c)' <=> (Linked(r, p, c) \/ (p = t /\ c = d))
        BY <1>6 DEF Linked
      <3>2. /\ Below(r, step[r]) /\ \A c \in Channels : Accepted(r, c) = {}
        BY <1>3 DEF SInv, ProgressOK
      <3>3. ASSUME NEW p \in Ranks, NEW c \in Channels, p < r
            PROVE  Linked(r, p, c)' <=> 2 * p + c < step[r] + 1
        <4>1. Linked(r, p, c) <=> 2 * p + c < step[r]
          BY <3>2, <3>3 DEF Below
        <4>2. 2 * p + c = 2 * t + d <=> (p = t /\ c = d)
          BY DEF Ranks, Channels
        <4> QED
          BY <1>1, <1>4, <3>1, <4>1, <4>2 DEF Ranks, Channels
      <3>4. \A c \in Channels : Accepted(r, c)' = {}
        <4>1. \A p, c : Linked(r, p, c)' /\ p # t => Linked(r, p, c)
          BY <3>1
        <4>2. ~(t > r)
          BY <1>1 DEF Ranks
        <4> QED
          BY <3>2, <4>1, <4>2 DEF Accepted
      <3>5. CASE step[r] + 1 < 2 * r
        <4>1. phase'[r] = "connect" /\ step'[r] = step[r] + 1
          BY <1>4, <1>6, <3>5
        <4>2. Below(r, step[r])'
          BY <3>3, <4>1 DEF Below
        <4> QED
          BY <1>4, <2>2, <3>4, <3>5, <4>1, <4>2 DEF ProgressOK
      <3>6. CASE step[r] + 1 = 2 * r
        <4>1. Below(r, 2 * r)'
          BY <3>3, <3>6 DEF Below
        <4>2. CASE r = N - 1
          <5>1. phase'[r] = "greet" /\ step'[r] = 0
            BY <1>4, <1>6, <3>6, <4>2
          <5>2. ASSUME NEW p \in Peers(r), NEW c \in Channels PROVE Linked(r, p, c)'
            <6>1. p \in Ranks /\ p < r
              BY <4>2 DEF Peers, Ranks
            <6>2. 2 * p + c < step[r] + 1
              BY <1>4, <3>6, <6>1 DEF Ranks, Channels
            <6> QED
              BY <3>3, <6>1, <6>2
          <5>3. Peers(r)' = Peers(r)
            BY DEF Peers
          <5> QED
            BY <1>4, <2>2, <5>1, <5>2, <5>3 DEF ProgressOK
        <4>3. CASE r # N - 1
          <5>1. phase'[r] = "accept" /\ step'[r] = 0
            BY <1>4, <1>6, <3>6, <4>3
          <5>2. Cardinality(Accepted(r, 0))' = 0 /\ Cardinality(Accepted(r, 1))' = 0
            <6>1. Accepted(r, 0)' = {} /\ Accepted(r, 1)' = {}
              BY <3>4 DEF Channels
            <6> QED
              BY <6>1, FS_EmptySet
          <5>3. r < N - 1 /\ 0 < N - 1 - r /\ 0 < 2 * (N - 1 - r)
            BY <1>4, <4>3
          <5> QED
            BY <2>2, <4>1, <5>1, <5>2, <5>3 DEF ProgressOK
        <4> QED
          BY <4>2, <4>3
      <3> QED
        BY <1>4, <3>5, <3>6
    <2> QED
      BY <2>1, <2>2
  <1>10. ASSUME NEW q \in Ranks PROVE BacklogOK(q)'
    <2>1. CASE q = N - 1
      <3>1. ASSUME NEW c \in Channels PROVE backlog'[q][c] = <<>>
        <4>1. PICK b \in Seq(Visitor) : b = backlog[q][c]
          BY DEF SInv, Types
        <4>2. ASSUME b # <<>> PROVE FALSE
          <5>1. 1 \in 1 .. Len(b) /\ b[1] \in Visitor
            BY <4>2
          <5>2. b[1].rank > q /\ b[1].rank \in Ranks
            BY <4>1, <5>1 DEF SInv, BacklogOK, VisitorOK, Visitor
          <5> QED
            BY <2>1, <5>2 DEF Ranks, StartAssumption
        <4> QED
          BY <1>3, <4>1, <4>2
      <3> QED
        BY <3>1, BacklogEmpty
    <2>2. CASE q # N - 1
      <3>1. Listening(q) => Listening(q)'
        BY <1>3, <1>4, <1>6, <2>2 DEF Listening
      <3>2. \A p \in Ranks : answer[p].said = "none" => p # r
        OBVIOUS
      <3> QED
        BY <1>3, <1>6, <3>1, <3>2, BacklogKept DEF SInv
    <2> QED
      BY <2>1, <2>2
  <1>11. ASSUME NEW q \in Ranks PROVE ReplyOK(q)'
    BY <1>3, <1>4, <1>6 DEF SInv, ReplyOK, Target
  <1>12. \A p, q \in Ranks : Alive(p, q)' => (Alive(p, q) \/ p = r)
    BY <1>3, <1>6 DEF Alive
  <1>13. ASSUME NEW q \in Ranks PROVE BeginSent(q)'
    <2>1. 0 \in Ranks /\ r # 0
      BY <1>1 DEF Ranks, StartAssumption
    <2> QED
      BY <1>3, <1>6, <1>12, <2>1, BeginSame DEF SInv
  <1>14. ASSUME NEW q \in Ranks, NEW p \in Ranks, q < p PROVE Paired(q, p)' /\ NotBothOld(q, p)'
    <2>1. \A c, x : <<p, c, x>> \in link'[q] <=> <<p, c, x>> \in link[q]
      <3>1. CASE q # r
        BY <1>6, <3>1
      <3>2. CASE q = r
        <4>1. p # t
          BY <1>1, <1>14, <3>2 DEF Ranks
        <4> QED
          BY <1>6, <3>2, <4>1
      <3> QED
        BY <3>1, <3>2
    <2>2. HasOld(q, p)' => HasOld(q, p)
      BY <1>3, <2>1 DEF HasOld
    <2>3. phase[q] = "failed" => phase'[q] = "failed"
      BY <1>3, <1>6
    <2>4. NotBothOld(q, p)'
      BY <1>3, <1>7, <1>14, <2>2, NotBothOldSame DEF SInv
    <2>5. PICK e : e = life[q]
      OBVIOUS
    <2>6. \A c : Knows(p, q, c, life[q])' <=> Knows(p, q, c, life[q])
      <3>1. \A c : Knows(p, q, c, life[q])' <=> Knows(p, q, c, e)'
        BY <1>3, <2>5 DEF Knows, Replied
      <3> QED
        BY <1>7, <2>5, <3>1
    <2>7. Paired(q, p)
      BY <1>14 DEF SInv
    <2> QED
      BY <1>3, <2>1, <2>3, <2>4, <2>6, <2>7 DEF Paired
  <1>15. ASSUME NEW q \in Ranks, NEW p \in Ranks PROVE FramesOK(p, q)'
    <2>1. phase'[q] = "failed" \/ (phase[q] # "failed" /\ (Heard(q, p)' <=> Heard(q, p)))
      <3>1. CASE q = r
        BY <1>3, <1>4, <1>6, <3>1 DEF Heard
      <3>2. CASE q # r
        BY <1>6, <3>2, HeardSame
      <3> QED
        BY <3>1, <3>2
    <2>2. CASE p # r
      <3>1. phase'[p] = phase[p]
        BY <1>6, <2>2
      <3> QED
        BY <1>3, <1>7, <1>12, <2>1, <2>2, <3>1, FramesSame DEF SInv
    <2>3. CASE p = r
      <3>1. phase[p] \notin {"ready", "loop", "failed"} /\ phase'[p] \notin {"ready", "loop", "failed"}
        BY <1>3, <1>4, <1>6, <2>3
      <3>2. PICK e : e = life[p]
        OBVIOUS
      <3>3. Knows(q, p, 0, life[p])' <=> Knows(q, p, 0, life[p])
        <4>1. Knows(q, p, 0, life[p])' <=> Knows(q, p, 0, e)'
          BY <1>3, <3>2 DEF Knows, Replied
        <4> QED
          BY <1>7, <3>2, <4>1
      <3>4. \A x : Knows(q, p, 0, x)' <=> Knows(q, p, 0, x)
        BY <1>7
      <3>5. FramesOK(p, q)
        BY DEF SInv
      <3>6. phase'[q] = "failed" => ~Heard(q, p)'
        BY DEF Heard
      <3> QED
        BY <1>3, <2>1, <3>1, <3>3, <3>4, <3>5, <3>6 DEF FramesOK
    <2> QED
      BY <2>2, <2>3
  <1> QED
    BY <1>5, <1>8, <1>9, <1>10, <1>11, <1>13, <1>14, <1>15 DEF SInv

\* Closed sockets change an answer only of those that wait for one.
LEMMA GoneAnswers ==
    ASSUME StartAssumption, NEW r, NEW told \in [Ranks -> Reply]
    PROVE  /\ Gone(r, told) \in [Ranks -> Reply]
           /\ \A p \in Ranks :
                IF phase[p] = "hello" /\ Target(p) = r /\ told[p].said = "none"
                THEN Gone(r, told)[p] = Refusal ELSE Gone(r, told)[p] = told[p]
  <1>1. Refusal \in Reply
    BY DEF Refusal, Reply, StartAssumption
  <1> QED
    BY <1>1 DEF Gone

\* A rank gives up, in outgoing, incoming_any or rank_ready; its listeners are or were closed.
LEMMA GivesUpKeeps ==
    ASSUME StartAssumption, SInv, NEW r \in Ranks,
           phase[r] \in {"hello", "accept", "greet", "ready"},
           phase[r] = "hello" => answer[r].said = "no",
           phase' = [phase EXCEPT ![r] = "failed"],
           UNCHANGED <<manifest, life, step, link, wire>>,
           backlog' \in [Ranks -> [Channels -> Seq(Visitor)]],
           \A c \in Channels : backlog'[r][c] = <<>>,
           \A q \in Ranks : q # r => backlog'[q] = backlog[q],
           answer' \in [Ranks -> Reply],
           \A q \in Ranks :
              \/ answer'[q] = answer[q]
              \/ /\ phase[q] = "hello" /\ Target(q) = r /\ answer[q].said = "none"
                 /\ answer'[q] = Refusal
    PROVE  SInv'
  <1>1. Types'
    BY DEF SInv, Types, Phases
  <1>2. /\ phase'[r] = "failed" /\ \A q \in Ranks : q # r => phase'[q] = phase[q]
    BY DEF SInv, Types
  <1>3. \A q \in Ranks : answer'[q] = answer[q] \/ (answer'[q].said # "yes" /\ answer[q].said # "yes")
    BY DEF Refusal
  <1>4. \A q \in Ranks : \A p, c, x : Knows(q, p, c, x)' <=> Knows(q, p, c, x)
    <2> SUFFICES ASSUME NEW q \in Ranks PROVE \A p, c, x : Knows(q, p, c, x)' <=> Knows(q, p, c, x)
      OBVIOUS
    <2>1. CASE q = r
      <3>1. phase[r] # "hello" \/ answer[r].said # "yes"
        OBVIOUS
      <3> QED
        BY <1>2, <2>1, <3>1, KnowsLinks
    <2>2. CASE q # r
      <3>1. phase'[q] = phase[q] /\ link'[q] = link[q] /\ step'[q] = step[q]
        BY <1>2, <2>2
      <3> QED
        BY <1>3, <3>1, KnowsSame
    <2> QED
      BY <2>1, <2>2
  <1>5. ASSUME NEW q \in Ranks PROVE LinksOK(q)' /\ ProgressOK(q)'
    <2>1. LinksOK(q)'
      BY DEF SInv, LinksOK
    <2>2. CASE q # r
      BY <1>2, <2>1, <2>2, ProgressSame DEF SInv
    <2>3. CASE q = r
      <3>1. step[r] \in Nat /\ r \in Nat /\ r < N /\ N \in Nat
        BY DEF SInv, Types, Ranks, StartAssumption
      <3>2. step[r] <= 2 * N
        BY <3>1 DEF SInv, ProgressOK
      <3> QED
        BY <1>2, <2>1, <2>3, <3>2 DEF ProgressOK
    <2> QED
      BY <2>2, <2>3
  <1>6. ASSUME NEW q \in Ranks PROVE BacklogOK(q)'
    <2>1. CASE q = r
      BY <2>1, BacklogEmpty
    <2>2. CASE q # r
      <3>1. Listening(q) => Listening(q)'
        BY <1>2, <2>2 DEF Listening
      <3>2. ASSUME NEW p \in Ranks, phase[p] = "hello", answer[p].said = "none", Target(p) = q
            PROVE  phase'[p] = phase[p] /\ step'[p] = step[p] /\ answer'[p] = answer[p]
        <4>1. p # r
          BY <3>2
        <4> QED
          BY <1>2, <2>2, <3>2, <4>1
      <3>3. backlog'[q] = backlog[q]
        BY <2>2
      <3> QED
        BY <3>1, <3>2, <3>3, BacklogKept DEF SInv
    <2> QED
      BY <2>1, <2>2
  <1>7. ASSUME NEW q \in Ranks PROVE ReplyOK(q)'
    <2>1. CASE q = r
      BY <1>2, <2>1 DEF ReplyOK
    <2>2. CASE q # r
      BY <1>2, <1>3, <2>2 DEF SInv, ReplyOK, Target
    <2> QED
      BY <2>1, <2>2
  <1>8. \A p, q \in Ranks : Alive(p, q)' <=> Alive(p, q)
    BY DEF Alive
  <1>9. ASSUME NEW q \in Ranks PROVE BeginSent(q)'
    <2>1. (step'[0] = N /\ phase'[0] = "loop") => (step[0] = N /\ phase[0] = "loop")
      BY <1>2 DEF Ranks, StartAssumption
    <2>2. 0 \in Ranks
      BY DEF Ranks, StartAssumption
    <2> QED
      BY <1>8, <2>1, <2>2, BeginSame DEF SInv
  <1>10. ASSUME NEW q \in Ranks, NEW p \in Ranks, q < p PROVE Paired(q, p)' /\ NotBothOld(q, p)'
    <2>1. HasOld(q, p)' => HasOld(q, p)
      <3>1. backlog'[q] = backlog[q] \/ \A c \in Channels : backlog'[q][c] = <<>>
        OBVIOUS
      <3> QED
        BY <3>1, HasOldSame
    <2>2. phase[q] = "failed" => phase'[q] = "failed"
      BY <1>2
    <2> QED
      BY <1>4, <1>10, <2>1, <2>2, PairedSame, NotBothOldSame DEF SInv
  <1>11. ASSUME NEW q \in Ranks, NEW p \in Ranks PROVE FramesOK(p, q)'
    <2>1. phase'[q] = "failed" \/ (phase[q] # "failed" /\ (Heard(q, p)' <=> Heard(q, p)))
      <3>1. CASE q # r
        BY <1>2, <3>1, HeardSame
      <3> QED
        BY <1>2, <3>1
    <2>2. /\ phase'[p] \in {"ready", "loop"} => phase[p] \in {"ready", "loop"}
          /\ phase[p] \in {"ready", "loop", "failed"} => phase'[p] \in {"ready", "loop", "failed"}
      BY <1>2
    <2> QED
      BY <1>4, <1>8, <2>1, <2>2, FramesSame DEF SInv
  <1> QED
    BY <1>1, <1>5, <1>6, <1>7, <1>9, <1>10, <1>11 DEF SInv

\* A rank closes its sockets and gives up while it opens its links.
LEMMA ClosesKeeps ==
    ASSUME StartAssumption, SInv, NEW r \in Ranks,
           phase[r] \in {"hello", "accept"}, phase[r] = "hello" => answer[r].said = "no",
           phase' = [phase EXCEPT ![r] = "failed"],
           backlog' = [backlog EXCEPT ![r] = NoVisitors],
           answer' = Gone(r, answer),
           UNCHANGED <<manifest, life, step, link, wire>>
    PROVE  SInv'
  <1>1. answer \in [Ranks -> Reply]
    BY DEF SInv, Types
  <1>2. NoVisitors \in [Channels -> Seq(Visitor)] /\ \A c \in Channels : NoVisitors[c] = <<>>
    BY DEF NoVisitors
  <1>3. /\ backlog' \in [Ranks -> [Channels -> Seq(Visitor)]]
        /\ \A c \in Channels : backlog'[r][c] = <<>>
        /\ \A q \in Ranks : q # r => backlog'[q] = backlog[q]
    BY <1>2 DEF SInv, Types
  <1>4. /\ answer' \in [Ranks -> Reply]
        /\ \A q \in Ranks :
             \/ answer'[q] = answer[q]
             \/ /\ phase[q] = "hello" /\ Target(q) = r /\ answer[q].said = "none"
                /\ answer'[q] = Refusal
    BY <1>1, GoneAnswers
  <1> QED
    BY <1>3, <1>4, GivesUpKeeps

\* outgoing reading any answer keeps the invariant.
LEMMA AnsweredKeeps ==
    ASSUME StartAssumption, SInv, NEW r \in Ranks, Answered(r)
    PROVE  SInv'
  <1>1. CASE answer[r].said = "yes"
    BY <1>1, AnsweredYesKeeps
  <1>2. CASE answer[r].said # "yes"
    <2>1. /\ phase[r] = "hello" /\ answer[r].said = "no"
          /\ phase' = [phase EXCEPT ![r] = "failed"]
          /\ backlog' = [backlog EXCEPT ![r] = NoVisitors]
          /\ answer' = Gone(r, answer)
          /\ UNCHANGED <<manifest, life, step, link, wire>>
      BY <1>2 DEF Answered
    <2> QED
      BY <2>1, ClosesKeeps
  <1> QED
    BY <1>1, <1>2

\* incoming_any meeting a broken connection keeps the invariant.
LEMMA AcceptFailsKeeps ==
    ASSUME StartAssumption, SInv, NEW r \in Ranks, AcceptFails(r)
    PROVE  SInv'
  <1>1. /\ phase[r] = "accept"
        /\ phase' = [phase EXCEPT ![r] = "failed"]
        /\ backlog' = [backlog EXCEPT ![r] = NoVisitors]
        /\ answer' = Gone(r, answer)
        /\ UNCHANGED <<manifest, life, step, link, wire>>
    BY DEF AcceptFails
  <1> QED
    BY <1>1, ClosesKeeps

\* The same where the listeners were closed long ago.
LEMMA FailsKeeps ==
    ASSUME StartAssumption, SInv, NEW r \in Ranks, phase[r] \in {"greet", "ready"},
           phase' = [phase EXCEPT ![r] = "failed"],
           UNCHANGED <<manifest, life, step, backlog, answer, link, wire>>
    PROVE  SInv'
  <1>1. \A c \in Channels : backlog[r][c] = <<>>
    BY DEF SInv, BacklogOK, Listening
  <1> QED
    BY <1>1, GivesUpKeeps DEF SInv, Types

\* A peer that p can send to knows p, unless it gave up.
LEMMA PeerKnows ==
    ASSUME StartAssumption, SInv, NEW p \in Ranks, NEW r \in Ranks, p # r,
           Alive(p, r), phase[r] # "failed" \/ p < r
    PROVE  Knows(r, p, 0, life[p])
  <1>1. <<r, 0, life[r]>> \in link[p]
    <2>1. PICK l \in link[p] : l[1] = r /\ l[2] = 0 /\ l[3] = life[r]
      BY DEF Alive
    <2>2. link[p] \subseteq Ranks \X Channels \X (0 .. Crashes)
      BY DEF SInv, Types
    <2>3. l = <<l[1], l[2], l[3]>>
      BY <2>1, <2>2
    <2> QED
      BY <2>1, <2>3
  <1>2. 0 \in Channels /\ p \in Nat /\ r \in Nat
    BY DEF Channels, Ranks
  <1>3. CASE p < r
    BY <1>1, <1>2, <1>3 DEF SInv, Paired
  <1>4. CASE r < p
    <2>1. Knows(p, r, 0, life[r])
      BY <1>1 DEF Knows
    <2>2. <<p, 0, life[p]>> \in link[r]
      BY <1>2, <1>3, <1>4, <2>1 DEF SInv, Paired
    <2> QED
      BY <2>2 DEF Knows
  <1> QED
    BY <1>2, <1>3, <1>4

\* What is appended is read after what was there.
LEMMA AppendFrame ==
    ASSUME NEW w \in Seq({"READY", "BEGIN"}), NEW f \in {"READY", "BEGIN"}
    PROVE  /\ Append(w, f) \in Seq({"READY", "BEGIN"}) /\ Append(w, f) # <<>>
           /\ Len(w) \in Nat /\ Len(Append(w, f)) = Len(w) + 1
           /\ Append(w, f)[Len(w) + 1] = f
           /\ \A i \in 1 .. Len(w) : Append(w, f)[i] = w[i]
  OBVIOUS

\* rank_ready sending READY to every peer keeps the invariant.
LEMMA GreetKeeps ==
    ASSUME StartAssumption, SInv, NEW r \in Ranks, Greet(r)
    PROVE  SInv'
  <1> DEFINE Sends(p) == p # r /\ Alive(r, p) /\ phase[p] # "failed"
             row == [p \in Ranks |-> IF Sends(p) THEN Append(wire[r][p], "READY") ELSE wire[r][p]]
  <1>1. CASE /\ phase[r] = "greet" /\ phase' = [phase EXCEPT ![r] = "failed"]
             /\ UNCHANGED <<manifest, life, step, backlog, answer, link, wire>>
    BY <1>1, FailsKeeps
  <1>2. CASE /\ phase[r] = "greet" /\ phase' = [phase EXCEPT ![r] = "ready"]
             /\ wire' = [wire EXCEPT ![r] = row]
             /\ UNCHANGED <<manifest, life, step, backlog, answer, link>>
    <2>1. row \in [Ranks -> Seq({"READY", "BEGIN"})]
      BY DEF SInv, Types
    <2>2. \A p \in Ranks : row[p] = IF Sends(p) THEN Append(wire[r][p], "READY") ELSE wire[r][p]
      OBVIOUS
    <2> HIDE DEF row
    <2>3. Types'
      BY <1>2, <2>1 DEF SInv, Types, Phases
    <2>4. /\ phase'[r] = "ready" /\ step[r] = 0
          /\ \A q \in Ranks : q # r => phase'[q] = phase[q]
          /\ \A p, q \in Ranks : p # r => wire'[p][q] = wire[p][q]
          /\ \A q \in Ranks : wire'[r][q] = row[q]
      BY <1>2 DEF SInv, Types, ProgressOK
    <2>5. \A q \in Ranks : \A p, c, x : Knows(q, p, c, x)' <=> Knows(q, p, c, x)
      <3> SUFFICES ASSUME NEW q \in Ranks PROVE \A p, c, x : Knows(q, p, c, x)' <=> Knows(q, p, c, x)
        OBVIOUS
      <3>1. CASE q = r
        BY <1>2, <2>4, <3>1, KnowsLinks
      <3>2. CASE q # r
        BY <1>2, <2>4, <3>2, KnowsSame
      <3> QED
        BY <3>1, <3>2
    <2>6. ASSUME NEW q \in Ranks PROVE LinksOK(q)' /\ ProgressOK(q)'
      <3>1. LinksOK(q)'
        BY <1>2 DEF SInv, LinksOK
      <3>2. CASE q # r
        BY <1>2, <2>4, <3>1, <3>2, ProgressSame DEF SInv
      <3>3. CASE q = r
        <4>1. \A p, c : Linked(r, p, c)' <=> Linked(r, p, c)
          BY <1>2, LinkedSame
        <4>2. N - 1 > 0
          BY DEF StartAssumption
        <4>3. Peers(r)' = Peers(r)
          BY DEF Peers
        <4> QED
          BY <1>2, <2>4, <3>1, <3>3, <4>1, <4>2, <4>3 DEF SInv, ProgressOK
      <3> QED
        BY <3>2, <3>3
    <2>7. ASSUME NEW q \in Ranks PROVE BacklogOK(q)'
      <3>1. Listening(q) => Listening(q)'
        BY <1>2, <2>4 DEF Listening
      <3>2. \A p \in Ranks : phase[p] = "hello" => p # r
        BY <1>2
      <3> QED
        BY <1>2, <2>4, <3>1, <3>2, BacklogKept DEF SInv
    <2>8. ASSUME NEW q \in Ranks PROVE ReplyOK(q)'
      BY <1>2, <2>4 DEF SInv, ReplyOK, Target
    <2>9. \A p, q \in Ranks : Alive(p, q)' <=> Alive(p, q)
      BY <1>2 DEF Alive
    <2>10. ASSUME NEW q \in Ranks PROVE BeginSent(q)'
      <3>1. 0 \in Ranks
        BY DEF Ranks, StartAssumption
      <3>2. CASE r = 0
        <4>1. ~(phase'[0] = "loop")
          BY <2>4, <3>2
        <4> QED
          BY <4>1 DEF BeginSent
      <3>3. CASE r # 0
        BY <1>2, <2>4, <2>9, <3>1, <3>3, BeginSame DEF SInv
      <3> QED
        BY <3>2, <3>3
    <2>11. ASSUME NEW q \in Ranks, NEW p \in Ranks, q < p PROVE Paired(q, p)' /\ NotBothOld(q, p)'
      <3>1. HasOld(q, p)' => HasOld(q, p)
        BY <1>2, HasOldSame
      <3>2. phase[q] = "failed" => phase'[q] = "failed"
        BY <1>2, <2>4
      <3> QED
        BY <1>2, <2>5, <2>11, <3>1, <3>2, PairedSame, NotBothOldSame DEF SInv
    <2>12. \A q, p \in Ranks : q # p => (Heard(q, p)' <=> Heard(q, p))
      <3> SUFFICES ASSUME NEW q \in Ranks, NEW p \in Ranks, q # p PROVE Heard(q, p)' <=> Heard(q, p)
        OBVIOUS
      <3>1. CASE q = r
        <4>1. Place(r, p) >= 0 /\ Place(r, p)' = Place(r, p)
          BY <3>1 DEF Place, Ranks
        <4>2. Place(r, p) \in Int
          BY DEF Place, Ranks
        <4> QED
          BY <1>2, <2>4, <3>1, <4>1, <4>2 DEF Heard
      <3>2. CASE q # r
        BY <1>2, <2>4, <3>2, HeardSame
      <3> QED
        BY <3>1, <3>2
    <2>13. ASSUME NEW q \in Ranks, NEW p \in Ranks PROVE FramesOK(p, q)'
      <3>0. FramesOK(p, q) /\ wire[p][q] \in Seq({"READY", "BEGIN"})
        BY DEF SInv, Types
      <3>1. CASE p # r /\ p # q
        <4>1. /\ phase'[p] = phase[p] /\ wire'[p][q] = wire[p][q] /\ life'[p] = life[p]
              /\ (Alive(p, q)' => Alive(p, q)) /\ (Heard(q, p)' <=> Heard(q, p))
          BY <1>2, <2>4, <2>9, <2>12, <3>1
        <4>2. phase'[q] = "failed" \/ phase[q] # "failed"
          BY <1>2, <2>4
        <4> QED
          BY <2>5, <3>0, <4>1, <4>2, FramesSame
      <3>2. CASE p = q
        <4>1. wire'[p][q] = <<>>
          <5>1. wire[p][q] = <<>>
            BY <3>0, <3>2 DEF FramesOK
          <5> QED
            BY <2>2, <2>4, <3>2, <5>1
        <4> QED
          BY <3>2, <4>1 DEF FramesOK
      <3>3. CASE p = r /\ p # q
        <4>1. phase'[p] = "ready"
          BY <2>4, <3>3
        <4>2. CASE Sends(q)
          <5>1. Knows(q, r, 0, life[r])
            BY <3>3, <4>2, PeerKnows
          <5>2. wire[r][q] = <<>> /\ ~Heard(q, r)
            BY <1>2, <3>0, <3>3, <5>1 DEF FramesOK
          <5>3. wire'[r][q] = Append(wire[r][q], "READY")
            BY <2>2, <2>4, <4>2
          <5>4. /\ wire'[r][q] # <<>> /\ Len(wire'[r][q]) = 1 /\ wire'[r][q][1] = "READY"
            BY <5>2, <5>3
          <5>5. ~Heard(q, r)'
            BY <2>12, <3>3, <5>2
          <5>6. \E x \in 0 .. Crashes : Knows(q, r, 0, x)'
            <6>1. PICK x \in 0 .. Crashes : x = life[r]
              BY DEF SInv, Types
            <6>2. Knows(q, r, 0, x)'
              BY <2>5, <5>1, <6>1
            <6> QED
              BY <6>2
          <5> QED
            BY <3>3, <4>1, <5>4, <5>5, <5>6 DEF FramesOK
        <4>3. CASE ~Sends(q)
          <5>1. wire'[r][q] = wire[r][q]
            BY <2>2, <2>4, <4>3
          <5>2. ~(Alive(r, q)' /\ phase'[q] # "failed")
            BY <2>4, <2>9, <3>3, <4>3
          <5>3. \A x : Knows(q, r, 0, x)' <=> Knows(q, r, 0, x)
            BY <2>5
          <5>4. Heard(q, r)' <=> Heard(q, r)
            BY <2>12, <3>3
          <5>5. phase'[q] = phase[q]
            BY <2>4, <3>3
          <5> QED
            BY <3>0, <3>3, <4>1, <5>1, <5>2, <5>3, <5>4, <5>5 DEF FramesOK
        <4> QED
          BY <4>2, <4>3
      <3> QED
        BY <3>1, <3>2, <3>3
    <2> QED
      BY <2>3, <2>6, <2>7, <2>8, <2>10, <2>11, <2>13 DEF SInv
  <1> QED
    <2>1. /\ phase[r] = "greet"
          /\ \/ wire' = [wire EXCEPT ![r] = row] /\ phase' = [phase EXCEPT ![r] = "ready"]
             \/ phase' = [phase EXCEPT ![r] = "failed"] /\ wire' = wire
          /\ UNCHANGED <<manifest, life, step, backlog, answer, link>>
      BY DEF Greet, SInv, Types
    <2> HIDE DEF row
    <2> QED
      BY <1>1, <1>2, <2>1

\* The peer whose READY is awaited, and what reading it changes.
LEMMA AwaitedPeer ==
    ASSUME StartAssumption, SInv, NEW r \in Ranks, phase[r] = "ready", NEW p \in Awaited(r)
    PROVE  /\ p \in Ranks /\ p # r /\ ~Heard(r, p)
           /\ \A q \in Ranks : q # r => (Place(r, q) < step[r] + 1 <=> (Place(r, q) < step[r] \/ q = p))
           /\ \A q \in Ranks : q # r => Place(r, q) < N - 1
           /\ step[r] \in Nat /\ step[r] < N - 1
  <1>1. step[r] \in Nat /\ step[r] < N - 1 /\ r \in Nat /\ r < N /\ N \in Nat
    BY DEF SInv, Types, ProgressOK, Ranks, StartAssumption
  <1>2. p = IF step[r] < r THEN step[r] ELSE step[r] + 1
    BY DEF Awaited
  <1>3. p \in Ranks /\ p # r /\ Place(r, p) = step[r]
    BY <1>1, <1>2 DEF Ranks, Place
  <1>4. \A q \in Ranks : q # r =>
          (Place(r, q) < step[r] + 1 <=> (Place(r, q) < step[r] \/ q = p)) /\ Place(r, q) < N - 1
    BY <1>1, <1>2 DEF Ranks, Place
  <1> QED
    BY <1>1, <1>3, <1>4 DEF Heard

\* rank_ready reading a frame keeps the invariant.
LEMMA HearKeeps ==
    ASSUME StartAssumption, SInv, NEW r \in Ranks, Hear(r)
    PROVE  SInv'
  <1>1. PICK p \in Awaited(r) :
          \/ /\ wire[p][r] # <<>>
             /\ wire' = [wire EXCEPT ![p][r] = Tail(@)]
             /\ IF Head(wire[p][r]) # "READY"
                THEN phase' = [phase EXCEPT ![r] = "failed"] /\ UNCHANGED step
                ELSE /\ step' = [step EXCEPT ![r] = @ + 1]
                     /\ phase' = [phase EXCEPT ![r] = IF HeardAll(step[r] + 1) THEN "loop" ELSE @]
          \/ /\ wire[p][r] = <<>>
             /\ ~Alive(r, p) \/ phase[p] = "failed"
             /\ phase' = [phase EXCEPT ![r] = "failed"]
             /\ UNCHANGED <<step, wire>>
    BY DEF Hear
  <1>2. phase[r] = "ready" /\ UNCHANGED <<manifest, life, backlog, answer, link>>
    BY DEF Hear
  <1>3. /\ p \in Ranks /\ p # r /\ ~Heard(r, p)
        /\ \A q \in Ranks : q # r => (Place(r, q) < step[r] + 1 <=> (Place(r, q) < step[r] \/ q = p))
        /\ \A q \in Ranks : q # r => Place(r, q) < N - 1
        /\ step[r] \in Nat /\ step[r] < N - 1
    BY <1>1, <1>2, AwaitedPeer
  <1>4. CASE wire[p][r] = <<>>
    BY <1>1, <1>2, <1>4, FailsKeeps
  <1>5. CASE wire[p][r] # <<>>
    <2>1. PICK w \in Seq({"READY", "BEGIN"}) : w = wire[p][r]
      BY <1>3 DEF SInv, Types
    <2>2. /\ Len(w) \in Nat \ {0} /\ Head(w) = w[1] /\ Tail(w) \in Seq({"READY", "BEGIN"})
          /\ Len(Tail(w)) = Len(w) - 1 /\ \A i \in 1 .. Len(Tail(w)) : Tail(w)[i] = w[i + 1]
      BY <1>5, <2>1, HeadTailProperties, EmptySeq
    <2>3. w[1] = "READY"
      BY <1>2, <1>3, <2>1, <2>2 DEF SInv, FramesOK
    <2> DEFINE to == IF HeardAll(step[r] + 1) THEN "loop" ELSE "ready"
    <2>4. /\ wire' = [wire EXCEPT ![p][r] = Tail(w)]
          /\ step' = [step EXCEPT ![r] = step[r] + 1]
          /\ phase' = [phase EXCEPT ![r] = to]
      BY <1>1, <1>2, <1>5, <2>1, <2>2, <2>3 DEF SInv, Types
    <2>5. /\ to \in {"loop", "ready"} /\ to \in Phases
          /\ to = "loop" <=> step[r] + 1 = N - 1
      BY DEF HeardAll, Phases
    <2> HIDE DEF to
    <2>6. Types'
      BY <1>2, <1>3, <2>2, <2>4, <2>5 DEF SInv, Types
    <2>7. /\ phase'[r] = to /\ step'[r] = step[r] + 1 /\ wire'[p][r] = Tail(w)
          /\ \A q \in Ranks : q # r => phase'[q] = phase[q] /\ step'[q] = step[q]
          /\ \A a, b \in Ranks : ~(a = p /\ b = r) => wire'[a][b] = wire[a][b]
      BY <1>3, <2>4 DEF SInv, Types
    <2>8. \A q \in Ranks : \A a, c, x : Knows(q, a, c, x)' <=> Knows(q, a, c, x)
      <3> SUFFICES ASSUME NEW q \in Ranks PROVE \A a, c, x : Knows(q, a, c, x)' <=> Knows(q, a, c, x)
        OBVIOUS
      <3>1. CASE q = r
        BY <1>2, <2>5, <2>7, <3>1, KnowsLinks
      <3>2. CASE q # r
        BY <1>2, <2>7, <3>2, KnowsSame
      <3> QED
        BY <3>1, <3>2
    <2>9. ASSUME NEW q \in Ranks PROVE LinksOK(q)' /\ ProgressOK(q)'
      <3>1. LinksOK(q)'
        BY <1>2 DEF SInv, LinksOK
      <3>2. CASE q # r
        BY <1>2, <2>7, <3>1, <3>2, ProgressSame DEF SInv
      <3>3. CASE q = r
        <4>1. \A a, c : Linked(r, a, c)' <=> Linked(r, a, c)
          BY <1>2, LinkedSame
        <4>2. Peers(r)' = Peers(r) /\ N \in Nat
          BY DEF Peers, StartAssumption
        <4>3. \A a \in Peers(r), c \in Channels : Linked(r, a, c)
          BY <1>2 DEF SInv, ProgressOK
        <4> QED
          BY <1>2, <1>3, <2>5, <2>7, <3>1, <3>3, <4>1, <4>2, <4>3 DEF ProgressOK
      <3> QED
        BY <3>2, <3>3
    <2>10. ASSUME NEW q \in Ranks PROVE BacklogOK(q)'
      <3>1. Listening(q) => Listening(q)'
        BY <1>2, <2>7 DEF Listening
      <3>2. \A a \in Ranks : phase[a] = "hello" => a # r
        BY <1>2
      <3> QED
        BY <1>2, <2>7, <3>1, <3>2, BacklogKept DEF SInv
    <2>11. ASSUME NEW q \in Ranks PROVE ReplyOK(q)'
      BY <1>2, <2>5, <2>7 DEF SInv, ReplyOK, Target
    <2>12. \A a, q \in Ranks : Alive(a, q)' <=> Alive(a, q)
      BY <1>2 DEF Alive
    <2>13. ASSUME NEW q \in Ranks PROVE BeginSent(q)'
      <3>1. 0 \in Ranks /\ N \in Nat
        BY DEF Ranks, StartAssumption
      <3>2. (step'[0] = N /\ phase'[0] = "loop") => (step[0] = N /\ phase[0] = "loop")
        BY <1>3, <2>7, <3>1
      <3>3. CASE ~(p = 0 /\ q = r)
        <4>1. wire'[0][q] = wire[0][q]
          BY <2>7, <3>1, <3>3
        <4> QED
          BY <2>12, <3>1, <3>2, <4>1, BeginSame DEF SInv
      <3>4. CASE p = 0 /\ q = r
        <4> SUFFICES ASSUME r # 0, step'[0] = N, phase'[0] = "loop", Alive(0, r)'
                     PROVE  \E i \in 1 .. Len(wire'[0][r]) : wire'[0][r][i] = "BEGIN"
          BY <3>4 DEF BeginSent
        <4>1. \E i \in 1 .. Len(w) : w[i] = "BEGIN"
          BY <2>1, <2>12, <3>1, <3>2, <3>4 DEF SInv, BeginSent
        <4>2. PICK i \in 1 .. Len(w) : w[i] = "BEGIN"
          BY <4>1
        <4>3. i # 1
          BY <2>3, <4>2
        <4>4. i - 1 \in 1 .. Len(Tail(w)) /\ (i - 1) + 1 = i
          BY <2>2, <4>2, <4>3
        <4>5. Tail(w)[i - 1] = "BEGIN"
          BY <2>2, <4>2, <4>4
        <4> QED
          BY <2>7, <3>4, <4>4, <4>5
      <3> QED
        BY <3>3, <3>4
    <2>14. ASSUME NEW q \in Ranks, NEW a \in Ranks, q < a PROVE Paired(q, a)' /\ NotBothOld(q, a)'
      <3>1. HasOld(q, a)' => HasOld(q, a)
        BY <1>2, HasOldSame
      <3>2. phase[q] = "failed" => phase'[q] = "failed"
        BY <1>2, <2>7
      <3> QED
        BY <1>2, <2>8, <2>14, <3>1, <3>2, PairedSame, NotBothOldSame DEF SInv
    <2>15. \A q, a \in Ranks : q # a => (Heard(q, a)' <=> (Heard(q, a) \/ (q = r /\ a = p)))
      <3> SUFFICES ASSUME NEW q \in Ranks, NEW a \in Ranks, q # a
                   PROVE  Heard(q, a)' <=> (Heard(q, a) \/ (q = r /\ a = p))
        OBVIOUS
      <3>1. CASE q = r
        <4>1. Place(r, a)' = Place(r, a)
          BY DEF Place
        <4>2. Heard(r, a) <=> Place(r, a) < step[r]
          BY <1>2 DEF Heard
        <4>3. Heard(r, a)' <=> (to = "loop" \/ Place(r, a) < step[r] + 1)
          BY <2>5, <2>7, <4>1 DEF Heard
        <4>4. to = "loop" => Place(r, a) < step[r] + 1
          BY <1>3, <2>5, <3>1
        <4> QED
          BY <1>3, <3>1, <4>2, <4>3, <4>4
      <3>2. CASE q # r
        BY <2>7, <3>2, HeardSame
      <3> QED
        BY <3>1, <3>2
    <2>16. ASSUME NEW q \in Ranks, NEW a \in Ranks PROVE FramesOK(a, q)'
      <3>0. FramesOK(a, q)
        BY DEF SInv
      <3>1. /\ phase'[a] \in {"ready", "loop"} <=> phase[a] \in {"ready", "loop"}
            /\ phase'[a] \in {"ready", "loop", "failed"} <=> phase[a] \in {"ready", "loop", "failed"}
            /\ phase'[q] = "failed" <=> phase[q] = "failed"
        BY <1>2, <2>5, <2>7
      <3>2. CASE a = q
        <4>1. wire'[a][q] = <<>>
          <5>1. wire[a][q] = <<>>
            BY <3>0, <3>2 DEF FramesOK
          <5> QED
            BY <1>3, <2>7, <3>2, <5>1
        <4> QED
          BY <3>2, <4>1 DEF FramesOK
      <3>3. CASE a # q /\ ~(a = p /\ q = r)
        <4>1. /\ wire'[a][q] = wire[a][q] /\ life'[a] = life[a]
              /\ (Alive(a, q)' => Alive(a, q)) /\ (Heard(q, a)' <=> Heard(q, a))
          BY <1>2, <2>7, <2>12, <2>15, <3>3
        <4> QED
          BY <2>8, <3>0, <3>1, <4>1, FramesSame
      <3>4. CASE a = p /\ q = r
        <4>1. Heard(r, p)'
          BY <1>3, <2>15
        <4>2. \A x : Knows(r, p, 0, x)' <=> Knows(r, p, 0, x)
          BY <2>8
        <4>3. PICK e : e = life[p]
          OBVIOUS
        <4>4. Knows(r, p, 0, life[p])' <=> Knows(r, p, 0, life[p])
          <5>1. Knows(r, p, 0, life[p])' <=> Knows(r, p, 0, e)'
            BY <1>2, <4>3 DEF Knows, Replied
          <5> QED
            BY <4>2, <4>3, <5>1
        <4>5. ASSUME NEW i \in 1 .. Len(Tail(w)) PROVE Tail(w)[i] # "READY"
          <5>1. i + 1 \in 1 .. Len(w) /\ i + 1 # 1
            BY <2>2
          <5>2. w[i + 1] # "READY"
            BY <1>2, <2>1, <3>0, <3>4, <5>1 DEF FramesOK
          <5> QED
            BY <2>2, <5>2
        <4>6. (\E x \in 0 .. Crashes : Knows(r, p, 0, x)) /\ r # p
          BY <1>5, <3>0, <3>4 DEF FramesOK
        <4>7. \E x \in 0 .. Crashes : Knows(r, p, 0, x)'
          BY <4>2, <4>6
        <4>8. Knows(r, p, 0, life[p])' => phase'[p] \in {"ready", "loop", "failed"}
          BY <1>5, <3>0, <3>1, <3>4, <4>4 DEF FramesOK
        <4>9. \A i \in 1 .. Len(wire'[p][r]) : wire'[p][r][i] # "READY"
          BY <2>7, <4>5
        <4> QED
          BY <3>4, <4>1, <4>6, <4>7, <4>8, <4>9 DEF FramesOK
      <3> QED
        BY <3>2, <3>3, <3>4
    <2> QED
      BY <2>6, <2>9, <2>10, <2>11, <2>13, <2>14, <2>16 DEF SInv
  <1> QED
    BY <1>4, <1>5

\* The first SESSION_BEGIN of rank 0 keeps the invariant.
LEMMA BeginKeeps ==
    ASSUME StartAssumption, SInv, BeginSession
    PROVE  SInv'
  <1> DEFINE Sends(p) == p # 0 /\ Alive(0, p)
             row == [p \in Ranks |-> IF Sends(p) THEN Append(wire[0][p], "BEGIN") ELSE wire[0][p]]
  <1>0. 0 \in Ranks /\ N \in Nat
    BY DEF Ranks, StartAssumption
  <1>1. /\ phase[0] = "loop" /\ step[0] = N - 1 /\ step' = [step EXCEPT ![0] = N]
        /\ wire' = [wire EXCEPT ![0] = row]
        /\ UNCHANGED <<manifest, life, phase, backlog, answer, link>>
    BY <1>0 DEF BeginSession, SInv, Types
  <1>2. row \in [Ranks -> Seq({"READY", "BEGIN"})]
    BY <1>0 DEF SInv, Types
  <1>3. \A p \in Ranks : row[p] = IF Sends(p) THEN Append(wire[0][p], "BEGIN") ELSE wire[0][p]
    OBVIOUS
  <1> HIDE DEF row
  <1>4. Types'
    BY <1>0, <1>1, <1>2 DEF SInv, Types
  <1>5. /\ step'[0] = N
        /\ \A q \in Ranks : q # 0 => step'[q] = step[q]
        /\ \A p, q \in Ranks : p # 0 => wire'[p][q] = wire[p][q]
        /\ \A q \in Ranks : wire'[0][q] = row[q]
    BY <1>0, <1>1 DEF SInv, Types
  <1>6. \A q \in Ranks : \A p, c, x : Knows(q, p, c, x)' <=> Knows(q, p, c, x)
    <2> SUFFICES ASSUME NEW q \in Ranks PROVE \A p, c, x : Knows(q, p, c, x)' <=> Knows(q, p, c, x)
      OBVIOUS
    <2>1. CASE q = 0
      BY <1>1, <2>1, KnowsLinks
    <2>2. CASE q # 0
      BY <1>1, <1>5, <2>2, KnowsSame
    <2> QED
      BY <2>1, <2>2
  <1>7. ASSUME NEW q \in Ranks PROVE LinksOK(q)' /\ ProgressOK(q)'
    <2>1. LinksOK(q)'
      BY <1>1 DEF SInv, LinksOK
    <2>2. CASE q # 0
      BY <1>1, <1>5, <2>1, <2>2, ProgressSame DEF SInv
    <2>3. CASE q = 0
      <3>1. \A p, c : Linked(0, p, c)' <=> Linked(0, p, c)
        BY <1>1, LinkedSame
      <3>2. Peers(0)' = Peers(0)
        BY DEF Peers
      <3>3. \A a \in Peers(0), c \in Channels : Linked(0, a, c)
        BY <1>0, <1>1 DEF SInv, ProgressOK
      <3> QED
        BY <1>1, <1>5, <2>1, <2>3, <3>1, <3>2, <3>3 DEF ProgressOK
    <2> QED
      BY <2>2, <2>3
  <1>8. ASSUME NEW q \in Ranks PROVE BacklogOK(q)'
    <2>1. Listening(q) => Listening(q)'
      BY <1>1 DEF Listening
    <2>2. \A p \in Ranks : phase[p] = "hello" => p # 0
      BY <1>1
    <2> QED
      BY <1>1, <1>5, <2>1, <2>2, BacklogKept DEF SInv
  <1>9. ASSUME NEW q \in Ranks PROVE ReplyOK(q)'
    BY <1>1, <1>5 DEF SInv, ReplyOK, Target
  <1>10. \A p, q \in Ranks : Alive(p, q)' <=> Alive(p, q)
    BY <1>1 DEF Alive
  <1>11. ASSUME NEW q \in Ranks PROVE BeginSent(q)'
    <2> SUFFICES ASSUME q # 0, Alive(0, q)'
                 PROVE  \E i \in 1 .. Len(wire'[0][q]) : wire'[0][q][i] = "BEGIN"
      BY DEF BeginSent
    <2>1. wire'[0][q] = Append(wire[0][q], "BEGIN")
      BY <1>0, <1>3, <1>5, <1>10
    <2>2. PICK w \in Seq({"READY", "BEGIN"}) : w = wire[0][q]
      BY <1>0 DEF SInv, Types
    <2>3. Len(w) + 1 \in 1 .. Len(Append(w, "BEGIN")) /\ Append(w, "BEGIN")[Len(w) + 1] = "BEGIN"
      BY AppendFrame
    <2> QED
      BY <2>1, <2>2, <2>3
  <1>12. ASSUME NEW q \in Ranks, NEW p \in Ranks, q < p PROVE Paired(q, p)' /\ NotBothOld(q, p)'
    <2>1. HasOld(q, p)' => HasOld(q, p)
      BY <1>1, HasOldSame
    <2> QED
      BY <1>1, <1>6, <1>12, <2>1, PairedSame, NotBothOldSame DEF SInv
  <1>13. \A q, p \in Ranks : Heard(q, p)' <=> Heard(q, p)
    <2> SUFFICES ASSUME NEW q \in Ranks, NEW p \in Ranks PROVE Heard(q, p)' <=> Heard(q, p)
      OBVIOUS
    <2>1. CASE q = 0
      BY <1>1, <2>1 DEF Heard
    <2>2. CASE q # 0
      BY <1>1, <1>5, <2>2, HeardSame
    <2> QED
      BY <2>1, <2>2
  <1>14. ASSUME NEW q \in Ranks, NEW p \in Ranks PROVE FramesOK(p, q)'
    <2>0. FramesOK(p, q)
      BY DEF SInv
    <2>1. /\ phase'[p] = phase[p] /\ life'[p] = life[p]
          /\ phase'[q] = "failed" \/ (phase[q] # "failed" /\ (Heard(q, p)' <=> Heard(q, p)))
          /\ Alive(p, q)' => Alive(p, q)
      BY <1>1, <1>10, <1>13
    <2>2. CASE ~(p = 0 /\ Sends(q))
      <3>1. wire'[p][q] = wire[p][q]
        BY <1>3, <1>5, <2>2
      <3> QED
        BY <1>6, <2>0, <2>1, <3>1, FramesSame
    <2>3. CASE p = 0 /\ Sends(q)
      <3>1. PICK w \in Seq({"READY", "BEGIN"}) : w = wire[0][q]
        BY <1>0 DEF SInv, Types
      <3>2. wire'[0][q] = Append(w, "BEGIN")
        BY <1>3, <1>5, <2>3, <3>1
      <3>3. PICK e \in Seq({"READY", "BEGIN"}) : e = Append(w, "BEGIN")
        BY AppendFrame
      <3>4. /\ e # <<>> /\ Len(w) \in Nat /\ Len(e) = Len(w) + 1 /\ e[Len(w) + 1] = "BEGIN"
            /\ \A i \in 1 .. Len(w) : e[i] = w[i]
        BY <3>3, AppendFrame
      <3>5. Knows(q, 0, 0, life[0])
        <4>1. 0 < q
          BY <2>3 DEF Ranks
        <4> QED
          BY <1>0, <2>3, <4>1, PeerKnows
      <3>6. \E x \in 0 .. Crashes : Knows(q, 0, 0, x)'
        <4>1. PICK x \in 0 .. Crashes : x = life[0]
          BY <1>0 DEF SInv, Types
        <4>2. Knows(q, 0, 0, x)'
          BY <1>6, <3>5, <4>1
        <4> QED
          BY <4>2
      <3>7. phase'[0] = "loop"
        BY <1>1
      <3>8. ASSUME phase'[q] # "failed", NEW i \in 1 .. Len(e)
            PROVE  e[i] = "READY" <=> (i = 1 /\ ~Heard(q, 0)')
        <4>1. CASE i = Len(w) + 1
          <5>1. ~(i = 1 /\ ~Heard(q, 0))
            <6> SUFFICES ASSUME ~Heard(q, 0) PROVE Len(w) # 0
              BY <3>4, <4>1
            <6>1. wire[0][q] # <<>>
              BY <1>1, <2>0, <2>3, <3>8 DEF FramesOK
            <6> QED
              BY <3>1, <6>1, EmptySeq
          <5> QED
            BY <1>0, <1>13, <3>4, <4>1, <5>1
        <4>2. CASE i # Len(w) + 1
          <5>1. i \in 1 .. Len(w)
            BY <3>4, <4>2
          <5>2. w[i] = "READY" <=> (i = 1 /\ ~Heard(q, 0))
            BY <1>1, <2>0, <2>3, <3>1, <3>8, <5>1 DEF FramesOK
          <5> QED
            BY <1>0, <1>13, <3>4, <5>1, <5>2
        <4> QED
          BY <4>1, <4>2
      <3>9. e = wire'[0][q] /\ q # 0
        BY <2>3, <3>2, <3>3
      <3> QED
        BY <2>3, <3>4, <3>6, <3>7, <3>8, <3>9 DEF FramesOK
    <2> QED
      BY <2>2, <2>3
  <1> QED
    BY <1>4, <1>7, <1>8, <1>9, <1>11, <1>12, <1>14 DEF SInv

\* A worker that dies and starts again keeps the invariant, whichever frames it wrote are lost.
LEMMA CrashKeeps ==
    ASSUME StartAssumption, SInv, NEW r \in Ranks, Crash(r)
    PROVE  SInv'
  <1>1. PICK lost \in SUBSET Ranks :
          wire' = [p \in Ranks |-> [q \in Ranks |->
                     IF q = r \/ (p = r /\ q \in lost) THEN <<>> ELSE wire[p][q]]]
    BY DEF Crash
  <1>2. /\ r # 0 /\ phase[r] \notin {"down", "loop"} /\ life[r] < Crashes
        /\ life' = [life EXCEPT ![r] = life[r] + 1]
        /\ phase' = [phase EXCEPT ![r] = "down"] /\ step' = [step EXCEPT ![r] = 0]
        /\ link' = [link EXCEPT ![r] = {}] /\ backlog' = [backlog EXCEPT ![r] = NoVisitors]
        /\ answer' = [Gone(r, answer) EXCEPT ![r] = Silence] /\ manifest' = manifest
    BY DEF Crash, SInv, Types
  <1>3. /\ Gone(r, answer) \in [Ranks -> Reply]
        /\ \A p \in Ranks :
             IF phase[p] = "hello" /\ Target(p) = r /\ answer[p].said = "none"
             THEN Gone(r, answer)[p] = Refusal ELSE Gone(r, answer)[p] = answer[p]
    BY GoneAnswers DEF SInv, Types
  <1>4. NoVisitors \in [Channels -> Seq(Visitor)] /\ \A c \in Channels : NoVisitors[c] = <<>>
    BY DEF NoVisitors
  <1>5. /\ life[r] \in Nat /\ life'[r] = life[r] + 1 /\ life'[r] \in 0 .. Crashes
        /\ phase'[r] = "down" /\ step'[r] = 0 /\ link'[r] = {}
        /\ \A c \in Channels : backlog'[r][c] = <<>>
        /\ answer'[r].said = "none"
    BY <1>2, <1>3, <1>4 DEF SInv, Types, Silence, StartAssumption
  <1>6. \A q \in Ranks : q # r =>
          /\ life'[q] = life[q] /\ phase'[q] = phase[q] /\ step'[q] = step[q] /\ link'[q] = link[q]
          /\ backlog'[q] = backlog[q]
          /\ answer'[q] = answer[q] \/ (answer'[q].said # "yes" /\ answer[q].said # "yes")
          /\ Target(q) # r => answer'[q] = answer[q]
    <2>1. \A q \in Ranks : q # r => answer'[q] = Gone(r, answer)[q]
      BY <1>2, <1>3
    <2> QED
      BY <1>2, <1>3, <2>1 DEF SInv, Types, Refusal
  <1>7. /\ \A p, q \in Ranks : wire'[p][q] = <<>> \/ wire'[p][q] = wire[p][q]
        /\ \A p \in Ranks : wire'[p][r] = <<>>
        /\ \A p, q \in Ranks : (p # r /\ q # r) => wire'[p][q] = wire[p][q]
    BY <1>1
  <1>8. Types'
    <2>1. wire' \in [Ranks -> [Ranks -> Seq({"READY", "BEGIN"})]]
      BY <1>1 DEF SInv, Types
    <2>2. Silence \in Reply
      BY DEF Silence, Reply, StartAssumption
    <2> QED
      BY <1>2, <1>3, <1>4, <1>5, <2>1, <2>2 DEF SInv, Types, Phases
  <1>9. \A q \in Ranks : q # r => \A p, c, x : Knows(q, p, c, x)' <=> Knows(q, p, c, x)
    BY <1>6, KnowsSame
  <1>10. \A p, c, x : ~Knows(r, p, c, x)'
    BY <1>5 DEF Knows, Replied
  <1>11. \A x : \A q \in Ranks, c \in Channels : Knows(q, r, c, x) => x <= life[r]
    <2> SUFFICES ASSUME NEW q \in Ranks, NEW c \in Channels, NEW x, Knows(q, r, c, x) PROVE x <= life[r]
      OBVIOUS
    <2>1. CASE <<r, c, x>> \in link[q]
      BY <2>1 DEF SInv, LinksOK
    <2>2. CASE Replied(q, r, c, x)
      BY <2>2 DEF SInv, ReplyOK, Replied
    <2> QED
      BY <2>1, <2>2 DEF Knows
  <1>12. \A x : \A q \in Ranks, c \in Channels : <<r, c, x>> \in link[q] => x <= life[r]
    BY <1>11 DEF Knows
  <1>13. ~(life[r] + 1 <= life[r])
    BY <1>5
  <1>14. ASSUME NEW q \in Ranks PROVE LinksOK(q)' /\ ProgressOK(q)'
    <2>1. CASE q = r
      <3>1. LinksOK(q)'
        BY <1>5, <2>1 DEF LinksOK
      <3> QED
        BY <1>5, <2>1, <3>1 DEF ProgressOK
    <2>2. CASE q # r
      <3>1. ProgressOK(q)'
        BY <1>6, <2>2, ProgressSame DEF SInv
      <3>2. LinksOK(q)
        BY DEF SInv
      <3>3. ASSUME NEW l \in link[q] PROVE l[3] <= life'[l[1]]
        <4>1. l[3] <= life[l[1]] /\ l[1] \in Ranks /\ l[3] \in 0 .. Crashes
          BY <3>2 DEF LinksOK, SInv, Types
        <4>2. CASE l[1] = r
          <5>1. l[3] \in Nat
            BY <4>1 DEF StartAssumption
          <5> QED
            BY <1>5, <4>1, <4>2, <5>1
        <4>3. CASE l[1] # r
          BY <1>6, <4>1, <4>3
        <4> QED
          BY <4>2, <4>3
      <3> QED
        BY <1>2, <1>6, <2>2, <3>1, <3>2, <3>3 DEF LinksOK
    <2> QED
      BY <2>1, <2>2
  <1>15. ASSUME NEW q \in Ranks PROVE BacklogOK(q)'
    <2>1. CASE q = r
      BY <1>5, <2>1, BacklogEmpty
    <2>2. CASE q # r
      <3>1. backlog'[q] = backlog[q] /\ phase'[q] = phase[q] /\ BacklogOK(q)
        BY <1>6, <2>2 DEF SInv
      <3>2. ASSUME NEW c \in Channels, NEW i \in 1 .. Len(backlog[q][c])
            PROVE  /\ VisitorOK(q, c, backlog[q][c][i])'
                   /\ backlog[q][c][i].life = life'[backlog[q][c][i].rank] =>
                        backlog[q][c][i].life = life[backlog[q][c][i].rank]
        <4>1. PICK v \in Visitor : v = backlog[q][c][i]
          BY DEF SInv, Types
        <4>2. VisitorOK(q, c, v) /\ v.rank \in Ranks /\ v.life \in 0 .. Crashes
          BY <3>1, <4>1 DEF BacklogOK, Visitor
        <4>3. VisitorOK(q, c, v)' /\ (v.life = life'[v.rank] => v.life = life[v.rank])
          <5>1. CASE v.rank = r
            <6>1. v.life \in Nat /\ v.life <= life[r]
              BY <4>2, <5>1 DEF StartAssumption, VisitorOK
            <6>2. v.life <= life'[r] /\ v.life # life'[r]
              BY <1>5, <6>1
            <6> QED
              BY <1>2, <4>2, <5>1, <6>2 DEF VisitorOK
          <5>2. CASE v.rank # r
            <6>1. v.life = life[v.rank] => Target(v.rank) = q /\ phase[v.rank] = "hello"
              BY <4>2 DEF VisitorOK
            <6>2. /\ life'[v.rank] = life[v.rank] /\ phase'[v.rank] = phase[v.rank]
                  /\ step'[v.rank] = step[v.rank]
                  /\ v.life = life[v.rank] => answer'[v.rank] = answer[v.rank]
              BY <1>6, <2>2, <4>2, <5>2, <6>1
            <6> QED
              BY <1>2, <4>2, <6>2 DEF VisitorOK, Target, TargetChannel
          <5> QED
            BY <5>1, <5>2
        <4>4. backlog'[q][c][i] = v
          BY <3>1, <4>1
        <4>5. VisitorOK(q, c, backlog[q][c][i])'
          BY <4>3, <4>4 DEF VisitorOK, Target, TargetChannel
        <4> QED
          BY <4>1, <4>3, <4>5
      <3>3. Listening(q)' <=> Listening(q)
        BY <3>1 DEF Listening
      <3> QED
        BY <3>1, <3>2, <3>3 DEF BacklogOK
    <2> QED
      BY <2>1, <2>2
  <1>16. ASSUME NEW q \in Ranks PROVE ReplyOK(q)'
    <2>1. CASE q = r
      BY <1>5, <2>1 DEF ReplyOK
    <2>2. CASE q # r
      <3> SUFFICES ASSUME phase'[q] = "hello", answer'[q].said = "yes"
                   PROVE  answer'[q].life <= life'[Target(q)'] /\ manifest'[Target(q)'] = manifest'[q]
        BY DEF ReplyOK
      <3>1. phase[q] = "hello" /\ answer'[q] = answer[q] /\ Target(q)' = Target(q)
        BY <1>6, <2>2 DEF Target
      <3>2. answer[q].life <= life[Target(q)] /\ manifest[Target(q)] = manifest[q]
        BY <3>1 DEF SInv, ReplyOK
      <3>3. Target(q) \in Ranks /\ answer[q].life \in Nat
        <4>1. Target(q) \in Ranks
          BY <3>1, TargetLower
        <4>2. answer[q] \in Reply
          BY DEF SInv, Types
        <4> QED
          BY <4>1, <4>2 DEF Reply, StartAssumption
      <3>4. CASE Target(q) = r
        BY <1>2, <1>5, <3>1, <3>2, <3>3, <3>4
      <3>5. CASE Target(q) # r
        BY <1>2, <1>6, <3>1, <3>2, <3>3, <3>5
      <3> QED
        BY <3>4, <3>5
    <2> QED
      BY <2>1, <2>2
  <1>17. \A p, q \in Ranks : Alive(p, q)' => Alive(p, q) /\ p # r /\ q # r
    <2> SUFFICES ASSUME NEW p \in Ranks, NEW q \in Ranks, Alive(p, q)'
                 PROVE  Alive(p, q) /\ p # r /\ q # r
      OBVIOUS
    <2>1. PICK l \in link'[p] : l[1] = q /\ l[2] = 0 /\ l[3] = life'[q]
      BY DEF Alive
    <2>2. p # r /\ link'[p] = link[p]
      BY <1>5, <1>6, <2>1
    <2>3. l \in link[p] /\ l[3] <= life[l[1]]
      BY <2>1, <2>2 DEF SInv, LinksOK
    <2>4. q # r
      BY <1>5, <1>13, <2>1, <2>3
    <2> QED
      BY <1>6, <2>1, <2>2, <2>3, <2>4 DEF Alive
  <1>18. ASSUME NEW q \in Ranks PROVE BeginSent(q)'
    <2>1. 0 \in Ranks
      BY DEF Ranks, StartAssumption
    <2>2. CASE q = r
      BY <1>17, <2>1, <2>2 DEF BeginSent
    <2>3. CASE q # r
      BY <1>2, <1>6, <1>7, <1>17, <2>1, <2>3, BeginSame DEF SInv
    <2> QED
      BY <2>2, <2>3
  <1>19. ASSUME NEW q \in Ranks, NEW p \in Ranks, q < p PROVE Paired(q, p)' /\ NotBothOld(q, p)'
    <2>1. CASE p = r
      <3>1. q # r
        BY <1>19, <2>1 DEF Ranks
      <3>2. NotBothOld(q, p)'
        BY <1>10, <2>1 DEF NotBothOld
      <3>3. \A c \in Channels : <<p, c, life'[p]>> \notin link'[q]
        BY <1>5, <1>6, <1>12, <1>13, <2>1, <3>1
      <3>4. \A c : ~Knows(p, q, c, life[q])'
        BY <1>5, <2>1 DEF Knows, Replied
      <3> QED
        BY <3>2, <3>3, <3>4 DEF Paired
    <2>2. CASE q = r
      <3>1. p # r
        BY <1>19, <2>2 DEF Ranks
      <3>2. ~HasOld(q, p)'
        <4>1. \A c, x : <<p, c, x>> \notin link'[q]
          BY <1>5, <2>2
        <4>2. \A c \in Channels : 1 .. Len(backlog'[q][c]) = {}
          BY <1>5, <2>2
        <4> QED
          BY <4>1, <4>2, Zenon DEF HasOld
      <3>3. PICK e : e = life'[r]
        OBVIOUS
      <3>4. \A c \in Channels : ~Knows(p, r, c, life[r])'
        <4>1. \A c : Knows(p, r, c, life[r])' <=> Knows(p, r, c, e)'
          BY <3>3 DEF Knows, Replied
        <4>2. \A c \in Channels : ~Knows(p, r, c, e)
          BY <1>5, <1>11, <1>13, <3>3
        <4> QED
          BY <1>9, <3>1, <4>1, <4>2
      <3>5. NotBothOld(q, p)'
        BY <3>2 DEF NotBothOld
      <3> QED
        BY <1>5, <2>2, <3>4, <3>5 DEF Paired
    <2>3. CASE p # r /\ q # r
      <3>1. /\ link'[q] = link[q] /\ life'[q] = life[q] /\ life'[p] = life[p]
            /\ backlog'[q] = backlog[q] /\ phase'[q] = phase[q]
        BY <1>6, <2>3
      <3>2. HasOld(q, p)' => HasOld(q, p)
        BY <3>1, HasOldSame
      <3> QED
        BY <1>9, <1>19, <2>3, <3>1, <3>2, PairedSame, NotBothOldSame DEF SInv
    <2> QED
      BY <2>1, <2>2, <2>3
  <1>20. ASSUME NEW q \in Ranks, NEW p \in Ranks PROVE FramesOK(p, q)'
    <2>0. FramesOK(p, q)
      BY DEF SInv
    <2>1. CASE q = r
      <3>1. ~Heard(r, p)' /\ wire'[p][r] = <<>> /\ ~Alive(p, r)'
        BY <1>5, <1>7, <1>17 DEF Heard
      <3> QED
        BY <2>1, <3>1 DEF FramesOK
    <2>2. CASE q # r /\ p # r
      <3>1. /\ wire'[p][q] = wire[p][q] /\ life'[p] = life[p] /\ phase'[p] = phase[p]
            /\ phase'[q] = phase[q] /\ step'[q] = step[q] /\ (Alive(p, q)' => Alive(p, q))
        BY <1>6, <1>7, <1>17, <2>2
      <3>2. Heard(q, p)' <=> Heard(q, p)
        BY <3>1, HeardSame
      <3>3. phase'[q] = "failed" \/ (phase[q] # "failed" /\ (Heard(q, p)' <=> Heard(q, p)))
        BY <3>1, <3>2
      <3>4. \A a, c, x : Knows(q, a, c, x)' <=> Knows(q, a, c, x)
        BY <1>9, <2>2
      <3> QED
        BY <2>0, <3>1, <3>3, <3>4, FramesSame
    <2>3. CASE q # r /\ p = r
      <3>1. wire'[r][q] = <<>> \/ wire'[r][q] = wire[r][q]
        BY <1>7
      <3>2. Heard(q, r)' <=> Heard(q, r)
        BY <1>6, <2>3, HeardSame
      <3>3. PICK e : e = life'[r]
        OBVIOUS
      <3>4. ~Knows(q, r, 0, life[r])'
        <4>1. Knows(q, r, 0, life[r])' <=> Knows(q, r, 0, e)'
          BY <3>3 DEF Knows, Replied
        <4>2. ~Knows(q, r, 0, e)
          BY <1>5, <1>11, <1>13, <3>3 DEF Channels
        <4> QED
          BY <1>9, <2>3, <4>1, <4>2
      <3>5. \A x : Knows(q, r, 0, x)' <=> Knows(q, r, 0, x)
        BY <1>9, <2>3
      <3>6. phase'[q] = phase[q]
        BY <1>6, <2>3
      <3>7. wire'[r][q] # <<>> => r # q /\ \E x \in 0 .. Crashes : Knows(q, r, 0, x)'
        BY <2>0, <2>3, <3>1, <3>5 DEF FramesOK
      <3>8. phase'[q] # "failed" => \A i \in 1 .. Len(wire'[r][q]) :
              wire'[r][q][i] = "READY" <=> (i = 1 /\ ~Heard(q, r)')
        <4>1. CASE wire'[r][q] = <<>>
          BY <4>1
        <4>2. CASE wire'[r][q] = wire[r][q]
          BY <2>0, <2>3, <3>2, <3>6, <4>2 DEF FramesOK
        <4> QED
          BY <3>1, <4>1, <4>2
      <3> QED
        BY <1>5, <2>3, <3>4, <3>7, <3>8 DEF FramesOK
    <2> QED
      BY <2>1, <2>2, <2>3
  <1> QED
    BY <1>8, <1>14, <1>15, <1>16, <1>18, <1>19, <1>20 DEF SInv

\* A set of ranks above r is finite, and with N - 1 - r members it has them all.
LEMMA RanksAbove ==
    ASSUME StartAssumption, NEW r \in Ranks, NEW A, \A p \in A : p \in Ranks /\ p > r
    PROVE  /\ IsFiniteSet(A) /\ Cardinality(A) \in Nat
           /\ Cardinality(A) = N - 1 - r => \A p \in Ranks : p > r => p \in A
  <1> DEFINE U == (r + 1) .. (N - 1)
  <1>1. r \in Nat /\ r <= N - 1 /\ N \in Nat
    BY DEF Ranks, StartAssumption
  <1>2. r + 1 \in Int /\ N - 1 \in Int
    BY <1>1
  <1>3. IsFiniteSet(U) /\ Cardinality(U) = N - 1 - r
    <2>1. IsFiniteSet(U) /\ Cardinality(U) = IF r + 1 > N - 1 THEN 0 ELSE (N - 1) - (r + 1) + 1
      BY <1>2, FS_Interval
    <2> QED
      BY <1>1, <2>1
  <1>4. A \in SUBSET U
    BY <1>1 DEF Ranks
  <1>5. \A p \in Ranks : p > r => p \in U
    BY <1>1 DEF Ranks
  <1> HIDE DEF U
  <1>6. IsFiniteSet(A) /\ Cardinality(A) \in Nat /\ (Cardinality(A) = Cardinality(U) => A = U)
    BY <1>3, <1>4, FS_Subset, FS_CardinalityType
  <1> QED
    BY <1>3, <1>5, <1>6

\* What a step of the accept loop does with visitor v, the first of b, on channel c.
AcceptsAs(r, c, v, b, to, st) ==
    LET ok   == Welcome(r, c, v)
        told == HelloValid(r, v) /\ v.life = life[v.rank]
        shut == ~ok \/ to # "accept"
    IN  /\ c = AcceptChannel(r) /\ b = backlog[r][c] /\ b # <<>> /\ v = b[1]
        /\ phase[r] = "accept" /\ phase' = [phase EXCEPT ![r] = to]
        /\ to = IF ~ok THEN "failed"
                ELSE IF step[r] + 1 = 2 * (N - 1 - r) THEN "greet" ELSE "accept"
        /\ st = IF ~ok THEN step[r] ELSE IF to = "greet" THEN 0 ELSE step[r] + 1
        /\ step' = [step EXCEPT ![r] = st]
        /\ link' = IF ok THEN [link EXCEPT ![r] = link[r] \cup {<<v.rank, c, v.life>>}] ELSE link
        /\ UNCHANGED <<manifest, life, wire>>
        /\ VisitorOK(r, c, v) /\ v.rank \in Ranks /\ v.rank # r /\ v.life \in 0 .. Crashes
        /\ backlog' = [backlog EXCEPT ![r] = IF shut THEN NoVisitors
                                             ELSE [backlog[r] EXCEPT ![c] = Tail(b)]]
        /\ answer' \in [Ranks -> Reply]
        /\ told => answer'[v.rank] = [said |-> "yes", life |-> life[r]]
        /\ \A q \in Ranks : ~(told /\ q = v.rank) =>
              \/ answer'[q] = answer[q]
              \/ /\ shut /\ phase[q] = "hello" /\ Target(q) = r /\ answer[q].said = "none"
                 /\ answer'[q] = Refusal

\* What incoming_any changes: one visitor leaves the backlog and one link is added, or the acceptor gives up.
LEMMA AcceptEffect ==
    ASSUME StartAssumption, SInv, NEW r \in Ranks, Accept(r)
    PROVE  \E c \in Channels, v \in Visitor, b \in Seq(Visitor), to \in Phases, st \in Nat :
              AcceptsAs(r, c, v, b, to, st)
  <1>1. PICK c \in Channels : c = AcceptChannel(r)
    BY DEF AcceptChannel, Channels
  <1>2. PICK b \in Seq(Visitor) : b = backlog[r][c]
    BY DEF SInv, Types
  <1>3. b # <<>> /\ phase[r] = "accept"
    BY <1>1, <1>2 DEF Accept
  <1>4. PICK v \in Visitor : v = b[1] /\ v = Head(b)
    <2>1. Len(b) \in Nat \ {0} /\ Head(b) = b[1] /\ b[1] \in Visitor
      BY <1>3, EmptySeq
    <2> QED
      BY <2>1
  <1>5. VisitorOK(r, c, v) /\ v.rank \in Ranks /\ v.rank # r /\ v.life \in 0 .. Crashes
    <2>1. 1 \in 1 .. Len(b)
      BY <1>3, EmptySeq
    <2>2. VisitorOK(r, c, v)
      BY <1>2, <1>4, <2>1 DEF SInv, BacklogOK
    <2> QED
      BY <2>2 DEF VisitorOK, Visitor, Ranks
  <1>6. IsCurrent(v) <=> v.life = life[v.rank]
    BY <1>5 DEF IsCurrent, VisitorOK
  <1> DEFINE ok == Welcome(r, c, v)
             told == HelloValid(r, v) /\ v.life = life[v.rank]
             last == step[r] + 1 = 2 * (N - 1 - r)
             to == IF ~ok THEN "failed" ELSE IF last THEN "greet" ELSE "accept"
             st == IF ~ok THEN step[r] ELSE IF to = "greet" THEN 0 ELSE step[r] + 1
             shut == ~ok \/ to # "accept"
             yes == [said |-> "yes", life |-> life[r]]
             reply == IF told THEN [answer EXCEPT ![v.rank] = yes] ELSE answer
  <1>7. Told(r, v) = reply
    BY <1>6 DEF Told
  <1>8. yes \in Reply /\ answer \in [Ranks -> Reply] /\ step[r] \in Nat
    BY DEF Reply, SInv, Types
  <1>9. /\ reply \in [Ranks -> Reply]
        /\ told => reply[v.rank] = yes
        /\ \A q \in Ranks : ~(told /\ q = v.rank) => reply[q] = answer[q]
    <2> HIDE DEF yes
    <2> QED
      BY <1>5, <1>8
  <1>10. to \in Phases /\ st \in Nat /\ (shut <=> ~(ok /\ ~last))
    BY <1>8 DEF Phases
  <1>11. /\ phase' = [phase EXCEPT ![r] = to] /\ step' = [step EXCEPT ![r] = st]
         /\ link' = IF ok THEN [link EXCEPT ![r] = link[r] \cup {<<v.rank, c, v.life>>}] ELSE link
         /\ UNCHANGED <<manifest, life, wire>>
         /\ backlog' = [backlog EXCEPT ![r] = IF shut THEN NoVisitors
                                              ELSE [backlog[r] EXCEPT ![c] = Tail(b)]]
         /\ answer' = IF shut THEN Gone(r, reply) ELSE reply
    <2> HIDE DEF reply
    <2>1. /\ IF ok
             THEN /\ link' = [link EXCEPT ![r] = @ \cup {<<v.rank, c, v.life>>}]
                  /\ step' = [step EXCEPT ![r] = IF last THEN 0 ELSE @ + 1]
                  /\ phase' = [phase EXCEPT ![r] = IF last THEN "greet" ELSE "accept"]
             ELSE /\ phase' = [phase EXCEPT ![r] = "failed"]
                  /\ UNCHANGED <<link, step>>
          /\ IF ok /\ ~last
             THEN /\ backlog' = [backlog EXCEPT ![r][c] = Tail(@)]
                  /\ answer' = reply
             ELSE /\ backlog' = [backlog EXCEPT ![r] = NoVisitors]
                  /\ answer' = Gone(r, reply)
          /\ UNCHANGED <<manifest, life, wire>>
      BY <1>1, <1>2, <1>4, <1>7 DEF Accept
    <2> HIDE DEF ok, last
    <2>2. CASE ok /\ ~last
      BY <1>2, <2>1, <2>2 DEF SInv, Types
    <2>3. CASE ok /\ last
      BY <2>1, <2>3 DEF SInv, Types
    <2>4. CASE ~ok
      BY <2>1, <2>4 DEF SInv, Types
    <2> QED
      BY <2>2, <2>3, <2>4
  <1>12. /\ answer' \in [Ranks -> Reply]
         /\ told => answer'[v.rank] = yes
         /\ \A q \in Ranks : ~(told /\ q = v.rank) =>
               \/ answer'[q] = answer[q]
               \/ /\ shut /\ phase[q] = "hello" /\ Target(q) = r /\ answer[q].said = "none"
                  /\ answer'[q] = Refusal
    <2>1. yes.said = "yes"
      OBVIOUS
    <2> HIDE DEF yes, reply, told, shut
    <2>2. CASE shut
      BY <1>5, <1>9, <1>11, <2>1, <2>2, GoneAnswers
    <2>3. CASE ~shut
      BY <1>9, <1>11, <2>3
    <2> QED
      BY <2>2, <2>3
  <1>13. AcceptsAs(r, c, v, b, to, st)
    BY <1>1, <1>2, <1>3, <1>4, <1>5, <1>10, <1>11, <1>12, Zenon DEF AcceptsAs
  <1> HIDE DEF to, st
  <1> QED
    BY <1>10, <1>13

\* incoming_any taking a visitor keeps the invariant.
LEMMA AcceptKeeps ==
    ASSUME StartAssumption, SInv, NEW r \in Ranks, Accept(r)
    PROVE  SInv'
  <1>0. PICK c \in Channels, v \in Visitor, b \in Seq(Visitor), to \in Phases, st \in Nat :
           AcceptsAs(r, c, v, b, to, st)
    BY AcceptEffect
  <1>1. PICK u \in Ranks, y \in 0 .. Crashes : u = v.rank /\ y = v.life
    BY <1>0 DEF AcceptsAs
  <1> DEFINE ok == Welcome(r, c, v)
             told == HelloValid(r, v) /\ y = life[u]
             shut == ~ok \/ to # "accept"
  <1>2. /\ c = AcceptChannel(r) /\ b = backlog[r][c] /\ b # <<>> /\ v = b[1]
        /\ phase[r] = "accept" /\ phase' = [phase EXCEPT ![r] = to]
        /\ step' = [step EXCEPT ![r] = st]
        /\ link' = IF ok THEN [link EXCEPT ![r] = link[r] \cup {<<u, c, y>>}] ELSE link
        /\ UNCHANGED <<manifest, life, wire>>
        /\ VisitorOK(r, c, v) /\ u # r
        /\ backlog' = [backlog EXCEPT ![r] = IF shut THEN NoVisitors
                                             ELSE [backlog[r] EXCEPT ![c] = Tail(b)]]
        /\ answer' \in [Ranks -> Reply]
    BY <1>0, <1>1 DEF AcceptsAs
  <1>3. /\ to = IF ~ok THEN "failed"
                ELSE IF step[r] + 1 = 2 * (N - 1 - r) THEN "greet" ELSE "accept"
        /\ st = IF ~ok THEN step[r] ELSE IF to = "greet" THEN 0 ELSE step[r] + 1
    BY <1>0, <1>1 DEF AcceptsAs
  <1>4. /\ told => answer'[u] = [said |-> "yes", life |-> life[r]]
        /\ \A q \in Ranks : ~(told /\ q = u) =>
              \/ answer'[q] = answer[q]
              \/ /\ shut /\ phase[q] = "hello" /\ Target(q) = r /\ answer[q].said = "none"
                 /\ answer'[q] = Refusal
    BY <1>0, <1>1 DEF AcceptsAs
  <1>5. /\ r < u /\ y <= life[u] /\ v.manifest = manifest[u]
        /\ y = life[u] => phase[u] = "hello" /\ Target(u) = r /\ TargetChannel(u) = c
                            /\ answer[u].said = "none"
    BY <1>1, <1>2 DEF VisitorOK, Ranks
  <1>6. /\ ok => manifest[u] = manifest[r] /\ (\A x : <<u, c, x>> \notin link[r])
                  /\ (\A l \in link[r] : ~(l[1] = u /\ l[2] = c))
        /\ told => manifest[u] = manifest[r]
        /\ (ok /\ y = life[u]) => told
        /\ (told /\ ~ok) => to = "failed"
    <2>1. \A x : <<u, c, x>>[1] = u /\ <<u, c, x>>[2] = c
      OBVIOUS
    <2> QED
      BY <1>1, <1>3, <1>5, <2>1 DEF Welcome, HelloValid
  <1>7. /\ to \in {"failed", "greet", "accept"} /\ (~ok <=> to = "failed")
    BY <1>3
  <1> HIDE DEF ok, told
  <1>8. Types'
    <2>1. <<u, c, y>> \in Ranks \X Channels \X (0 .. Crashes)
      OBVIOUS
    <2>2. link' \in [Ranks -> SUBSET (Ranks \X Channels \X (0 .. Crashes))]
      BY <1>2, <2>1 DEF SInv, Types
    <2>3. NoVisitors \in [Channels -> Seq(Visitor)] /\ Tail(b) \in Seq(Visitor)
      BY <1>2, HeadTailProperties DEF NoVisitors
    <2>4. backlog' \in [Ranks -> [Channels -> Seq(Visitor)]]
      BY <1>2, <2>3 DEF SInv, Types
    <2> QED
      BY <1>2, <2>2, <2>4 DEF SInv, Types
  <1>9. /\ phase'[r] = to /\ step'[r] = st
        /\ link'[r] = IF ok THEN link[r] \cup {<<u, c, y>>} ELSE link[r]
        /\ \A q \in Ranks : q # r => /\ phase'[q] = phase[q] /\ step'[q] = step[q]
                                      /\ link'[q] = link[q] /\ backlog'[q] = backlog[q]
        /\ shut => \A e \in Channels : backlog'[r][e] = <<>>
        /\ ~shut => backlog'[r][c] = Tail(b) /\ \A e \in Channels : e # c => backlog'[r][e] = backlog[r][e]
    BY <1>2 DEF SInv, Types, NoVisitors
  <1> HIDE DEF shut
  <1>10. \A q \in Ranks : (q # u /\ q # r) => \A p, e, x : Knows(q, p, e, x)' <=> Knows(q, p, e, x)
    <2> SUFFICES ASSUME NEW q \in Ranks, q # u, q # r
                 PROVE  \A p, e, x : Knows(q, p, e, x)' <=> Knows(q, p, e, x)
      OBVIOUS
    <2>1. answer'[q] = answer[q] \/ (answer'[q].said # "yes" /\ answer[q].said # "yes")
      BY <1>4 DEF Refusal
    <2> QED
      BY <1>9, <2>1, KnowsSame
  <1>11. \A p, e, x : Knows(r, p, e, x)' <=> (Knows(r, p, e, x) \/ (ok /\ p = u /\ e = c /\ x = y))
    BY <1>2, <1>7, <1>9 DEF Knows, Replied
  <1>12. \A p, e, x : Knows(u, p, e, x)' <=> (Knows(u, p, e, x) \/ (told /\ p = r /\ e = c /\ x = life[r]))
    <2>1. phase'[u] = phase[u] /\ step'[u] = step[u] /\ link'[u] = link[u]
      BY <1>2, <1>9
    <2>2. CASE ~told
      <3>1. answer'[u] = answer[u] \/ (answer'[u].said # "yes" /\ answer[u].said # "yes")
        BY <1>4, <2>2 DEF Refusal
      <3> QED
        BY <2>1, <2>2, <3>1, KnowsSame
    <2>3. CASE told
      <3>1. /\ phase[u] = "hello" /\ Target(u) = r /\ TargetChannel(u) = c /\ answer[u].said = "none"
        BY <1>5, <2>3 DEF told
      <3>2. answer'[u].said = "yes" /\ answer'[u].life = life[r]
        BY <1>4, <2>3
      <3>3. Target(u)' = r /\ TargetChannel(u)' = c
        BY <2>1, <3>1 DEF Target, TargetChannel
      <3> QED
        BY <2>1, <2>3, <3>1, <3>2, <3>3 DEF Knows, Replied
    <2> QED
      BY <2>2, <2>3
  <1>13. \A p, q \in Ranks : (q # r /\ q < p) => \A e, x : Knows(p, q, e, x)' <=> Knows(p, q, e, x)
    <2> SUFFICES ASSUME NEW p \in Ranks, NEW q \in Ranks, q # r, q < p, NEW e, NEW x
                 PROVE  Knows(p, q, e, x)' <=> Knows(p, q, e, x)
      OBVIOUS
    <2>1. CASE p = r
      <3>1. q # u
        BY <1>5, <2>1 DEF Ranks
      <3> QED
        BY <1>11, <2>1, <3>1
    <2>2. CASE p = u
      BY <1>12, <2>2
    <2>3. CASE p # r /\ p # u
      BY <1>10, <2>3
    <2> QED
      BY <2>1, <2>2, <2>3
  <1>14. ASSUME NEW q \in Ranks PROVE LinksOK(q)'
    <2>1. CASE q # r
      BY <1>2, <1>9, <2>1 DEF SInv, LinksOK
    <2>2. CASE q = r
      <3>1. LinksOK(r)
        BY DEF SInv
      <3>2. CASE ~ok
        BY <1>2, <1>9, <2>2, <3>1, <3>2 DEF LinksOK
      <3>3. CASE ok
        <4>1. ASSUME NEW l \in link'[r] PROVE l[1] # r /\ l[3] <= life[l[1]] /\ manifest[l[1]] = manifest[r]
          <5>1. CASE l \in link[r]
            BY <3>1, <5>1 DEF LinksOK
          <5>2. CASE l = <<u, c, y>>
            BY <1>2, <1>5, <1>6, <3>3, <5>2
          <5> QED
            BY <1>9, <3>3, <5>1, <5>2
        <4>2. ASSUME NEW k \in link'[r], NEW l \in link'[r], k[1] = l[1], k[2] = l[2] PROVE k = l
          BY <1>6, <1>9, <3>1, <3>3, <4>2 DEF LinksOK
        <4> QED
          BY <1>2, <2>2, <4>1, <4>2 DEF LinksOK
      <3> QED
        BY <3>2, <3>3
    <2> QED
      BY <2>1, <2>2
  <1>15. ASSUME NEW q \in Ranks PROVE ProgressOK(q)'
    <2>1. CASE q # r
      BY <1>9, <2>1, ProgressSame DEF SInv
    <2>2. CASE q = r
      <3>1. /\ r \in Nat /\ N \in Nat /\ r < N - 1 /\ step[r] \in Nat /\ step[r] < 2 * (N - 1 - r)
            /\ Below(r, 2 * r)
            /\ Cardinality(Accepted(r, 0)) = IF step[r] < N - 1 - r THEN step[r] ELSE N - 1 - r
            /\ Cardinality(Accepted(r, 1)) = IF step[r] < N - 1 - r THEN 0 ELSE step[r] - (N - 1 - r)
            /\ c = IF step[r] < N - 1 - r THEN 0 ELSE 1
        BY <1>2 DEF SInv, Types, ProgressOK, Ranks, StartAssumption, AcceptChannel
      <3>2. CASE ~ok
        <4>1. phase'[r] = "failed" /\ step'[r] = step[r]
          BY <1>3, <1>7, <1>9, <3>2
        <4>2. step[r] <= 2 * N
          BY <3>1
        <4> QED
          BY <2>2, <4>1, <4>2 DEF ProgressOK
      <3>3. CASE ok
        <4>1. \A p, e : Linked(r, p, e)' <=> (Linked(r, p, e) \/ (p = u /\ e = c))
          BY <1>9, <3>3 DEF Linked
        <4>2. ~Linked(r, u, c)
          BY <1>6, <3>3 DEF Linked
        <4>3. Below(r, 2 * r)'
          <5>1. ~(u < r)
            BY <1>5 DEF Ranks
          <5> QED
            BY <3>1, <4>1, <5>1 DEF Below
        <4>4. ASSUME NEW e \in Channels
              PROVE  /\ e = c => Cardinality(Accepted(r, e))' = Cardinality(Accepted(r, e)) + 1
                     /\ e # c => Cardinality(Accepted(r, e))' = Cardinality(Accepted(r, e))
          <5>1. u > r /\ IsFiniteSet(Accepted(r, e))
            BY <1>5, RanksAbove DEF Ranks, Accepted
          <5>2. e = c => Accepted(r, e)' = Accepted(r, e) \cup {u} /\ u \notin Accepted(r, e)
            BY <4>1, <4>2, <5>1 DEF Accepted
          <5>3. e # c => Accepted(r, e)' = Accepted(r, e)
            BY <4>1 DEF Accepted
          <5> QED
            BY <5>1, <5>2, <5>3, FS_AddElement
        <4>5. 0 \in Channels /\ 1 \in Channels
          BY DEF Channels
        <4> DEFINE k == N - 1 - r
                   a0 == Cardinality(Accepted(r, 0))
                   a1 == Cardinality(Accepted(r, 1))
        <4>6. PICK n0, n1 : n0 = Cardinality(Accepted(r, 0))' /\ n1 = Cardinality(Accepted(r, 1))'
          OBVIOUS
        <4>7. /\ c = 0 => n0 = a0 + 1 /\ n1 = a1
              /\ c = 1 => n1 = a1 + 1 /\ n0 = a0
          <5>1. /\ 0 = c => n0 = a0 + 1
                /\ 0 # c => n0 = a0
            BY <4>4, <4>5, <4>6
          <5>2. /\ 1 = c => n1 = a1 + 1
                /\ 1 # c => n1 = a1
            BY <4>4, <4>5, <4>6
          <5> HIDE DEF a0, a1
          <5> QED
            BY <5>1, <5>2
        <4>8. k \in Nat /\ k > 0
          BY <3>1
        <4>9. /\ step[r] < 2 * k
              /\ a0 = IF step[r] < k THEN step[r] ELSE k
              /\ a1 = IF step[r] < k THEN 0 ELSE step[r] - k
              /\ c = IF step[r] < k THEN 0 ELSE 1
          BY <3>1
        <4> HIDE DEF k, a0, a1
        <4>10. /\ n0 = IF step[r] + 1 < k THEN step[r] + 1 ELSE k
               /\ n1 = IF step[r] + 1 < k THEN 0 ELSE (step[r] + 1) - k
          BY <3>1, <4>7, <4>8, <4>9, SMTT(30)
        <4>11. CASE step[r] + 1 # 2 * k
          <5>1. phase'[r] = "accept" /\ step'[r] = step[r] + 1
            BY <1>3, <1>9, <3>3, <4>11 DEF k
          <5>2. step[r] + 1 < 2 * k
            <6>1. step[r] \in Nat /\ step[r] < 2 * k
              BY <3>1, <4>9
            <6> QED
              BY <4>8, <4>11, <6>1
          <5>3. /\ r < N - 1 /\ step'[r] < 2 * (N - 1 - r)
                /\ Cardinality(Accepted(r, 0))' = IF step'[r] < N - 1 - r THEN step'[r] ELSE N - 1 - r
                /\ Cardinality(Accepted(r, 1))' = IF step'[r] < N - 1 - r THEN 0 ELSE step'[r] - (N - 1 - r)
            BY <3>1, <4>6, <4>10, <5>1, <5>2 DEF k
          <5> QED
            BY <2>2, <4>3, <5>1, <5>3 DEF ProgressOK
        <4>12. CASE step[r] + 1 = 2 * k
          <5>1. phase'[r] = "greet" /\ step'[r] = 0
            BY <1>3, <1>9, <3>3, <4>12 DEF k
          <5>2. n0 = k /\ n1 = k
            BY <3>1, <4>8, <4>10, <4>12
          <5>3. ASSUME NEW p \in Peers(r), NEW e \in Channels PROVE Linked(r, p, e)'
            <6>1. p \in Ranks /\ p # r
              BY DEF Peers
            <6>2. CASE p < r
              <7>1. 2 * p + e < 2 * r
                BY <6>1, <6>2 DEF Ranks, Channels
              <7> QED
                BY <4>3, <6>1, <6>2, <7>1 DEF Below
            <6>3. CASE p > r
              <7>1. Cardinality(Accepted(r, e))' = N - 1 - r
                BY <4>6, <5>2 DEF Channels, k
              <7>2. \A a \in Accepted(r, e)' : a \in Ranks /\ a > r /\ Linked(r, a, e)'
                BY DEF Accepted
              <7>3. p \in Accepted(r, e)'
                BY <6>1, <6>3, <7>1, <7>2, RanksAbove
              <7> QED
                BY <7>2, <7>3
            <6> QED
              BY <6>1, <6>2, <6>3 DEF Ranks
          <5>4. Peers(r)' = Peers(r)
            BY DEF Peers
          <5> QED
            BY <2>2, <5>1, <5>3, <5>4 DEF ProgressOK
        <4> QED
          BY <4>11, <4>12
      <3> QED
        BY <3>2, <3>3
    <2> QED
      BY <2>1, <2>2
  <1>16. ASSUME NEW q \in Ranks PROVE BacklogOK(q)'
    <2>1. CASE q # r
      <3>1. Listening(q) => Listening(q)'
        BY <1>9, <2>1 DEF Listening
      <3>2. ASSUME NEW p \in Ranks, phase[p] = "hello", answer[p].said = "none", Target(p) = q
            PROVE  phase'[p] = phase[p] /\ step'[p] = step[p] /\ answer'[p] = answer[p]
        <4>1. p # r
          BY <1>2, <3>2
        <4>2. ~(told /\ p = u)
          BY <1>5, <2>1, <3>2 DEF told
        <4> QED
          BY <1>4, <1>9, <2>1, <3>2, <4>1, <4>2
      <3>3. backlog'[q] = backlog[q] /\ life' = life /\ manifest' = manifest
        BY <1>2, <1>9, <2>1
      <3> QED
        BY <3>1, <3>2, <3>3, BacklogKept DEF SInv
    <2>2. CASE q = r /\ shut
      BY <1>9, <2>2, BacklogEmpty
    <2>3. CASE q = r /\ ~shut
      <3> SUFFICES ASSUME NEW e \in Channels
                   PROVE  /\ Listening(r)'
                          /\ \A i \in 1 .. Len(backlog'[r][e]) : VisitorOK(r, e, backlog[r][e][i])'
                          /\ \A i, j \in 1 .. Len(backlog'[r][e]) :
                                (backlog'[r][e][i] = backlog'[r][e][j]
                                 /\ backlog'[r][e][i].life = life'[backlog'[r][e][i].rank]) => i = j
        BY <2>3, SMTT(30) DEF BacklogOK
      <3>1. Listening(r)' /\ to = "accept"
        BY <1>9, <2>3 DEF Listening, shut
      <3>2. PICK d \in Seq(Visitor) : d = backlog[r][e]
        BY DEF SInv, Types
      <3>3. /\ \A i \in 1 .. Len(d) : VisitorOK(r, e, d[i])
            /\ \A i, j \in 1 .. Len(d) : (d[i] = d[j] /\ d[i].life = life[d[i].rank]) => i = j
        BY <3>2 DEF SInv, BacklogOK
      <3>4. ASSUME NEW i \in 1 .. Len(d), ~(e = c /\ i = 1) PROVE VisitorOK(r, e, d[i])'
        <4>1. PICK w \in Visitor : w = d[i]
          OBVIOUS
        <4>2. VisitorOK(r, e, w) /\ w.rank \in Ranks
          BY <3>3, <4>1 DEF Visitor
        <4>3. w.life = life[w.rank] => answer'[w.rank] = answer[w.rank]
          <5> SUFFICES ASSUME w.life = life[w.rank] PROVE answer'[w.rank] = answer[w.rank]
            OBVIOUS
          <5>1. ~(told /\ w.rank = u)
            <6> SUFFICES ASSUME told, w.rank = u PROVE FALSE
              OBVIOUS
            <6>1. y = life[u] /\ TargetChannel(u) = c /\ TargetChannel(u) = e
              BY <1>5, <4>2 DEF told, VisitorOK
            <6>2. e = c /\ d = b
              BY <1>2, <3>2, <6>1
            <6>3. w.manifest = manifest[u] /\ w.life = v.life /\ w.rank = v.rank
              BY <1>1, <4>2, <6>1 DEF VisitorOK
            <6>4. w = v
              BY <1>5, <6>3 DEF Visitor
            <6>5. 1 \in 1 .. Len(d) /\ d[1] = v
              BY <1>2, <6>2, EmptySeq
            <6> QED
              BY <3>3, <3>4, <4>1, <6>2, <6>4, <6>5
          <5> QED
            BY <1>4, <2>3, <4>2, <5>1
        <4>4. w.rank # r
          BY <4>2 DEF VisitorOK, Ranks
        <4>5. phase'[w.rank] = phase[w.rank] /\ step'[w.rank] = step[w.rank]
          BY <1>9, <4>2, <4>4
        <4>6. VisitorOK(r, e, w)'
          BY <1>2, <4>2, <4>3, <4>5 DEF VisitorOK, Target, TargetChannel
        <4> QED
          BY <4>1, <4>6
      <3>5. PICK f : f = backlog'[r][e]
        OBVIOUS
      <3>6. CASE e # c
        <4>1. f = d
          BY <1>9, <2>3, <3>2, <3>5, <3>6
        <4>2. \A i \in 1 .. Len(f) : VisitorOK(r, e, f[i])'
          BY <3>4, <3>6, <4>1
        <4>3. \A i \in 1 .. Len(f) : VisitorOK(r, e, backlog[r][e][i])'
          BY <3>5, <4>2 DEF VisitorOK, Target, TargetChannel
        <4>4. life' = life
          BY <1>2
        <4>5. \A i, j \in 1 .. Len(f) : (f[i] = f[j] /\ f[i].life = life'[f[i].rank]) => i = j
          BY <3>3, <4>1, <4>4
        <4> QED
          BY <3>1, <3>5, <4>3, <4>5
      <3>7. CASE e = c
        <4>1. d = b /\ f = Tail(d)
          BY <1>2, <1>9, <2>3, <3>2, <3>5, <3>7
        <4>2. /\ Len(d) \in Nat \ {0} /\ Len(f) = Len(d) - 1
              /\ \A i \in 1 .. Len(f) : f[i] = d[i + 1]
          BY <1>2, <4>1, HeadTailProperties, EmptySeq
        <4>3. \A i \in 1 .. Len(f) : i + 1 \in 1 .. Len(d) /\ i + 1 # 1 /\ i \in Int
          BY <4>2
        <4>4. ASSUME NEW i \in 1 .. Len(f) PROVE VisitorOK(r, e, f[i])'
          BY <3>4, <4>2, <4>3
        <4>5. \A i \in 1 .. Len(f) : VisitorOK(r, e, backlog[r][e][i])'
          BY <3>5, <4>4 DEF VisitorOK, Target, TargetChannel
        <4>6. ASSUME NEW i \in 1 .. Len(f), NEW j \in 1 .. Len(f), f[i] = f[j],
                     f[i].life = life[f[i].rank]
              PROVE  i = j
          <5>1. i + 1 = j + 1
            BY <3>3, <4>2, <4>3, <4>6
          <5> QED
            BY <4>3, <5>1
        <4>7. life' = life
          BY <1>2
        <4>8. \A i, j \in 1 .. Len(f) : (f[i] = f[j] /\ f[i].life = life'[f[i].rank]) => i = j
          BY <4>6, <4>7
        <4> QED
          BY <3>1, <3>5, <4>5, <4>8
      <3> QED
        BY <3>6, <3>7
    <2> QED
      BY <2>1, <2>2, <2>3
  <1>17. ASSUME NEW q \in Ranks PROVE ReplyOK(q)'
    <2> SUFFICES ASSUME phase'[q] = "hello", answer'[q].said = "yes"
                 PROVE  answer'[q].life <= life'[Target(q)'] /\ manifest'[Target(q)'] = manifest'[q]
      BY DEF ReplyOK
    <2>1. q # r
      BY <1>7, <1>9
    <2>2. phase[q] = "hello" /\ Target(q)' = Target(q)
      BY <1>9, <2>1 DEF Target
    <2>3. CASE told /\ q = u
      <3>1. answer'[q].life = life[r] /\ Target(q) = r /\ manifest[u] = manifest[r]
        BY <1>4, <1>5, <1>6, <2>3 DEF told
      <3>2. life[r] \in Nat
        BY DEF SInv, Types, StartAssumption
      <3> QED
        BY <1>2, <2>2, <2>3, <3>1, <3>2
    <2>4. CASE ~(told /\ q = u)
      <3>1. answer'[q] = answer[q]
        BY <1>4, <2>4 DEF Refusal
      <3> QED
        BY <1>2, <2>2, <3>1 DEF SInv, ReplyOK
    <2> QED
      BY <2>3, <2>4
  <1>18. \A p, q \in Ranks : p # r => (Alive(p, q)' => Alive(p, q))
    BY <1>2, <1>9 DEF Alive
  <1>19. ASSUME NEW q \in Ranks PROVE BeginSent(q)'
    <2>1. 0 \in Ranks
      BY DEF Ranks, StartAssumption
    <2>2. CASE r = 0
      <3>1. phase'[0] # "loop"
        BY <1>7, <1>9, <2>2
      <3> QED
        BY <3>1 DEF BeginSent
    <2>3. CASE r # 0
      BY <1>2, <1>9, <1>18, <2>1, <2>3, BeginSame DEF SInv
    <2> QED
      BY <2>2, <2>3
  <1>20. ASSUME NEW q \in Ranks, NEW p \in Ranks, q < p PROVE Paired(q, p)' /\ NotBothOld(q, p)'
    <2>0. Paired(q, p) /\ NotBothOld(q, p)
      BY <1>20 DEF SInv
    <2>1. CASE q # r
      <3>1. /\ link'[q] = link[q] /\ life'[q] = life[q] /\ life'[p] = life[p]
            /\ backlog'[q] = backlog[q] /\ phase'[q] = phase[q]
        BY <1>2, <1>9, <2>1
      <3>2. HasOld(q, p)' => HasOld(q, p)
        BY <3>1, HasOldSame
      <3>3. \A e, x : Knows(p, q, e, x)' <=> Knows(p, q, e, x)
        BY <1>13, <1>20, <2>1
      <3>4. NotBothOld(q, p)'
        BY <2>0, <3>1, <3>2, <3>3 DEF NotBothOld
      <3>5. PICK a : a = life[q]
        OBVIOUS
      <3>6. \A e : Knows(p, q, e, life[q])' <=> Knows(p, q, e, life[q])
        <4>1. \A e : Knows(p, q, e, life[q])' <=> Knows(p, q, e, a)'
          BY <3>1, <3>5 DEF Knows, Replied
        <4> QED
          BY <3>3, <3>5, <4>1
      <3>7. Paired(q, p)'
        BY <2>0, <3>1, <3>6 DEF Paired
      <3> QED
        BY <3>4, <3>7
    <2>2. CASE q = r
      <3>1. p # r /\ p \in Ranks
        BY <1>20, <2>2 DEF Ranks
      <3>2. \A e, x : <<p, e, x>> \in link'[r] <=>
                        (<<p, e, x>> \in link[r] \/ (ok /\ p = u /\ e = c /\ x = y))
        BY <1>9
      <3>3. \A e, x : Knows(p, r, e, x)' <=> (Knows(p, r, e, x) \/ (told /\ p = u /\ e = c /\ x = life[r]))
        BY <1>10, <1>12, <3>1
      <3>4. PICK a : a = life[r]
        OBVIOUS
      <3>5. \A e : Knows(p, r, e, life[r])' <=> (Knows(p, r, e, life[r]) \/ (told /\ p = u /\ e = c))
        <4>1. \A e : Knows(p, r, e, life[r])' <=> Knows(p, r, e, a)'
          BY <1>2, <3>4 DEF Knows, Replied
        <4> QED
          BY <3>3, <3>4, <4>1
      <3>6. Paired(r, p)'
        <4> SUFFICES ASSUME NEW e \in Channels
                     PROVE  /\ Knows(p, r, e, life[r])' =>
                                 <<p, e, life'[p]>> \in link'[r] \/ phase'[r] = "failed"
                            /\ <<p, e, life'[p]>> \in link'[r] => Knows(p, r, e, life[r])'
          BY DEF Paired
        <4>1. /\ Knows(p, r, e, life[r]) => <<p, e, life[p]>> \in link[r]
              /\ <<p, e, life[p]>> \in link[r] => Knows(p, r, e, life[r])
          BY <1>2, <2>0, <2>2 DEF Paired
        <4>2. told /\ p = u => y = life[p]
          BY DEF told
        <4>3. told /\ ~ok => phase'[r] = "failed"
          BY <1>6, <1>9
        <4>4. ok /\ y = life[u] => told
          BY <1>6
        <4> QED
          BY <1>2, <3>2, <3>5, <4>1, <4>2, <4>3, <4>4
      <3>7. HasOld(r, p)' => HasOld(r, p)
        <4> SUFFICES ASSUME NEW e \in Channels,
                            \/ \E x \in 0 .. Crashes : x < life'[p] /\ <<p, e, x>> \in link'[r]
                            \/ \E i \in 1 .. Len(backlog'[r][e]) :
                                 backlog'[r][e][i].rank = p /\ backlog'[r][e][i].life < life'[p]
                     PROVE  HasOld(r, p)
          BY DEF HasOld
        <4>1. ASSUME NEW x \in 0 .. Crashes, x < life'[p], <<p, e, x>> \in link'[r] PROVE HasOld(r, p)
          <5>1. CASE <<p, e, x>> \in link[r]
            BY <1>2, <4>1, <5>1 DEF HasOld
          <5>2. CASE p = u /\ e = c /\ x = y
            <6>1. 1 \in 1 .. Len(backlog[r][c]) /\ backlog[r][c][1] = v
              BY <1>2, EmptySeq
            <6>2. v.rank = p /\ v.life < life[p]
              BY <1>1, <1>2, <4>1, <5>2
            <6> QED
              BY <6>1, <6>2 DEF HasOld
          <5> QED
            BY <3>2, <4>1, <5>1, <5>2
        <4>2. ASSUME NEW i \in 1 .. Len(backlog'[r][e]),
                     backlog'[r][e][i].rank = p, backlog'[r][e][i].life < life'[p]
              PROVE  HasOld(r, p)
          <5>1. CASE shut
            <6>1. Len(backlog'[r][e]) = 0
              BY <1>9, <5>1
            <6> QED
              BY <4>2, <6>1
          <5>2. CASE ~shut /\ e # c
            BY <1>2, <1>9, <4>2, <5>2 DEF HasOld
          <5>3. CASE ~shut /\ e = c
            <6>1. backlog'[r][c] = Tail(b)
              BY <1>9, <5>3
            <6>2. /\ Len(b) \in Nat \ {0} /\ Len(Tail(b)) = Len(b) - 1
                  /\ \A n \in 1 .. Len(Tail(b)) : Tail(b)[n] = b[n + 1]
              BY <1>2, HeadTailProperties, EmptySeq
            <6>3. i + 1 \in 1 .. Len(b) /\ Tail(b)[i] = b[i + 1]
              BY <4>2, <5>3, <6>1, <6>2
            <6>4. b[i + 1].rank = p /\ b[i + 1].life < life[p]
              BY <1>2, <4>2, <5>3, <6>1, <6>3
            <6> QED
              BY <1>2, <6>3, <6>4 DEF HasOld
          <5> QED
            BY <5>1, <5>2, <5>3
        <4> QED
          BY <4>1, <4>2
      <3>8. NotBothOld(r, p)'
        <4>1. \A e, x : (x < life[r] /\ x \in 0 .. Crashes /\ Knows(p, r, e, x)') => Knows(p, r, e, x)
          <5>1. life[r] \in Nat
            BY DEF SInv, Types, StartAssumption
          <5>2. \A x : x < life[r] /\ x \in 0 .. Crashes => x # life[r]
            BY <5>1 DEF StartAssumption
          <5> QED
            BY <3>3, <5>2
        <4> QED
          BY <1>2, <2>0, <2>2, <3>7, <4>1 DEF NotBothOld
      <3> QED
        BY <2>2, <3>6, <3>8
    <2> QED
      BY <2>1, <2>2
  <1>21. ASSUME NEW q \in Ranks, NEW p \in Ranks PROVE FramesOK(p, q)'
    <2>0. FramesOK(p, q) /\ wire'[p][q] = wire[p][q] /\ life'[p] = life[p]
      BY <1>2 DEF SInv
    <2>1. phase'[q] = "failed" \/ (phase[q] # "failed" /\ (Heard(q, p)' <=> Heard(q, p)))
      <3>1. CASE q = r
        BY <1>2, <1>7, <1>9, <3>1 DEF Heard
      <3>2. CASE q # r
        BY <1>9, <3>2, HeardSame
      <3> QED
        BY <3>1, <3>2
    <2>2. /\ phase'[p] \in {"ready", "loop"} => phase[p] \in {"ready", "loop"} /\ p # r
          /\ phase[p] \in {"ready", "loop", "failed"} => phase'[p] \in {"ready", "loop", "failed"}
      BY <1>2, <1>7, <1>9
    <2>3. (phase'[p] \in {"ready", "loop"} /\ Alive(p, q)') => Alive(p, q)
      BY <1>18, <2>2
    <2>4. CASE \A x : Knows(q, p, 0, x)' <=> Knows(q, p, 0, x)
      BY <2>0, <2>1, <2>2, <2>3, <2>4, FramesSame
    <2>5. CASE q = r /\ p = u /\ ok /\ c = 0
      <3>1. \A x : ~Knows(r, u, 0, x)
        BY <1>2, <1>6, <2>5 DEF Knows, Replied
      <3>2. wire'[p][q] = <<>>
        BY <2>0, <2>5, <3>1 DEF FramesOK
      <3>3. ~Heard(q, p)' /\ ~Heard(q, p)
        BY <1>2, <1>7, <1>9, <2>5 DEF Heard
      <3>4. ~(phase'[p] \in {"ready", "loop"} /\ Alive(p, q)')
        <4>1. phase[q] # "failed" /\ q # p
          BY <1>2, <2>5
        <4> QED
          BY <2>0, <2>2, <2>3, <3>2, <3>3, <4>1 DEF FramesOK
      <3> QED
        BY <3>2, <3>3, <3>4 DEF FramesOK
    <2>6. CASE q = u /\ p = r /\ told /\ c = 0
      <3>1. phase[u] = "hello" /\ Target(u) = r /\ TargetChannel(u) = 0 /\ answer[u].said = "none"
        BY <1>5, <2>6 DEF told
      <3>2. \A x : ~Knows(u, r, 0, x)
        BY <3>1, TargetLower DEF Knows, Replied
      <3>3. wire'[p][q] = <<>>
        BY <2>0, <2>6, <3>2 DEF FramesOK
      <3>4. phase'[u] = "hello"
        BY <1>2, <1>9, <3>1
      <3>5. ~Heard(q, p)' /\ phase'[p] \notin {"ready", "loop"}
        BY <1>7, <1>9, <2>6, <3>4 DEF Heard
      <3> QED
        BY <3>3, <3>5 DEF FramesOK
    <2>7. \/ \A x : Knows(q, p, 0, x)' <=> Knows(q, p, 0, x)
          \/ q = r /\ p = u /\ ok /\ c = 0
          \/ q = u /\ p = r /\ told /\ c = 0
      BY <1>10, <1>11, <1>12
    <2> QED
      BY <2>4, <2>5, <2>6, <2>7
  <1> QED
    BY <1>8, <1>14, <1>15, <1>16, <1>17, <1>19, <1>20, <1>21 DEF SInv
-----------------------------------------------------------------------------
(* The invariant, and what follows from it. *)
\* Every initial state satisfies the invariant.
LEMMA StartsRight ==
    ASSUME StartAssumption, Init
    PROVE  SInv
  <1>1. Types
    BY DEF Init, Types, Phases, Reply, Silence, StartAssumption
  <1>2. ASSUME NEW r \in Ranks
        PROVE  /\ phase[r] = "down" /\ step[r] = 0 /\ link[r] = {}
               /\ \A c \in Channels : backlog[r][c] = <<>> /\ Len(backlog[r][c]) = 0
               /\ \A p \in Ranks : wire[p][r] = <<>>
    BY DEF Init
  <1>3. ASSUME NEW r \in Ranks
        PROVE  LinksOK(r) /\ ProgressOK(r) /\ BacklogOK(r) /\ ReplyOK(r)
    BY <1>2 DEF LinksOK, ProgressOK, BacklogOK, ReplyOK
  <1>4. ASSUME NEW r \in Ranks PROVE BeginSent(r)
    <2>1. 0 \in Ranks
      BY DEF Ranks, StartAssumption
    <2> QED
      BY <1>2, <2>1 DEF BeginSent
  <1>5. \A r \in Ranks : \A p, c, x : ~Knows(r, p, c, x)
    BY <1>2 DEF Knows, Replied
  <1>6. ASSUME NEW r \in Ranks, NEW p \in Ranks PROVE Paired(r, p) /\ NotBothOld(r, p) /\ FramesOK(p, r)
    <2>1. Paired(r, p) /\ NotBothOld(r, p)
      BY <1>2, <1>5 DEF Paired, NotBothOld
    <2>2. ~Heard(r, p) /\ phase[p] = "down" /\ wire[p][r] = <<>>
      BY <1>2 DEF Heard
    <2> QED
      BY <2>1, <2>2 DEF FramesOK
  <1> QED
    BY <1>1, <1>3, <1>4, <1>6 DEF SInv

\* Nothing of a stuttering step is visible to the invariant.
LEMMA StutterKeeps ==
    ASSUME SInv, UNCHANGED vars
    PROVE  SInv'
  <1>1. /\ manifest' = manifest /\ life' = life /\ phase' = phase /\ step' = step
        /\ backlog' = backlog /\ answer' = answer /\ link' = link /\ wire' = wire
    BY DEF vars
  <1>2. \A p, r, c, x : Knows(p, r, c, x)' <=> Knows(p, r, c, x)
    BY <1>1 DEF Knows, Replied, Target, TargetChannel
  <1>3. Types' /\ \A r \in Ranks : LinksOK(r)' /\ ReplyOK(r)' /\ BeginSent(r)'
    BY <1>1, ZenonT(60) DEF SInv, Types, LinksOK, ReplyOK, BeginSent, Target, Alive
  <1>4. \A r \in Ranks : ProgressOK(r)'
    BY <1>1, ProgressSame DEF SInv
  <1>5. ASSUME NEW r \in Ranks PROVE BacklogOK(r)'
    <2>1. Listening(r) => Listening(r)'
      BY <1>1 DEF Listening
    <2> QED
      BY <1>1, <2>1, BacklogKept DEF SInv
  <1>6. ASSUME NEW r \in Ranks, NEW p \in Ranks, r < p PROVE Paired(r, p)' /\ NotBothOld(r, p)'
    <2>1. HasOld(r, p)' => HasOld(r, p)
      BY <1>1 DEF HasOld
    <2> QED
      BY <1>1, <1>2, <1>6, <2>1, PairedSame, NotBothOldSame DEF SInv
  <1>7. ASSUME NEW r \in Ranks, NEW p \in Ranks PROVE FramesOK(p, r)'
    <2>1. (Heard(r, p)' <=> Heard(r, p)) /\ (Alive(p, r)' => Alive(p, r))
      BY <1>1 DEF Heard, Place, Alive
    <2>2. phase'[r] = "failed" \/ (phase[r] # "failed" /\ (Heard(r, p)' <=> Heard(r, p)))
      BY <1>1, <2>1
    <2> QED
      BY <1>1, <1>2, <2>1, <2>2, FramesSame DEF SInv
  <1> QED
    BY <1>3, <1>4, <1>5, <1>6, <1>7 DEF SInv

\* Every step keeps the invariant.
LEMMA StepKeeps ==
    ASSUME StartAssumption, SInv, [Next]_vars
    PROVE  SInv'
  <1>1. CASE UNCHANGED vars
    BY <1>1, StutterKeeps
  <1>2. ASSUME NEW r \in Ranks, Progress(r) \/ Crash(r) PROVE SInv'
    BY <1>2, ListenKeeps, ConnectKeeps, AnsweredKeeps, AcceptKeeps, AcceptFailsKeeps, GreetKeeps,
       HearKeeps, CrashKeeps DEF Progress
  <1>3. CASE BeginSession
    BY <1>3, BeginKeeps
  <1>4. CASE Over
    BY <1>4, StutterKeeps DEF Over
  <1> QED
    BY <1>1, <1>2, <1>3, <1>4 DEF Next

\* Two ranks in their loops hold each other's running incarnation on both channels.
LEMMA InvPaired ==
    ASSUME StartAssumption, SInv, NEW r \in Ranks, NEW p \in Ranks, r < p,
           phase[r] = "loop", phase[p] = "loop", NEW c \in Channels
    PROVE  /\ <<p, c, life[p]>> \in link[r] /\ <<r, c, life[r]>> \in link[p]
           /\ manifest[r] = manifest[p]
  <1>0. r \in Peers(p) /\ p \in Peers(r)
    BY DEF Peers, Ranks
  <1>1. Linked(r, p, c) /\ Linked(p, r, c)
    BY <1>0 DEF SInv, ProgressOK
  <1>2. PICK x \in 0 .. Crashes, y \in 0 .. Crashes : <<p, c, x>> \in link[r] /\ <<r, c, y>> \in link[p]
    BY <1>1 DEF Linked
  <1>3. /\ x <= life[p] /\ y <= life[r] /\ manifest[p] = manifest[r]
        /\ \A z : <<p, c, z>> \in link[r] => z = x
        /\ \A z : <<r, c, z>> \in link[p] => z = y
    <2>1. LinksOK(r) /\ LinksOK(p)
      BY DEF SInv
    <2>2. \A a, z : <<a, c, z>>[1] = a /\ <<a, c, z>>[2] = c /\ <<a, c, z>>[3] = z
      OBVIOUS
    <2>3. x <= life[p] /\ y <= life[r] /\ manifest[p] = manifest[r]
      BY <1>2, <2>1, <2>2 DEF LinksOK
    <2>4. ASSUME NEW z, <<p, c, z>> \in link[r] PROVE z = x
      <3>1. <<p, c, z>> = <<p, c, x>>
        BY <1>2, <2>1, <2>2, <2>4 DEF LinksOK
      <3> QED
        BY <3>1
    <2>5. ASSUME NEW z, <<r, c, z>> \in link[p] PROVE z = y
      <3>1. <<r, c, z>> = <<r, c, y>>
        BY <1>2, <2>1, <2>2, <2>5 DEF LinksOK
      <3> QED
        BY <3>1
    <2> QED
      BY <2>3, <2>4, <2>5
  <1>4. life[r] \in Nat /\ life[p] \in Nat /\ x \in Nat /\ y \in Nat
    BY DEF SInv, Types, StartAssumption
  <1>5. Paired(r, p) /\ NotBothOld(r, p)
    BY DEF SInv
  <1>6. \A z : Knows(p, r, c, z) <=> <<r, c, z>> \in link[p]
    BY DEF Knows, Replied
  <1>7. CASE x = life[p]
    <2>1. <<r, c, life[r]>> \in link[p]
      BY <1>2, <1>5, <1>6, <1>7 DEF Paired
    <2> QED
      BY <1>2, <1>3, <1>7, <2>1
  <1>8. CASE x # life[p]
    <2>1. HasOld(r, p)
      BY <1>2, <1>3, <1>4, <1>8 DEF HasOld
    <2>2. ~(y < life[r])
      BY <1>2, <1>5, <1>6, <2>1 DEF NotBothOld
    <2>3. y = life[r]
      BY <1>3, <1>4, <2>2
    <2>4. <<p, c, life[p]>> \in link[r]
      BY <1>2, <1>5, <1>6, <2>3 DEF Paired
    <2> QED
      BY <1>3, <1>8, <2>4
  <1> QED
    BY <1>7, <1>8

\* The invariant implies what the run checks.
LEMMA InvImplies ==
    ASSUME StartAssumption, SInv
    PROVE  StartInv
  <1>1. TypeOK
    <2>1. \A r \in Ranks : step[r] \in 0 .. 2 * N
      <3> SUFFICES ASSUME NEW r \in Ranks PROVE step[r] \in 0 .. 2 * N
        OBVIOUS
      <3>1. step[r] \in Nat /\ phase[r] \in Phases /\ r \in Nat /\ r < N /\ N \in Nat /\ N > 1
        BY DEF SInv, Types, Ranks, StartAssumption
      <3>2. ProgressOK(r)
        BY DEF SInv
      <3>3. step[r] <= 2 * N
        BY <3>1, <3>2 DEF ProgressOK, Phases
      <3> QED
        BY <3>1, <3>3
    <2>2. ASSUME NEW r \in Ranks
          PROVE  /\ link[r] \subseteq Peers(r) \X Channels \X (0 .. Crashes)
                 /\ \A k, l \in link[r] : (k[1] = l[1] /\ k[2] = l[2]) => k = l
      <3>1. LinksOK(r) /\ link[r] \subseteq Ranks \X Channels \X (0 .. Crashes)
        BY DEF SInv, Types
      <3>2. ASSUME NEW l \in link[r] PROVE l \in Peers(r) \X Channels \X (0 .. Crashes)
        <4>1. l \in Ranks \X Channels \X (0 .. Crashes) /\ l[1] # r
          BY <3>1 DEF LinksOK
        <4> QED
          BY <4>1 DEF Peers
      <3> QED
        BY <3>1, <3>2 DEF LinksOK
    <2> QED
      BY <2>1, <2>2 DEF TypeOK, SInv, Types
  <1>2. LoopsArePaired
    <2> SUFFICES ASSUME NEW r \in Ranks, NEW p \in Ranks, r # p, phase[r] = "loop", phase[p] = "loop"
                 PROVE  (\A c \in Channels : <<p, c, life[p]>> \in link[r]) /\ manifest[r] = manifest[p]
      BY DEF LoopsArePaired
    <2>1. r < p \/ p < r
      BY DEF Ranks
    <2>2. 0 \in Channels
      BY DEF Channels
    <2> QED
      BY <2>1, <2>2, InvPaired
  <1>3. NobodyRunsAlone
    <2> SUFFICES ASSUME NEW r \in Ranks, NEW p \in Ranks, r # p, phase[r] = "loop",
                        <<p, 0, life[p]>> \in link[r]
                 PROVE  phase[p] \in {"ready", "loop", "failed"}
      BY DEF NobodyRunsAlone
    <2>1. Heard(r, p) /\ Knows(r, p, 0, life[p])
      BY DEF Heard, Knows
    <2> QED
      BY <2>1 DEF SInv, FramesOK
  <1>4. BeginIsKept
    <2> SUFFICES ASSUME NEW r \in Ranks
                 PROVE  /\ phase[r] = "loop" =>
                             \A p \in Ranks : \A i \in 1 .. Len(wire[p][r]) : wire[p][r][i] # "READY"
                        /\ (r # 0 /\ step[0] = N /\ phase[0] = "loop" /\ Alive(0, r)) =>
                             \E i \in 1 .. Len(wire[0][r]) : wire[0][r][i] = "BEGIN"
      BY DEF BeginIsKept
    <2>1. ASSUME phase[r] = "loop", NEW p \in Ranks, NEW i \in 1 .. Len(wire[p][r])
          PROVE  wire[p][r][i] # "READY"
      <3>1. Heard(r, p)
        BY <2>1 DEF Heard
      <3> QED
        BY <2>1, <3>1 DEF SInv, FramesOK
    <2> QED
      BY <2>1 DEF SInv, BeginSent
  <1> QED
    BY <1>1, <1>2, <1>3, <1>4 DEF StartInv

(* However the hosts come up, and however often their processes die on the  *)
(* way: two ranks that run their loops (fg_rank_main, coordinator_open) are  *)
(* linked on both channels in the incarnations that run, under one manifest; *)
(* whoever a running rank is linked to has its links open; and rank_ready    *)
(* took no SESSION_BEGIN for a READY.                                        *)
THEOREM StartCorrect ==
    ASSUME StartAssumption
    PROVE  Spec => []StartInv
  <1>1. Init => SInv
    BY StartsRight
  <1>2. SInv /\ [Next]_vars => SInv'
    BY StepKeeps
  <1>3. SInv => StartInv
    BY InvImplies
  <1> QED
    BY <1>1, <1>2, <1>3, PTL DEF Spec
=============================================================================

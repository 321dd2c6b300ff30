---------------------------- MODULE FabricStart ----------------------------
(***************************************************************************)
(* How the ranks find each other: fg_fabric_open (src/src/fabric.c) and    *)
(* rank_ready (src/src/runtime.c), entered by fg_rank_main on a worker and *)
(* by coordinator_open or fg_runtime_reconnect on rank 0.  Every rank      *)
(* opens two listeners, connects to every lower rank on both channels,     *)
(* then accepts every higher rank, first on CONTROL and then on BULK, and  *)
(* finally exchanges READY with every peer.  Rank 0 then announces the     *)
(* session.  A process may die and be started again by its supervisor.     *)
(***************************************************************************)
EXTENDS Naturals, Sequences, FiniteSets

CONSTANTS
    N,          \* number of ranks, FG_RANK_COUNT in the code
    Manifests,  \* digests of sealed manifests a host may hold
    Crashes     \* bound: how many processes die while starting

\* What the constants of every instance satisfy.
StartAssumption == N \in Nat \ {0, 1} /\ Manifests # {} /\ Crashes \in Nat

Ranks == 0 .. N - 1
Channels == {0, 1}      \* FG_FABRIC_CONTROL, FG_FABRIC_BULK

VARIABLES
    manifest,   \* [Ranks -> Manifests]: manifest_sha256 that the host loaded
    life,       \* [Ranks -> Nat]: incarnation of the process
    phase,      \* what the process is doing
    step,       \* progress inside the phase
    backlog,    \* [Ranks -> [Channels -> Seq]]: connections waiting in accept
    answer,     \* the handshake reply a connector waits for, and whose it is
    link,       \* [Ranks -> SUBSET (peer, channel, incarnation of the peer)]
    wire        \* [Ranks -> [Ranks -> Seq]]: CONTROL frames in flight

vars == <<manifest, life, phase, step, backlog, answer, link, wire>>

Phases == {"down", "connect", "hello", "accept", "greet", "ready", "loop", "failed"}
Visitor == [rank : Ranks, life : 0 .. Crashes, manifest : Manifests]
Reply == [said : {"none", "yes", "no"}, life : 0 .. Crashes]
Silence == [said |-> "none", life |-> 0]
Refusal == [said |-> "no", life |-> 0]

Init ==
    /\ manifest \in [Ranks -> Manifests]
    /\ life = [r \in Ranks |-> 0]
    /\ phase = [r \in Ranks |-> "down"]
    /\ step = [r \in Ranks |-> 0]
    /\ backlog = [r \in Ranks |-> [c \in Channels |-> <<>>]]
    /\ answer = [r \in Ranks |-> Silence]
    /\ link = [r \in Ranks |-> {}]
    /\ wire = [r \in Ranks |-> [p \in Ranks |-> <<>>]]

(* The model is loaded and both listeners are made before any connection.  *)
Listen(r) ==
    /\ phase[r] = "down"
    /\ phase' = [phase EXCEPT ![r] = IF r = 0 THEN "accept" ELSE "connect"]
    /\ step' = [step EXCEPT ![r] = 0]
    /\ UNCHANGED <<manifest, life, backlog, answer, link, wire>>

Listening(p) == phase[p] \in {"connect", "hello", "accept"}

(* The outgoing loop: peer by peer downward from 0, CONTROL before BULK.   *)
Target(r) == step[r] \div 2
TargetChannel(r) == step[r] % 2

(* connect_retry succeeds once the peer listens (a refused attempt is tried *)
(* again); the hello is sent and the process blocks reading the reply.     *)
Connect(r) ==
    /\ phase[r] = "connect"
    /\ Listening(Target(r))
    /\ backlog' = [backlog EXCEPT ![Target(r)][TargetChannel(r)] =
                     Append(@, [rank |-> r, life |-> life[r], manifest |-> manifest[r]])]
    /\ answer' = [answer EXCEPT ![r] = Silence]
    /\ phase' = [phase EXCEPT ![r] = "hello"]
    /\ UNCHANGED <<manifest, life, step, link, wire>>

(* A process closed its sockets: whoever waits for its reply reads the end. *)
Gone(r, told) ==
    [p \in Ranks |->
        IF phase[p] = "hello" /\ Target(p) = r /\ told[p].said = "none" THEN Refusal ELSE told[p]]

NoVisitors == [c \in Channels |-> <<>>]

(* outgoing returns: the reply is valid, or the peer closed the socket and  *)
(* fg_fabric_open gives up, its own listeners included.                     *)
Answered(r) ==
    /\ phase[r] = "hello"
    /\ \/ /\ answer[r].said = "yes"
          /\ link' = [link EXCEPT ![r] =
                        @ \cup {<<Target(r), TargetChannel(r), answer[r].life>>}]
          /\ step' = [step EXCEPT ![r] = IF @ + 1 = 2 * r THEN 0 ELSE @ + 1]
          /\ phase' = [phase EXCEPT ![r] =
                         IF step[r] + 1 < 2 * r THEN "connect"
                         ELSE IF r = N - 1 THEN "greet" ELSE "accept"]
          /\ UNCHANGED <<backlog, answer>>
       \/ /\ answer[r].said = "no"
          /\ phase' = [phase EXCEPT ![r] = "failed"]
          /\ backlog' = [backlog EXCEPT ![r] = NoVisitors]
          /\ answer' = Gone(r, answer)
          /\ UNCHANGED <<link, step>>
    /\ UNCHANGED <<manifest, life, wire>>

(* Which listener the accept loop serves: every CONTROL, then every BULK.  *)
AcceptChannel(r) == IF step[r] < N - 1 - r THEN 0 ELSE 1

HelloValid(r, v) == v.rank > r /\ v.manifest = manifest[r]

(* The duplicate test of fg_fabric_open comes after the reply.             *)
Welcome(r, c, v) == HelloValid(r, v) /\ \A l \in link[r] : l[1] # v.rank \/ l[2] # c

(* A visitor whose process died meanwhile leaves a closed socket: its hello *)
(* is read and the reply sent into the void, or one of the two fails.      *)
IsCurrent(v) == life[v.rank] = v.life /\ phase[v.rank] = "hello"

(* incoming_any replies to a valid hello.                                  *)
Told(r, v) ==
    IF HelloValid(r, v) /\ IsCurrent(v)
    THEN [answer EXCEPT ![v.rank] = [said |-> "yes", life |-> life[r]]] ELSE answer

(* The listeners are closed after the last visitor and after a refused one. *)
Accept(r) ==
    LET c == AcceptChannel(r)
        v == Head(backlog[r][c])
        ok == Welcome(r, c, v)
        last == step[r] + 1 = 2 * (N - 1 - r)
    IN  /\ phase[r] = "accept"
        /\ backlog[r][c] # <<>>
        /\ IF ok
           THEN /\ link' = [link EXCEPT ![r] = @ \cup {<<v.rank, c, v.life>>}]
                /\ step' = [step EXCEPT ![r] = IF last THEN 0 ELSE @ + 1]
                /\ phase' = [phase EXCEPT ![r] = IF last THEN "greet" ELSE "accept"]
           ELSE /\ phase' = [phase EXCEPT ![r] = "failed"]
                /\ UNCHANGED <<link, step>>
        /\ IF ok /\ ~last
           THEN /\ backlog' = [backlog EXCEPT ![r][c] = Tail(@)]
                /\ answer' = Told(r, v)
           ELSE /\ backlog' = [backlog EXCEPT ![r] = NoVisitors]
                /\ answer' = Gone(r, Told(r, v))
        /\ UNCHANGED <<manifest, life, wire>>

(* incoming_any cannot read or answer the hello of a visitor that died.    *)
AcceptFails(r) ==
    LET c == AcceptChannel(r)
    IN  /\ phase[r] = "accept"
        /\ backlog[r][c] # <<>> /\ ~IsCurrent(Head(backlog[r][c]))
        /\ phase' = [phase EXCEPT ![r] = "failed"]
        /\ backlog' = [backlog EXCEPT ![r] = NoVisitors]
        /\ answer' = Gone(r, answer)
        /\ UNCHANGED <<manifest, life, step, link, wire>>

Peers(r) == Ranks \ {r}
Alive(r, p) == \E l \in link[r] : l[1] = p /\ l[2] = 0 /\ l[3] = life[p]

(* Mutant: a rank waits for the READY of its peers before it sends its own. *)
GreetAfter(r) ==
    /\ phase[r] = "greet"
    /\ \E p \in Peers(r) : wire[p][r] = <<>>
    /\ UNCHANGED vars

(* First half of rank_ready: READY to every peer.  A send to a peer that    *)
(* died either fails or is lost.                                            *)
Greet(r) ==
    /\ phase[r] = "greet"
    /\ \/ /\ wire' = [wire EXCEPT ![r] = [p \in Ranks |->
                        IF p # r /\ Alive(r, p) /\ phase[p] # "failed"
                        THEN Append(@[p], "READY") ELSE @[p]]]
          /\ phase' = [phase EXCEPT ![r] = "ready"]
       \/ /\ \E p \in Peers(r) : ~Alive(r, p) \/ phase[p] = "failed"
          /\ phase' = [phase EXCEPT ![r] = "failed"]
          /\ UNCHANGED wire
    /\ UNCHANGED <<manifest, life, step, backlog, answer, link>>

(* Mutant: one peer is forgotten.                                           *)
HeardMost(n) == n = N - 2

(* Second half: one frame from each peer, in rank order.  What a process    *)
(* wrote before it died can still be read.                                  *)
Awaited(r) == IF step[r] < r THEN {step[r]} ELSE {step[r] + 1}

(* The receive loop has gone through every peer.                            *)
HeardAll(n) == n = N - 1

Hear(r) ==
    /\ phase[r] = "ready"
    /\ \E p \in Awaited(r) :
        \/ /\ wire[p][r] # <<>>
           /\ wire' = [wire EXCEPT ![p][r] = Tail(@)]
           /\ IF Head(wire[p][r]) # "READY"
              THEN phase' = [phase EXCEPT ![r] = "failed"] /\ UNCHANGED step
              ELSE /\ step' = [step EXCEPT ![r] = @ + 1]
                   /\ phase' = [phase EXCEPT ![r] = IF HeardAll(step[r] + 1) THEN "loop" ELSE @]
        \/ /\ wire[p][r] = <<>>
           /\ ~Alive(r, p) \/ phase[p] = "failed"
           /\ phase' = [phase EXCEPT ![r] = "failed"]
           /\ UNCHANGED <<step, wire>>
    /\ UNCHANGED <<manifest, life, backlog, answer, link>>

(* coordinator_begin_session: SESSION_BEGIN goes out on every CONTROL       *)
(* channel as soon as rank 0 is ready.                                      *)
BeginSession ==
    /\ phase[0] = "loop"
    /\ step[0] = N - 1
    /\ step' = [step EXCEPT ![0] = N]
    /\ wire' = [wire EXCEPT ![0] = [p \in Ranks |->
                  IF p # 0 /\ Alive(0, p) THEN Append(@[p], "BEGIN") ELSE @[p]]]
    /\ UNCHANGED <<manifest, life, phase, backlog, answer, link>>

(* A worker process dies: its sockets close and what it had not read is     *)
(* lost, connections it had queued stay in the peer's backlog, and what it  *)
(* wrote reaches its peers or, where its host went down, some of them.      *)
Crash(r) ==
    /\ r # 0
    /\ phase[r] \notin {"down", "loop"}
    /\ life[r] < Crashes
    /\ life' = [life EXCEPT ![r] = @ + 1]
    /\ phase' = [phase EXCEPT ![r] = "down"]
    /\ step' = [step EXCEPT ![r] = 0]
    /\ link' = [link EXCEPT ![r] = {}]
    /\ backlog' = [backlog EXCEPT ![r] = NoVisitors]
    /\ answer' = [Gone(r, answer) EXCEPT ![r] = Silence]
    /\ \E lost \in SUBSET Ranks :
        wire' = [p \in Ranks |-> [q \in Ranks |->
                   IF q = r \/ (p = r /\ q \in lost) THEN <<>> ELSE wire[p][q]]]
    /\ UNCHANGED manifest

(* Every rank reached its loop, or one of them gave up.                     *)
Settled == (\A r \in Ranks : phase[r] = "loop") /\ step[0] = N
Over == (Settled \/ (\E r \in Ranks : phase[r] = "failed" \/ life[r] > 0)) /\ UNCHANGED vars

Progress(r) ==
    \/ Listen(r) \/ Connect(r) \/ Answered(r) \/ Accept(r) \/ AcceptFails(r)
    \/ Greet(r) \/ Hear(r)

Next ==
    \/ \E r \in Ranks : Progress(r) \/ Crash(r)
    \/ BeginSession
    \/ Over

Spec == Init /\ [][Next]_vars /\ \A r \in Ranks : WF_vars(Progress(r))
          /\ WF_vars(BeginSession)

-----------------------------------------------------------------------------
(* Every variable keeps its type; a rank holds at most one link per peer    *)
(* and channel (fg_fabric_open refuses a duplicate).                        *)
TypeOK ==
    /\ manifest \in [Ranks -> Manifests]
    /\ life \in [Ranks -> 0 .. Crashes]
    /\ phase \in [Ranks -> Phases]
    /\ \A r \in Ranks : step[r] \in 0 .. 2 * N
    /\ \A r \in Ranks, c \in Channels : backlog[r][c] \in Seq(Visitor)
    /\ answer \in [Ranks -> Reply]
    /\ \A r \in Ranks :
        /\ link[r] \subseteq Peers(r) \X Channels \X (0 .. Crashes)
        /\ \A k, l \in link[r] : (k[1] = l[1] /\ k[2] = l[2]) => k = l
    /\ \A p, r \in Ranks : wire[p][r] \in Seq({"READY", "BEGIN"})

(* Two ranks that both entered their loops are linked to each other, on     *)
(* both channels, in the incarnations that run, and loaded one manifest.    *)
LoopsArePaired ==
    \A r, p \in Ranks :
        (r # p /\ phase[r] = "loop" /\ phase[p] = "loop") =>
            /\ \A c \in Channels : <<p, c, life[p]>> \in link[r]
            /\ manifest[r] = manifest[p]

(* A rank enters its loop only after every peer was open: no peer can still *)
(* be connecting or accepting in the incarnation it is linked to.           *)
NobodyRunsAlone ==
    \A r, p \in Ranks :
        (r # p /\ phase[r] = "loop" /\ <<p, 0, life[p]>> \in link[r]) =>
            phase[p] \in {"ready", "loop", "failed"}

(* rank_ready reads exactly one frame per peer: a rank in its loop left no  *)
(* READY behind, and the SESSION_BEGIN that rank 0 sent is never taken for  *)
(* one, however early it arrives.                                           *)
BeginIsKept ==
    \A r \in Ranks :
        /\ phase[r] = "loop" =>
             \A p \in Ranks : \A i \in 1 .. Len(wire[p][r]) : wire[p][r][i] # "READY"
        /\ (r # 0 /\ step[0] = N /\ phase[0] = "loop" /\ Alive(0, r)) =>
             \E i \in 1 .. Len(wire[0][r]) : wire[0][r][i] = "BEGIN"

(* If nothing fails the whole ring starts: connecting downward and          *)
(* accepting upward has no cycle of waits, whatever the order in which the  *)
(* hosts come up.                                                           *)
RingStarts == (\A r, p \in Ranks : manifest[r] = manifest[p]) => <>Settled

(* Whoever entered its loop is linked to running peers of its manifest, had  *)
(* every peer's links open before, and took no announcement for a READY.     *)
StartInv ==
    /\ TypeOK
    /\ LoopsArePaired
    /\ NobodyRunsAlone
    /\ BeginIsKept
=============================================================================

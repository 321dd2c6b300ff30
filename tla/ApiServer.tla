------------------------------ MODULE ApiServer ------------------------------
(***************************************************************************)
(* The API server of src/src/api.c: a front-end thread that owns the       *)
(* client sockets and runs one poll loop, and an engine thread that takes  *)
(* admitted chat requests in FIFO order.  They share the admission queue   *)
(* (one mutex) and, per connection, an outbound buffer (one mutex) and     *)
(* atomic flags.                                                           *)
(*                                                                         *)
(* An action is one critical section, or a run of steps on state no other  *)
(* thread touches.  Response bytes are counted in units; request bytes are *)
(* whole requests; the clock is a choice (a timer may have expired).       *)
(* Connections are numbered in the order clients connect and a number is   *)
(* never reused, so a freed connection stays recognisable.                 *)
(***************************************************************************)
EXTENDS Integers, Sequences, FiniteSets, FiniteSetsExt

CONSTANTS
    Clients,        \* bound: connections ever made, numbered 1..Clients
    Requests,       \* bound: requests one client sends
    Kinds,          \* what they are: "chat", "probe" (any request the front-end
                    \* answers itself) or "bad" (one it cannot parse)
    Ends,           \* how a client leaves: "half" (it still reads), "closed"
    MaxConnections, \* FG_API_MAX_CONNECTIONS
    Capacity,       \* FG_API_ENGINE_QUEUE_CAPACITY
    OutputLimit     \* FG_API_CONNECTION_OUTPUT_LIMIT, in units

\* What the constants of every instance satisfy.
ApiAssumption ==
    /\ {Clients, Requests, MaxConnections, Capacity, OutputLimit} \subseteq Nat \ {0}
    /\ Kinds \subseteq {"chat", "probe", "bad"}
    /\ Ends \subseteq {"half", "closed"}

VARIABLES
    client,      \* per client: its side of the socket and what it sent
    conn,        \* per client: the api_connection
    queue,       \* api_engine_queue entries, oldest first
    outstanding, \* admitted requests not yet completed
    stopping,    \* queue->stopping
    frontStopping,  \* frontend->stopping
    fpc, todo,   \* front-end: phase, connections left to service this turn
    epc, current, fatal   \* engine: phase, connection served, status # FG_OK

frontend == <<fpc, todo>>
engine   == <<epc, current, fatal>>
control  == <<stopping, frontStopping>>
vars     == <<client, conn, queue, outstanding, control, frontend, engine>>

Conns == 1..Clients
None  == 0

\* api_frontend_connection_create: a connection as calloc and atomic_init leave it.
Fresh(st) ==
    [st |-> st, generating |-> FALSE, peerClosed |-> FALSE, keepAlive |-> FALSE,
     input |-> <<>>, out |-> 0, chunked |-> FALSE, complete |-> FALSE,
     closeAfter |-> FALSE, failed |-> FALSE, gone |-> FALSE, lost |-> FALSE]

Init ==
    /\ client = [c \in Conns |-> [mode |-> "none", sock |-> <<>>, left |-> Requests]]
    /\ conn = [c \in Conns |-> Fresh("new")]
    /\ queue = <<>> /\ outstanding = 0
    /\ stopping = FALSE /\ frontStopping = FALSE
    /\ fpc = "poll" /\ todo = {}
    /\ epc = "pop" /\ current = None /\ fatal = FALSE

Live == {c \in Conns : conn[c].st = "open"}

\* A client that will send nothing more.
Ended(mode) == [mode |-> mode, sock |-> <<>>, left |-> 0]

\* The connection waits in the admission queue.
Queued(c) == \E i \in DOMAIN queue : queue[i] = c
-----------------------------------------------------------------------------
(* Operations on one connection, as functions of its record `k'. *)

\* Mutant: a rejected append leaves no mark.
AppendUnmarked(k) ==
    IF k.failed \/ k.out >= OutputLimit THEN [k EXCEPT !.lost = TRUE]
    ELSE [k EXCEPT !.out = @ + 1]

\* api_connection_append: past the limit the bytes are dropped and the
\* connection is marked; there is no test of client_gone.  `lost' records the
\* drop and is read by no action.
Append1(k) ==
    IF k.failed \/ k.out >= OutputLimit
    THEN [k EXCEPT !.failed = TRUE, !.lost = TRUE]
    ELSE [k EXCEPT !.out = @ + 1]

\* The critical section of api_connection_complete_response.
CompleteSection(k, close) ==
    LET terminator == IF k.chunked /\ ~k.failed /\ ~k.gone THEN 1 ELSE 0
    IN  [k EXCEPT !.out = @ + terminator,
                  !.closeAfter = @ \/ close \/ k.failed \/ k.gone]

\* response_complete is stored after the section's unlock.
Publish(k) == [k EXCEPT !.complete = TRUE]

\* Mutant: the response is finished but never published as complete.
CompleteUnpublished(k, close) == CompleteSection(k, close)

CompleteResponse(k, close) == Publish(CompleteSection(k, close))

\* A response the front-end produces itself: one append and its completion.
Respond(k) == CompleteResponse(Append1(k), ~k.keepAlive)

Reusable(k) == k.keepAlive /\ ~k.gone /\ ~k.closeAfter /\ ~k.peerClosed

\* api_frontend_reap readies the connection for its next request.
Reset(k) ==
    [k EXCEPT !.chunked = FALSE, !.closeAfter = FALSE, !.failed = FALSE,
              !.complete = FALSE, !.peerClosed = FALSE, !.lost = FALSE]

\* close(fd) and api_connection_free: nothing of the connection is left.
Free(k) == Fresh("freed")

Flushed(k) == k.complete /\ k.out = 0

\* A connection with no response to send that the front-end gives up: its
\* client is gone, ended its stream with nothing buffered, or is `idle'.
Abandoned(k, idle) == k.gone \/ (k.peerClosed /\ k.input = <<>>) \/ idle

\* Mutant: the engine's ownership is not tested.
ReapIgnoresOwner(k, idle) ==
    LET r == [k EXCEPT !.generating = FALSE]
    IN  CASE Flushed(k) /\ Reusable(k) -> Reset(r)
          [] Flushed(k) /\ ~Reusable(k) -> Free(r)
          [] ~Flushed(k) /\ Abandoned(k, idle) -> Free(r)
          [] OTHER -> k

\* The second loop of api_frontend_reap, for one connection; `idle' is the
\* 120 s test.
ReapOne(k, idle) ==
    LET r == [k EXCEPT !.generating = FALSE]
    IN  CASE Flushed(k) /\ Reusable(k) -> Reset(r)
          [] Flushed(k) /\ ~Reusable(k) -> Free(r)
          [] ~Flushed(k) /\ ~k.generating /\ Abandoned(k, idle) -> Free(k)
          [] OTHER -> k
-----------------------------------------------------------------------------
(* Clients. *)

ClientConnect(c) ==
    /\ client[c].mode = "none"
    /\ \A d \in 1..(c - 1) : client[d].mode # "none"
    /\ client' = [client EXCEPT ![c].mode = "open"]
    /\ UNCHANGED <<conn, queue, outstanding, control, frontend, engine>>

ClientSend(c) ==
    /\ client[c].mode = "open" /\ client[c].left > 0
    /\ \E kind \in Kinds :
          client' = [client EXCEPT ![c].sock = Append(@, kind), ![c].left = @ - 1]
    /\ UNCHANGED <<conn, queue, outstanding, control, frontend, engine>>

\* What was sent before stays in the socket.
ClientClose(c) ==
    /\ \E m \in Ends :
          /\ client[c].mode \in {"open", "half"} \ {m}
          /\ client' = [client EXCEPT ![c].mode = m, ![c].left = 0]
    /\ UNCHANGED <<conn, queue, outstanding, control, frontend, engine>>
-----------------------------------------------------------------------------
(* The front-end thread, api_frontend_thread.                              *)

\* The clients as they are once the front-end closed the sockets of `freed'.
Disconnected(freed) ==
    [c \in Conns |-> IF c \in freed THEN Ended("closed") ELSE client[c]]

\* The top of the loop: the connections to poll, and api_frontend_accept.  A
\* pending connection over the bound, or one whose socket cannot be
\* configured, is closed.  Newly accepted connections are not serviced in this
\* turn.
FrontendPoll ==
    /\ fpc = "poll" /\ ~frontStopping
    /\ LET backlog == {c \in Conns : client[c].mode # "none" /\ conn[c].st = "new"}
       IN  \E accepted \in SUBSET backlog :
              /\ Cardinality(accepted) + Cardinality(Live) <= MaxConnections
              /\ conn' = [c \in Conns |->
                            IF c \in accepted THEN Fresh("open")
                            ELSE IF c \in backlog THEN Fresh("freed") ELSE conn[c]]
              /\ client' = Disconnected(backlog \ accepted)
    /\ todo' = Live
    /\ fpc' = "service"
    /\ UNCHANGED <<queue, outstanding, control, engine>>

\* poll asks for POLLOUT.
WantsOutput(k) == k.out > 0 /\ ~k.gone

\* api_connection_flush: what becomes of connection c, now k.  The socket takes
\* some bytes, or none of a client that does not drain; writing to a closed
\* client may fail.
Flush(c, k) ==
    {[k EXCEPT !.out = left] : left \in 0..k.out}
       \cup {e \in {[k EXCEPT !.out = 0, !.gone = TRUE, !.closeAfter = TRUE]} :
               client[c].mode = "closed"}

\* One connection's turn ends: it is flushed after the read if it was polled
\* for output before it.  `k' is the connection after the read.
Serviced(c, k) ==
    /\ \E f \in (IF WantsOutput(conn[c]) THEN Flush(c, k) ELSE {k}) :
          conn' = [conn EXCEPT ![c] = f]
    /\ todo' = todo \ {c}

\* The connections are serviced newest first, the order of the list.
Turn(c) == fpc = "service" /\ todo # {} /\ c = Max(todo)

\* poll reports the client's end of stream on a connection the engine owns:
\* api_connection_detect_client_gone.
FrontendDetect(c) ==
    /\ Turn(c) /\ conn[c].generating
    /\ Serviced(c, [conn[c] EXCEPT !.gone = @ \/ client[c].mode # "open"])
    /\ UNCHANGED <<client, queue, outstanding, control, fpc, engine>>

\* What recv finds: the requests the client sent, then its end of stream or,
\* of a closed client, possibly a reset.
Received(c) ==
    LET k == [conn[c] EXCEPT !.input = @ \o client[c].sock]
        ended == [k EXCEPT !.peerClosed = TRUE, !.keepAlive = FALSE]
        reset == [k EXCEPT !.gone = TRUE, !.closeAfter = TRUE]
    IN  CASE client[c].mode = "open" -> {k}
          [] client[c].mode = "half" -> {ended}
          [] client[c].mode = "closed" -> {ended, reset}

\* api_engine_queue_try_push admits.
Room == outstanding < Capacity /\ Len(queue) < Capacity

\* api_frontend_dispatch of the request `kind' that was just consumed from k.
Dispatch(c, k, kind, keepAlive) ==
    LET d == [k EXCEPT !.keepAlive = keepAlive /\ ~k.peerClosed]
    IN  IF kind = "chat" /\ ~stopping /\ Room
        THEN /\ Serviced(c, [d EXCEPT !.generating = TRUE])
             /\ queue' = Append(queue, c)
             /\ outstanding' = outstanding + 1
        ELSE /\ Serviced(c, Respond(d))
             /\ UNCHANGED <<queue, outstanding>>

\* The parse loop of api_frontend_read_available: it stops after one request,
\* because every dispatch leaves the connection generating or complete.
ParseOne(c, k) ==
    IF k.input = <<>> \/ k.gone \/ k.complete
    THEN Serviced(c, k) /\ UNCHANGED <<queue, outstanding>>
    ELSE IF Head(k.input) = "bad"
    THEN /\ Serviced(c, CompleteResponse(Append1(k), TRUE))
         /\ UNCHANGED <<queue, outstanding>>
    ELSE \E keepAlive \in BOOLEAN :
            Dispatch(c, [k EXCEPT !.input = Tail(@)], Head(k.input), keepAlive)

\* Mutant: the client's end of stream is not polled for.
ReadableBytesOnly(c) == ~conn[c].complete /\ client[c].sock # <<>>

\* New bytes or an end of stream while no response is pending; with a response
\* pending only the hang-up of a closed client is reported, sooner or later.
Readable(c) ==
    \/ ~conn[c].complete /\ (client[c].sock # <<>> \/ client[c].mode # "open")
    \/ conn[c].complete /\ client[c].mode = "closed"

FrontendRead(c) ==
    /\ Turn(c) /\ ~conn[c].generating
    /\ Readable(c)
    /\ \E k \in Received(c) : ParseOne(c, k)
    /\ client' = [client EXCEPT ![c].sock = <<>>]
    /\ UNCHANGED <<control, fpc, engine>>

\* Nothing to read; output may still be flushed.
FrontendQuiet(c) ==
    /\ Turn(c) /\ ~conn[c].generating
    /\ conn[c].complete \/ ~Readable(c)
    /\ Serviced(c, conn[c])
    /\ UNCHANGED <<client, queue, outstanding, control, fpc, engine>>

\* A turn that leaves nothing of connection c's output behind.
FlushAll(c) ==
    /\ WantsOutput(conn[c])
    /\ FrontendDetect(c) \/ FrontendRead(c) \/ FrontendQuiet(c)
    /\ conn'[c].out = 0

\* api_connection_maybe_heartbeat, when the timer has `expired'.
Heartbeat(k, expired) ==
    IF /\ expired /\ k.generating /\ ~k.gone
       /\ k.chunked /\ ~k.failed /\ ~k.complete /\ k.out = 0
    THEN [k EXCEPT !.out = 1] ELSE k

\* A queued request whose client is gone.
Cancelled(c) == conn[c].generating /\ ~conn[c].complete /\ conn[c].gone /\ Queued(c)

\* api_engine_queue_cancel gives the slots of the cancelled requests back.
Released(cancelled) == outstanding - Cardinality(cancelled)

\* The cancelled requests leave the queue, the others keep their order.
Remaining(cancelled) ==
    LET kept == {i \in DOMAIN queue : queue[i] \notin cancelled}
        At(n) == CHOOSE i \in kept : Cardinality({j \in kept : j < i}) = n - 1
    IN  [n \in 1..Cardinality(kept) |-> queue[At(n)]]

\* The end of a turn: heartbeats, then api_frontend_reap, whose first loop
\* cancels queued requests (api_engine_queue_cancel and their completion) and
\* whose second reaps.  The engine's steps between the three commute with them:
\* heartbeats and cancellations concern different connections, and a
\* connection the engine works on is reaped only once it is complete.
FrontendSweep ==
    /\ fpc = "service" /\ todo = {}
    /\ LET cancelled == {c \in Live : Cancelled(c)}
       IN  /\ queue' = Remaining(cancelled)
           /\ outstanding' = Released(cancelled)
           /\ \E expired \in SUBSET Live : \E idle \in SUBSET Live :
                 LET Swept(c) == IF c \in cancelled THEN CompleteResponse(conn[c], TRUE)
                                 ELSE Heartbeat(conn[c], c \in expired)
                     reaped == [c \in Live |-> ReapOne(Swept(c), c \in idle)]
                 IN  /\ conn' = [c \in Conns |-> IF c \in Live THEN reaped[c] ELSE conn[c]]
                     /\ client' = Disconnected({c \in Live : reaped[c].st = "freed"})
    /\ fpc' = "poll"
    /\ UNCHANGED <<control, todo, engine>>

\* The loop ends and every connection is freed.
FrontendExit ==
    /\ fpc = "poll" /\ frontStopping
    /\ conn' = [c \in Conns |-> IF c \in Live THEN Free(conn[c]) ELSE conn[c]]
    /\ client' = Disconnected(Live)
    /\ fpc' = "exit"
    /\ UNCHANGED <<queue, outstanding, control, todo, engine>>
-----------------------------------------------------------------------------
(* The engine thread, the FIFO loop of fg_api_main_with_options.           *)

\* api_engine_queue_pop_wait and the test of client_gone: a request whose
\* client left is completed without running.
EnginePop ==
    /\ epc = "pop" /\ queue # <<>>
    /\ current' = Head(queue)
    /\ queue' = Tail(queue)
    /\ epc' = IF conn[Head(queue)].gone THEN "complete" ELSE "run"
    /\ UNCHANGED <<client, conn, outstanding, control, frontend, fatal>>

\* api_send_sse_headers: a streaming response becomes chunked once its head is
\* buffered.
EngineStream ==
    /\ epc = "run" /\ ~conn[current].chunked
    /\ LET k == Append1(conn[current])
       IN  conn' = [conn EXCEPT ![current] = [k EXCEPT !.chunked = ~k.failed]]
    /\ UNCHANGED <<client, queue, outstanding, control, frontend, engine>>

\* A token's bytes of a streaming response; a rejected append ends the generation.
EngineToken ==
    /\ epc = "run" /\ conn[current].chunked /\ ~conn[current].failed
    /\ conn' = [conn EXCEPT ![current] = Append1(@)]
    /\ UNCHANGED <<client, queue, outstanding, control, frontend, engine>>

\* handle_chat_completions ends: the completion, the end of the stream or an
\* error is appended, whether or not the client is still there.  Its status
\* is an error the engine cannot survive, or FG_OK.
EngineFinish ==
    /\ epc = "run"
    /\ conn' = [conn EXCEPT ![current] = Append1(@)]
    /\ fatal' \in BOOLEAN
    /\ epc' = "complete"
    /\ UNCHANGED <<client, queue, outstanding, control, frontend, current>>

\* api_connection_complete_response up to the store of response_complete.  A
\* popped request whose client is gone closes in any case.  (What the front-end
\* can do between the unlock and the store, flush and notice a disconnect, it
\* can do after the store with the same result.)
EngineComplete ==
    /\ epc = "complete"
    /\ conn' = [conn EXCEPT ![current] = CompleteResponse(@, ~@.keepAlive)]
    /\ epc' = "wake"
    /\ UNCHANGED <<client, queue, outstanding, control, frontend, current, fatal>>

\* api_frontend_wake(conn->frontend), the engine's last read of the
\* connection; then api_engine_queue_complete and the test of the status.
EngineRelease ==
    /\ epc = "wake"
    /\ outstanding' = IF outstanding > 0 THEN outstanding - 1 ELSE 0
    /\ current' = None
    /\ epc' = IF fatal THEN "stop" ELSE "pop"
    /\ fatal' = FALSE
    /\ UNCHANGED <<client, conn, queue, control, frontend>>

\* The loop ends on api_stop_requested, which api_signal_handler may set at any
\* time.  (Its other effect, an early end of the generation, is a choice of
\* EngineFinish.)
EngineLeave ==
    /\ epc = "pop"
    /\ epc' = "stop"
    /\ UNCHANGED <<client, conn, queue, outstanding, control, frontend, current, fatal>>

\* api_engine_queue_stop.
EngineStopQueue ==
    /\ epc = "stop"
    /\ stopping' = TRUE
    /\ epc' = "stopfront"
    /\ UNCHANGED <<client, conn, queue, outstanding, frontStopping,
                   frontend, current, fatal>>

\* api_frontend_stop, up to its pthread_join.
EngineStopFrontend ==
    /\ epc = "stopfront"
    /\ frontStopping' = TRUE
    /\ epc' = "join"
    /\ UNCHANGED <<client, conn, queue, outstanding, stopping,
                   frontend, current, fatal>>

\* The join, and api_engine_queue_destroy of what was never popped.
EngineJoin ==
    /\ epc = "join" /\ fpc = "exit"
    /\ queue' = <<>>
    /\ epc' = "done"
    /\ UNCHANGED <<client, conn, outstanding, control, frontend, current, fatal>>
-----------------------------------------------------------------------------
ClientNext ==
    \E c \in Conns : ClientConnect(c) \/ ClientSend(c) \/ ClientClose(c)

FrontendNext ==
    \/ FrontendPoll \/ FrontendSweep \/ FrontendExit
    \/ \E c \in Conns : FrontendDetect(c) \/ FrontendRead(c) \/ FrontendQuiet(c)

EngineNext ==
    \/ EnginePop \/ EngineFinish \/ EngineComplete \/ EngineRelease
    \/ EngineStopQueue \/ EngineStopFrontend \/ EngineJoin

Next == ClientNext \/ FrontendNext \/ EngineNext
        \/ EngineStream \/ EngineToken \/ EngineLeave

\* Both threads always run on (pop_wait and poll have timeouts), a generation
\* ends (max_tokens bounds it), and a client that stays connected drains its
\* responses.  Clients and the signal owe nothing.
Fairness ==
    /\ WF_vars(FrontendNext)
    /\ WF_vars(EngineNext)
    /\ \A c \in Conns : SF_vars(FlushAll(c))

Spec == Init /\ [][Next]_vars /\ Fairness
-----------------------------------------------------------------------------
(* Properties. *)

\* Every field of api_connection, the queue and the two threads keeps its type; the
\* output buffer holds at most the limit and one closing unit (api_connection_append).
TypeOK ==
    /\ client \in [Conns -> [mode : {"none", "open", "half", "closed"},
                             sock : Seq(Kinds), left : 0..Requests]]
    /\ conn \in [Conns -> [st : {"new", "open", "freed"}, generating : BOOLEAN,
                           peerClosed : BOOLEAN, keepAlive : BOOLEAN,
                           input : Seq(Kinds), out : 0..(OutputLimit + 1),
                           chunked : BOOLEAN, complete : BOOLEAN,
                           closeAfter : BOOLEAN, failed : BOOLEAN,
                           gone : BOOLEAN, lost : BOOLEAN]]
    /\ queue \in Seq(Conns) /\ outstanding \in Nat
    /\ {stopping, frontStopping, fatal} \subseteq BOOLEAN
    /\ fpc \in {"poll", "service", "exit"}
    /\ todo \subseteq Conns
    /\ epc \in {"pop", "run", "complete", "wake", "stop",
                "stopfront", "join", "done"}
    /\ current \in Conns \cup {None}

\* The engine works on its connection, from pop until response_complete is
\* published.
Serving == epc \in {"run", "complete"}

\* Admission control (api_engine_queue_try_push, cancel, pop, complete): the
\* counter is exactly the requests waiting plus the one the engine has not
\* released, however disconnects, cancellations and pops interleave, and never
\* exceeds the capacity.
AdmissionExact ==
    /\ outstanding <= Capacity
    /\ epc # "done" =>
          outstanding = Len(queue) + (IF current = None THEN 0 ELSE 1)

\* Ownership: a connection that waits in the queue or is being served is
\* allocated, is marked as the engine's, has no published response, and is
\* admitted once.  The front-end may neither free it nor start another request
\* on it.
EngineOwnsItsConnections ==
    epc # "done" /\ fpc # "exit" =>
      /\ \A i \in DOMAIN queue :
            /\ conn[queue[i]].st = "open" /\ conn[queue[i]].generating
            /\ ~conn[queue[i]].complete
            /\ Serving => queue[i] # current
            /\ \A j \in DOMAIN queue : queue[i] = queue[j] => i = j
      /\ Serving => /\ conn[current].st = "open" /\ conn[current].generating
                    /\ ~conn[current].complete

\* A request starts clean: no bytes, chunk framing, failure mark or close
\* order of an earlier response on a keep-alive connection reaches the next
\* one.
CleanBetweenRequests ==
    \A c \in Live :
       ~conn[c].generating /\ ~conn[c].complete /\ ~conn[c].gone =>
          /\ conn[c].out = 0
          /\ ~conn[c].chunked /\ ~conn[c].failed /\ ~conn[c].closeAfter

\* A connection is kept for another request only when its whole response was
\* delivered: nothing was dropped by a full buffer and nothing is still to be
\* flushed.
ReusesWhole ==
    \A c \in Conns :
       conn[c].st = "open" /\ conn[c].complete /\ conn'[c].st = "open" /\ ~conn'[c].complete
       => ~conn[c].lost /\ conn[c].out = 0
ReuseOnlyWhole == [][ReusesWhole]_vars

\* What a kept connection carries from one request to the next: nothing.
ReuseIsClean == []CleanBetweenRequests /\ ReuseOnlyWhole

\* Every admitted request is completed, unless the server shuts down and frees
\* the connection.
Completed(c) == conn[c].complete \/ conn[c].st = "freed"
AdmittedIsCompleted == \A c \in Conns : Queued(c) ~> Completed(c)

\* A signal or a fatal error shuts the server down: both threads end and every connection is
\* freed.
Down == epc = "done" /\ Live = {}
StopTerminates == epc = "stop" ~> Down

\* A client that left while the engine was not working for it is noticed: its
\* connection is freed, or a request it had sent before is admitted.
Deserted(c) == conn[c].st = "open" /\ client[c].mode = "closed" /\ ~conn[c].generating
Noticed(c) == conn[c].st = "freed" \/ conn[c].generating
ClosedIsNoticed == \A c \in Conns : Deserted(c) ~> Noticed(c)
-----------------------------------------------------------------------------
(* What comments and documents of the repository say of the program and the   *)
(* code does not do.                                                          *)

\* "engine finished; front-end owns it again" (api.c:3703): once the front-end
\* may free a connection the engine does not touch it.
EngineTouchesLive == epc = "wake" => conn[current].st = "open"

\* "Idle connections are reaped after 120 s" (docs/API_CONCURRENCY.md:84): the
\* connection of a client that left is eventually freed.
ClosedIsFreed ==
    \A c \in Conns :
       (conn[c].st = "open" /\ client[c].mode = "closed") ~> conn[c].st = "freed"

\* "pipelined bytes are read after it completes" (api.c:3750): a request that
\* waits behind another on a kept connection is eventually taken up.
PipelinedIsServed ==
    \A c \in Conns :
       (conn[c].st = "open" /\ conn[c].input # <<>>)
          ~> \/ conn[c].st = "open" /\ conn[c].input = <<>>
             \/ client[c].mode # "open" \/ conn[c].gone \/ conn[c].closeAfter
             \/ epc = "done"

\* "client half-closed; flush then close" (api.c:170): a connection whose
\* client still reads is not freed with response bytes unsent, save on
\* shutdown.
FlushThenClose ==
    [][\A c \in Conns :
          conn[c].st = "open" /\ conn'[c].st = "freed" /\ conn[c].complete
             /\ client[c].mode = "half" /\ ~frontStopping
          => conn[c].out = 0]_vars

\* Admission and ownership: an admitted connection is counted once, is allocated
\* and stays the engine's until it is released (admission_mutex, engine_owned).
AdmissionInv == TypeOK /\ AdmissionExact /\ EngineOwnsItsConnections
=============================================================================

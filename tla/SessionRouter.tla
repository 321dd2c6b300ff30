---------------------------- MODULE SessionRouter ----------------------------
(***************************************************************************)
(* Which of two resident conversations a request takes over: the scan of   *)
(* the admission queue in api_pipeline_engine and api_session_select       *)
(* (src/src/api.c).  A conversation is the sequence of its messages; what  *)
(* the choice sees of a message is whether it equals another, whether it   *)
(* is a system message, and its size in bytes.  Only text is modelled:     *)
(* requests with images are matched by the whole prefix                    *)
(* (Continuation.SessionPrefix).                                           *)
(*                                                                         *)
(* One iteration of the engine is a turn of one job and then one scan,     *)
(* which starts at most one request.                                       *)
(***************************************************************************)
EXTENDS Integers, Sequences, FiniteSets, SequencesExt, FiniteSetsExt

CONSTANTS
    Asked,      \* bound: requests ever made, numbered 1..Asked
    Texts,      \* transcripts a client may send, sequences of messages
    System,     \* the messages with the system role
    Bytes,      \* the size of each message
    Reply,      \* the answer of the model, a message
    Capacity,   \* FG_API_ENGINE_QUEUE_CAPACITY
    MayGarble,  \* whether clients send bodies that cannot be parsed
    MayLeave,   \* whether clients leave before their request is started
    MaxFaults   \* bound: ring faults

\* What the constants of every instance satisfy.
SessionRouterAssumption ==
    /\ {Asked, Capacity} \subseteq Nat \ {0} /\ MaxFaults \in Nat
    /\ {MayGarble, MayLeave} \subseteq BOOLEAN
    /\ \A t \in Texts : \A k \in DOMAIN t : Bytes[t[k]] \in Nat
    /\ Bytes[Reply] \in Nat

VARIABLES
    body,     \* body[r]: what request r carries; Unsent before it is made
    queue,    \* queue->entries, oldest first
    running,  \* running[i]: the request of slot i, NoId when it is not active
    session,  \* session[i]: jobs[i].public_session, NoSession when not valid
    used,     \* used[i]: jobs[i].used
    answered, \* requests whose response is complete
    faults,   \* ring faults so far
    epc       \* engine: "turn" or "scan"

vars == <<body, queue, running, session, used, answered, faults, epc>>

Ids       == 1..Asked
Slots     == {0, 1}
Other(i)  == 1 - i
NoId      == 0
\* A body the front end could not parse has a NULL routing.
Unsent     == <<"unsent">>
NoSession  == <<"no session">>
Unreadable == <<"unreadable">>
Wait      == 2
Bodies    == Texts \cup (IF MayGarble THEN {Unreadable} ELSE {})

-----------------------------------------------------------------------------
\* api_transcript_bytes
TranscriptBytes(t) ==
    IF t = Unreadable THEN 0 ELSE FoldSeq(LAMBDA m, sum : sum + Bytes[m], 0, t)

\* The messages after fg_chat_leading_system_count of them.
Dialogue(t) ==
    LET lead == Max({k \in 0..Len(t) : \A j \in 1..k : t[j] \in System})
    IN  SubSeq(t, lead + 1, Len(t))

\* api_session_match_bytes
MatchBytes(old, asked) ==
    IF NoSession = old \/ asked = Unreadable THEN 0
    ELSE LET shared == LongestCommonPrefix({Dialogue(old), Dialogue(asked)})
         IN  IF shared = <<>> THEN 0 ELSE TranscriptBytes(shared) + Len(shared)

Active(i) == running[i] # NoId

\* api_session_routing_view: a busy slot is what it was asked, whatever it holds.
View(i) == IF Active(i) /\ body[running[i]] # Unreadable
           THEN body[running[i]] ELSE session[i]

Valid(i) == View(i) # NoSession
Size(i)  == IF Valid(i) THEN TranscriptBytes(View(i)) ELSE 0

\* The slot with the longest match, the loop over both; Wait when none matches.
Best(asked) ==
    LET m == [i \in Slots |-> MatchBytes(View(i), asked)]
    IN  IF m[0] = 0 /\ m[1] = 0 THEN Wait
        ELSE IF m[1] > m[0] \/ (m[1] = m[0] /\ \/ Size(1) < Size(0)
                                               \/ Size(1) = Size(0) /\ Active(0) /\ ~Active(1))
             THEN 1 ELSE 0

\* Mutant: age alone decides.
SparesNever(i, asked) == FALSE

\* Mutant: every longer conversation is left alone.
SparesAlways(i, asked) == Size(i) > TranscriptBytes(asked)

\* A slot a request of this size leaves alone: the other conversation is shorter.
Spares(i, asked) ==
    /\ Size(i) > TranscriptBytes(asked)
    /\ Valid(Other(i))
    /\ Size(Other(i)) < Size(i)

\* The slot to evict: the least recently used of those that may be.
Victim(asked) ==
    LET free == {i \in Slots : ~Active(i) /\ ~Spares(i, asked)}
    IN  IF free = {} THEN Wait
        ELSE CHOOSE i \in free : \A j \in free : used[i] < used[j] \/ (used[i] = used[j] /\ i <= j)

\* api_session_select
Select(asked) ==
    LET best == Best(asked)
        free == {i \in Slots : ~Active(i) /\ ~Valid(i)}
    IN  IF best # Wait THEN IF Active(best) THEN Wait ELSE best
        ELSE IF free # {} THEN Min(free) ELSE Victim(asked)

-----------------------------------------------------------------------------
Init ==
    /\ body = [r \in Ids |-> Unsent] /\ queue = <<>>
    /\ running = [i \in Slots |-> NoId]
    /\ session = [i \in Slots |-> NoSession]
    /\ used = [i \in Slots |-> 0]
    /\ answered = {} /\ faults = 0 /\ epc = "turn"

\* api_engine_queue_try_push: the next request, if there is room for it.
Arrive ==
    \E r \in Ids, t \in Bodies :
        /\ body[r] = Unsent /\ \A q \in 1..(r - 1) : body[q] # Unsent
        /\ Len(queue) + Cardinality({i \in Slots : Active(i)}) < Capacity
        /\ body' = [body EXCEPT ![r] = t]
        /\ queue' = Append(queue, r)
        /\ UNCHANGED <<running, session, used, answered, faults, epc>>

Clock == Max({used[0], used[1]})

\* A turn in which the job of slot i ends: answered and stored, failed with the
\* session gone, or ended before it touched it (its client left, bad body).
Finish(i) ==
    /\ epc = "turn" /\ Active(i)
    /\ LET asked == body[running[i]] IN
        /\ \E kept \in IF asked = Unreadable THEN {session[i]}
                       ELSE {Append(asked, Reply), NoSession} \cup
                            (IF MayLeave THEN {session[i]} ELSE {}) :
               session' = [session EXCEPT ![i] = kept]
        /\ running' = [running EXCEPT ![i] = NoId]
        /\ answered' = answered \cup {running[i]}
        /\ used' = [used EXCEPT ![i] = Clock + 1]
        /\ epc' = "scan"
        /\ UNCHANGED <<body, queue, faults>>

\* A turn after which the job of slot i goes on; a body that cannot be read is
\* refused in its first turn.
Yield(i) ==
    /\ epc = "turn" /\ Active(i) /\ body[running[i]] # Unreadable
    /\ epc' = "scan"
    /\ UNCHANGED <<body, queue, running, session, used, answered, faults>>

\* No job is active: the iteration goes straight to the scan.
Idle ==
    /\ epc = "turn" /\ \A i \in Slots : ~Active(i)
    /\ epc' = "scan"
    /\ UNCHANGED <<body, queue, running, session, used, answered, faults>>

\* The ring is lost: both jobs end and recovery forgets both conversations.
Fault ==
    /\ epc = "turn" /\ faults < MaxFaults
    /\ faults' = faults + 1
    /\ answered' = answered \cup {running[i] : i \in {j \in Slots : Active(j)}}
    /\ running' = [i \in Slots |-> NoId]
    /\ session' = [i \in Slots |-> NoSession]
    /\ used' = [i \in Slots |-> IF Active(i) THEN Clock + 1 + (IF Active(0) THEN i ELSE 0)
                                ELSE used[i]]
    /\ UNCHANGED <<body, queue, epc>>

\* The scan starts the first queued request that has a slot.
Scan ==
    /\ epc = "scan" /\ epc' = "turn"
    /\ LET ready == {k \in DOMAIN queue : Select(body[queue[k]]) # Wait} IN
        IF ready = {} THEN UNCHANGED <<queue, running>>
        ELSE LET k == Min(ready) IN
             /\ running' = [running EXCEPT ![Select(body[queue[k]])] = queue[k]]
             /\ queue' = RemoveAt(queue, k)
    /\ UNCHANGED <<body, session, used, answered, faults>>

\* Everything has been asked and answered.
Over ==
    /\ answered = Ids
    /\ UNCHANGED vars

Next ==
    \/ Arrive \/ Idle \/ Fault \/ Scan \/ Over
    \/ \E i \in Slots : Finish(i) \/ Yield(i)

\* The engine loop keeps running (Scan is the one step out of "scan") and a job
\* ends after finitely many turns.
Scanned == epc = "scan" /\ epc' = "turn"
Spec == Init /\ [][Next]_vars /\ WF_vars(Idle) /\ WF_epc(Scanned)
             /\ \A i \in Slots : SF_vars(Finish(i))

-----------------------------------------------------------------------------
(* Types: every queued, running and answered request has been made, and once. *)
TypeOK ==
    /\ body \in [Ids -> Bodies \cup {Unsent}]
    /\ running \in [Slots -> Ids \cup {NoId}]
    /\ ToSet(queue) \cup {running[i] : i \in Slots} \cup answered \subseteq Ids \cup {NoId}
    /\ Cardinality(ToSet(queue)) + Cardinality({i \in Slots : Active(i)}) + Cardinality(answered)
         = Cardinality({r \in Ids : body[r] # Unsent})

(* "A busy best-prefix match waits instead of duplicating resident state": the
   two slots, by what runs in them or what they hold, never share the client's
   first words (api_session_select, api_session_routing_view).  A conversation of
   instructions alone has no such words. *)
NeverTwice ==
    LET words(i) == Dialogue(View(i))
    IN  /\ Valid(0) /\ words(0) # <<>> /\ Head(words(0)) # Reply
        /\ Valid(1) /\ words(1) # <<>>
        => Head(words(0)) # Head(words(1))

(* "Exact prefix reuse works ... including side requests between agent turns": a
   request that continues a resident conversation word for word is never started
   in a slot that holds another one. *)
StartsAtHome ==
    \A i, j \in Slots :
       /\ running[i] = NoId /\ running'[i] # NoId /\ j # i
       /\ session[j] # NoSession /\ ~Active(j)
       /\ body[running'[i]] # Unreadable
       /\ Dialogue(session[j]) # <<>>
       /\ session[i] = NoSession \/ ~IsPrefix(Dialogue(session[i]), Dialogue(body[running'[i]]))
       => ~IsPrefix(Dialogue(session[j]), Dialogue(body[running'[i]]))
ComesHome == [][StartsAtHome]_vars

(* "A short request waits for a free/shorter slot rather than evicting a longer
   conversation": an idle conversation longer than everything unrelated to it
   that runs or is asked outlives every step but the loss of the ring and the
   start of a request that continues it. *)
SparesLongest ==
    \A i \in Slots :
       /\ session[i] # NoSession /\ ~Active(i) /\ faults' = faults
       /\ running'[i] # NoId /\ body[running'[i]] # Unreadable
       /\ \A r \in Ids : body[r] \in Texts /\ MatchBytes(session[i], body[r]) = 0
              => TranscriptBytes(body[r]) + Bytes[Reply] < TranscriptBytes(session[i])
       => MatchBytes(session[i], body[running'[i]]) # 0
LongestSurvives == [][SparesLongest]_vars

(* Whatever waits in the queue is started and answered: no choice of slots makes
   a request wait for a slot that never qualifies. *)
Answered ==
    \A r \in Ids : (body[r] # Unsent) ~> (r \in answered)

=============================================================================

---------------------------- MODULE Continuation ----------------------------
(***************************************************************************)
(* A conversation that is continued instead of read again.  The client     *)
(* sends its whole transcript with every request; the server compares it   *)
(* with the public session it stored (api_public_session_prefix in         *)
(* src/src/api.c) and, when the stored one is a prefix, gives the model    *)
(* only what is new: the new messages, and a block that says how the tools *)
(* and the system instructions changed (src/src/chat.c).  The question is  *)
(* whether the model then knows what the full rendering would have told it.*)
(*                                                                         *)
(* A message's text is a word and whether white space surrounds it; an     *)
(* image is its digest.  A tool schema is a name and a definition.  The    *)
(* context is the sequence of blocks the model has read.                   *)
(***************************************************************************)
EXTENDS Integers, Sequences, SequencesExt, FiniteSetsExt

CONSTANTS
    SystemRuns,  \* the words of the leading system messages a client may send
    ToolLists,   \* the schemas it may declare, as sequences of records
    ToolChoices, \* "auto", "none", "required", or a function's name
    Edits,       \* what a client may do to its own transcript, see Edited
    Inputs,      \* the messages it may add to it, as records
    Outcomes,    \* "text", "call", "miss" (the runtime lost its prefix), "fail"
    Turns        \* bound: requests of a conversation

\* What the constants of every instance satisfy.
ContinuationAssumption == Turns \in Nat \ {0}

VARIABLES
    chat,     \* the client's transcript, without its leading system messages
    session,  \* api_public_session
    context,  \* what the resident state of the runtime has read
    asked, prompt,  \* the last request that reached the model, and what it read
    turn

vars == <<chat, session, context, asked, prompt, turn>>

\* fg_chat_message.
Message(role, word) ==
    [role |-> role, word |-> word, pad |-> FALSE, media |-> <<>>, calls |-> <<>>, tid |-> "none"]
NoSession ==
    [valid |-> FALSE, messages |-> <<>>, tools |-> <<>>, choice |-> "auto", media |-> <<>>]
Blank == ""

Names(tools) == {s.name : s \in Range(tools)}
Drop(s, n)   == SubSeq(s, n + 1, Len(s))
\* The media of a list of messages, in order.
Media(ms)    == FoldLeft(LAMBDA acc, m : acc \o m.media, <<>>, ms)
-----------------------------------------------------------------------------
(* Requests. *)

\* parse_tools and parse_tool_choice.
ToolsAccepted(req) ==
    /\ Cardinality(Names(req.tools)) = Len(req.tools)
    /\ req.choice \notin {"auto", "none"} => req.tools # <<>>
    /\ req.choice \notin {"auto", "none", "required"} => req.choice \in Names(req.tools)

\* validate_tool_associations: a call id is used once, a result answers an
\* earlier call, and no call is answered twice.
AssociationsSound(ms) ==
    \A i \in 1..Len(ms) :
        /\ \A j \in 1..Len(ms[i].calls) :
               /\ \A k \in 1..(i - 1) : ms[i].calls[j] \notin Range(ms[k].calls)
               /\ \A k \in 1..(j - 1) : ms[i].calls[k] # ms[i].calls[j]
        /\ ms[i].tid # "none" =>
               /\ \E k \in 1..(i - 1) : ms[i].tid \in Range(ms[k].calls)
               /\ \A k \in 1..(i - 1) : ms[k].tid # ms[i].tid

\* parse_chat_request.
Accepted(req) ==
    /\ ToolsAccepted(req)
    /\ req.messages # <<>>
    /\ \A m \in Range(req.messages) : (m.role = "tool") <=> (m.tid # "none")
    /\ AssociationsSound(req.messages)
-----------------------------------------------------------------------------
(* The stored session as a prefix of a request. *)

\* fg_chat_leading_system_count.
Leading(ms) ==
    LET rest == {i \in 1..Len(ms) : ms[i].role # "system"}
    IN  IF rest = {} THEN Len(ms) ELSE Min(rest) - 1

\* api_message_equal; the content is compared without surrounding white space,
\* and holds a marker for every image.
SameMessage(a, b) ==
    /\ a.role = b.role /\ a.word = b.word /\ Len(a.media) = Len(b.media)
    /\ a.tid = b.tid /\ a.calls = b.calls

\* The stored images are the first of the request, byte for byte.
SameMedia(media, req) == IsPrefix(media, Media(req.messages))

\* api_public_session_prefix.
SessionPrefix(req) ==
    LET old == Leading(session.messages)
        new == Leading(req.messages)
        kept == Len(session.messages) - old
        clean(ms, n) == \A i \in 1..n : ms[i].media = <<>>
    IN  /\ session.valid
        /\ Len(req.messages) >= Len(session.messages)
        /\ Len(req.messages) - new >= kept
        /\ clean(session.messages, old) /\ clean(req.messages, new)
        /\ \A i \in 1..kept : SameMessage(session.messages[old + i], req.messages[new + i])
        /\ Len(Media(Drop(session.messages, old))) = Len(session.media)
        /\ SameMedia(session.media, req)
-----------------------------------------------------------------------------
(* Rendering.  A block is a record; what it holds depends on its kind. *)

\* append_leading_system_text: the instructions that are not blank, in order.
SystemText(ms) ==
    SelectSeq([i \in 1..Leading(ms) |-> ms[i].word], LAMBDA w : w # Blank)

\* append_message, and the tool results of chat_render.
Turn(m) == [kind |-> "turn", role |-> m.role, word |-> m.word, media |-> m.media,
            calls |-> m.calls, tid |-> m.tid]
Rendered(ms) == [i \in 1..Len(ms) |-> Turn(ms[i])]

\* append_tools_prompt: all schemas, the protocol and the choice.
ToolsPrompt(tools, choice) == [kind |-> "tools", tools |-> Range(tools), choice |-> choice]

\* fg_chat_render: tools and instructions at the head, then every message.
Render(req) ==
    (IF req.tools = <<>> THEN <<>> ELSE <<ToolsPrompt(req.tools, req.choice)>>)
    \o (IF SystemText(req.messages) = <<>> THEN <<>>
        ELSE <<[kind |-> "system", text |-> SystemText(req.messages)]>>)
    \o Rendered(Drop(req.messages, Leading(req.messages)))

\* tool_metadata_equal: schemas in any order, and the choice with its name.
SameTools(req) == session.choice = req.choice /\ Range(session.tools) = Range(req.tools)

\* The functions a tool update says are no longer available.
Removed(req) == Names(session.tools) \ Names(req.tools)

\* The choice a tool update states, if it changed.
SaidChoice(req) == IF session.choice = req.choice THEN "same" ELSE req.choice

\* fg_chat_render_tool_update.
ToolUpdate(req) ==
    IF SameTools(req) \/ (session.tools = <<>> /\ req.tools = <<>>) THEN <<>>
    ELSE IF session.tools = <<>> THEN <<ToolsPrompt(req.tools, req.choice)>>
    ELSE IF req.tools = <<>> THEN <<ToolsPrompt(<<>>, "auto")>>
    ELSE <<[kind |-> "update", added |-> Range(req.tools) \ Range(session.tools),
            removed |-> Removed(req), choice |-> SaidChoice(req)]>>

\* fg_chat_render_system_update: the new instructions replace the old.
SystemUpdate(req) ==
    IF SystemText(session.messages) = SystemText(req.messages) THEN <<>>
    ELSE <<[kind |-> "system", text |-> SystemText(req.messages)]>>


\* Messages of the request that the model has read, given the stored session.
Skip(req) == Len(session.messages) + Leading(req.messages) - Leading(session.messages)

\* The continuation of handle_chat_completions.
Continued(req) == SystemUpdate(req) \o ToolUpdate(req) \o Rendered(Drop(req.messages, Skip(req)))
-----------------------------------------------------------------------------
(* What a model that has read a context knows: the tools it may call, the   *)
(* choice, its instructions, and the conversation.                          *)

Untold == [tools |-> {}, choice |-> "auto", system |-> <<>>, log |-> <<>>]

Knows(blocks) ==
    FoldLeft(LAMBDA k, b :
        CASE b.kind = "tools" -> [k EXCEPT !.tools = b.tools, !.choice = b.choice]
          [] b.kind = "update" ->
               [k EXCEPT !.tools = {s \in @ : s.name \notin b.removed \cup {a.name : a \in b.added}}
                                   \cup b.added,
                         !.choice = IF b.choice = "same" THEN @ ELSE b.choice]
          [] b.kind = "system" -> [k EXCEPT !.system = b.text]
          [] OTHER -> [k EXCEPT !.log = Append(@, b)],
        Untold, blocks)
-----------------------------------------------------------------------------
\* What a client does to its transcript before it asks again.
Edited(e, c) ==
    CASE e = "none" -> c
      [] e = "pad"  -> [i \in 1..Len(c) |-> [c[i] EXCEPT !.pad = ~@]]
      [] e = "edit" -> [i \in 1..Len(c) |-> IF i = 1 THEN [c[1] EXCEPT !.word = "edited"] ELSE c[i]]
      [] e = "swap" -> [i \in 1..Len(c) |->
                            [c[i] EXCEPT !.media = [k \in DOMAIN @ |-> "other"]]]
      [] OTHER -> SubSeq(c, 1, Len(c) - 2)  \* "drop": back to an earlier turn

Init ==
    /\ chat = <<>>
    /\ session = NoSession
    /\ context = <<>> /\ prompt = <<>>
    /\ asked = NoSession
    /\ turn = 0

\* The ids tool_call_id gives to the calls of a turn's answer.
CallIds(n) == IF n = 1 THEN <<"c1">> ELSE IF n = 2 THEN <<"c2">> ELSE <<"c3">>

Answer(outcome) ==
    IF outcome = "call" THEN [Message("assistant", Blank) EXCEPT !.calls = CallIds(turn + 1)]
    ELSE Message("assistant", "reply")

\* api_public_session_build, if the answer was sent.
Stored(req, reply) ==
    [valid |-> TRUE, messages |-> Append(req.messages, reply), tools |-> req.tools,
     choice |-> req.choice, media |-> Media(req.messages)]

\* handle_chat_completions: a request that is not accepted changes nothing; a
\* session that is no prefix is dropped with the runtime's history, as is one
\* the runtime cannot continue; an answer that fails resets both.
Ask(run, tools, choice, e, input, outcome) ==
    /\ turn < Turns
    /\ \E body \in {Edited(e, chat) \o input} :
       \E req \in {[messages |-> [i \in 1..Len(run) |-> Message("system", run[i])] \o body,
                    tools |-> tools, choice |-> choice]} :
       \E ok \in {Accepted(req)} :
       \E read \in {IF ~ok THEN <<>>
                    ELSE IF SessionPrefix(req) /\ outcome # "miss" THEN context \o Continued(req)
                    ELSE Render(req)} :
       LET done  == ok /\ outcome # "fail"
           reply == Answer(outcome)
       IN  /\ chat' = IF done THEN Append(body, reply) ELSE body
           /\ session' = IF done THEN Stored(req, reply) ELSE IF ok THEN NoSession ELSE session
           /\ context' = IF done THEN Append(read, Turn(reply)) ELSE IF ok THEN <<>> ELSE context
           /\ asked' = IF ok THEN req ELSE asked
           /\ prompt' = IF ok THEN read ELSE prompt
    /\ turn' = turn + 1

Over == turn = Turns /\ UNCHANGED vars

Next ==
    \/ \E run \in SystemRuns, tools \in ToolLists, choice \in ToolChoices, e \in Edits,
          input \in Inputs, outcome \in Outcomes : Ask(run, tools, choice, e, input, outcome)
    \/ Over

Spec == Init /\ [][Next]_vars
-----------------------------------------------------------------------------
(* Properties. *)

\* The stored session is a transcript the server would accept again, with the
\* images its messages mark (api_public_session_build).
TypeOK ==
    /\ turn \in 0..Turns
    /\ session.valid => /\ AssociationsSound(session.messages)
                        /\ session.media = Media(session.messages)

\* After any sequence of continuations and resets the model knows exactly what
\* the full rendering of the request would tell it: the tools, the choice, the
\* instructions, and the conversation with its images (api_public_session_prefix,
\* fg_chat_render_tool_update, fg_chat_render_system_update).
KnowsRequest == turn > 0 => Knows(prompt) = Knows(IF asked = NoSession THEN <<>> ELSE Render(asked))

\* What the runtime keeps resident is the stored session: neither outlives the
\* other, whichever way a request ended.
ResidentIsStored ==
    IF session.valid THEN Knows(context).log = Rendered(Drop(session.messages, Leading(session.messages)))
    ELSE context = <<>>

\* An exact echo with anything new is continued, whatever became of the
\* instructions, as long as the transcript is not shorter than the stored one
\* (docs/TOOL_CONTINUATION.md; api_public_session_prefix).
EchoContinues ==
    session.valid /\ chat = Drop(session.messages, Leading(session.messages)) =>
        \A run \in SystemRuns, input \in Inputs :
            LET system == [i \in 1..Len(run) |-> Message("system", run[i])]
                req == [messages |-> system \o chat \o input, tools |-> <<>>, choice |-> "auto"]
            IN  Len(run) + Len(input) >= Leading(session.messages) => SessionPrefix(req)

=============================================================================

----------------------------- MODULE ChatStream -----------------------------
(***************************************************************************)
(* The two ways a generated answer reaches the client.  A streaming        *)
(* request turns every token into deltas as it arrives (api_token,         *)
(* stream_reasoning, queue_visible_content in src/src/api.c) and so must   *)
(* decide, with only a part of the text in hand, what is reasoning, what   *)
(* is content and what is a tool call.  At the end the whole text is       *)
(* parsed (fg_chat_parse_generated in src/src/chat.c); the parse is what a *)
(* non-streaming request answers and what the public session stores.       *)
(*                                                                         *)
(* A text is a sequence of symbols.  A marker is "<" and a second symbol,  *)
(* so that a token may end inside it; "=" is a function's name with its    *)
(* parameters and closing tag; "h" and "t" are the two bytes of one        *)
(* character.  "_" and "n" are white space, "n" a line break.              *)
(***************************************************************************)
EXTENDS Integers, Sequences, SequencesExt, FiniteSetsExt

CONSTANTS
    Tokens,      \* the texts one token may decode to
    MaxTokens,   \* bound: tokens of a generated text
    ToolChoices, \* tool_choice of the request, "undeclared" when it lists no tool
    Streams,     \* the values of the request's `stream'
    ThinkModes   \* whether the prompt leaves the think block open

\* What the constants of every instance satisfy.
ChatStreamAssumption == MaxTokens \in Nat /\ ThinkModes \cup Streams \subseteq BOOLEAN

VARIABLES
    choice, thinking, stream,  \* the request
    left,              \* tokens the model may still generate
    g,                 \* api_generation
    out,               \* what the client has read: both channels, the calls, and
                       \* whether reasoning came after anything else
    phase              \* "running"; "ended" with [DONE]; "failed" with an error
                       \* event; "cut" without either

vars == <<choice, thinking, stream, left, g, out, phase>>

ThinkOpen  == <<"<", "T">>
ThinkClose == <<"<", "/T">>
ToolStart  == <<"<", "C">>
ToolEnd    == <<"<", "/C">>
EndMarker  == <<"<", "E">>
FnStart    == <<"<", "f", "=">>
FnPrefix   == <<"<", "f">>
-----------------------------------------------------------------------------
(* Text. *)

Space(c) == c \in {"_", "n"}

\* strstr: where marker m first starts in s, 0 if nowhere.
Find(s, m) ==
    LET at == {i \in 1..(Len(s) - Len(m) + 1) : SubSeq(s, i, i + Len(m) - 1) = m}
    IN  IF at = {} THEN 0 ELSE Min(at)

FindLast(s, m) ==
    LET at == {i \in 1..(Len(s) - Len(m) + 1) : SubSeq(s, i, i + Len(m) - 1) = m}
    IN  IF at = {} THEN 0 ELSE Max(at)

StartsWith(s, m) == Len(s) >= Len(m) /\ SubSeq(s, 1, Len(m)) = m
Take(s, n)       == SubSeq(s, 1, n)
Drop(s, n)       == SubSeq(s, n + 1, Len(s))

\* Symbols of s before its trailing, or in its leading, run of the given class.
Trimmed(s)  == LET keep == {i \in 1..Len(s) : ~Space(s[i])}
               IN  Take(s, IF keep = {} THEN 0 ELSE Max(keep))
Blank(s)    == LET text == {i \in 1..Len(s) : ~Space(s[i])}
               IN  IF text = {} THEN Len(s) ELSE Min(text) - 1
Breaks(s)   == LET text == {i \in 1..Len(s) : s[i] # "n"}
               IN  IF text = {} THEN Len(s) ELSE Min(text) - 1

AfterBlank(s)  == Drop(s, Blank(s))
AfterBreaks(s) == Drop(s, Breaks(s))


\* marker_suffix: the longest proper prefix of m that s ends in.
MarkerSuffix(s, m) ==
    Max({0} \cup {k \in 1..(Len(m) - 1) : k <= Len(s) /\ Drop(s, Len(s) - k) = Take(m, k)})

ToolSyntaxSuffix(s) ==
    Max({MarkerSuffix(s, m) : m \in {ToolStart, ToolEnd, FnStart}})

\* range_has_tool_syntax: tool syntax starts within the first n symbols.
RangeHasToolSyntax(s, n) ==
    \E m \in {ToolStart, ToolEnd, FnPrefix} : Find(s, m) \in 1..n

\* range_has_qwen_tool_syntax, the parser's own list.
RangeHasQwenSyntax(s, n) ==
    \E m \in {ToolStart, ToolEnd, FnStart} : Find(s, m) \in 1..n

\* send_utf8_delta_channel: whole characters, U+FFFD for stray bytes, and an
\* incomplete character kept for the next delta.
Utf8(head, s) ==
    FoldLeft(LAMBDA a, c :
        LET lone == IF a.head THEN Append(a.text, "?") ELSE a.text
        IN  CASE c = "h" -> [text |-> lone, head |-> TRUE]
              [] c = "t" /\ a.head -> [text |-> Append(a.text, "u"), head |-> FALSE]
              [] c = "t" -> [text |-> Append(a.text, "?"), head |-> FALSE]
              [] OTHER -> [text |-> Append(lone, c), head |-> FALSE],
        [text |-> <<>>, head |-> head], s)

\* buffer_append_json_string of a whole text.
Json(s) == LET u == Utf8(FALSE, s) IN IF u.head THEN Append(u.text, "?") ELSE u.text
-----------------------------------------------------------------------------
(* The parser of a whole text. *)

\* parse_native_tool_call: symbols of the call s starts with, 0 if malformed.
CallLength(s) ==
    LET b == AfterBlank(Drop(s, Len(ToolStart)))
        d == AfterBlank(Drop(b, Len(FnStart)))
    IN  IF StartsWith(s, ToolStart) /\ StartsWith(b, FnStart) /\ StartsWith(d, ToolEnd)
        THEN Len(s) - Len(d) + Len(ToolEnd) ELSE 0

\* How many calls s consists of, white space between them; -1 if anything else
\* is there.
RECURSIVE CallsIn(_)
CallsIn(s) ==
    LET n == CallLength(s)
        r == AfterBlank(Drop(s, n))
        k == IF r = <<>> THEN 0 ELSE CallsIn(r)
    IN  IF n = 0 \/ k = -1 THEN -1 ELSE k + 1

Bad == [ok |-> FALSE, reasoning |-> <<>>, content |-> <<>>, calls |-> 0]

\* The text that is not reasoning: `n' symbols of content, then calls.
ParseCalls(reasoning, visible, n) ==
    LET calls == IF n = Len(visible) THEN 0 ELSE CallsIn(Drop(visible, n))
    IN  IF RangeHasQwenSyntax(visible, n) \/ calls = -1 THEN Bad
        ELSE [ok |-> TRUE, reasoning |-> reasoning, calls |-> calls,
              content |-> IF n = Len(visible) THEN visible ELSE Trimmed(Take(visible, n))]

\* Where the calls start, the end of the text if there are none.
BeforeCalls(s) == IF Find(s, ToolStart) = 0 THEN Len(s) ELSE Find(s, ToolStart) - 1
ParseVisible(reasoning, s) ==
    ParseCalls(reasoning, AfterBreaks(s), BeforeCalls(AfterBreaks(s)))

\* The text up to the end marker, without trailing white space.
Bounded(text) ==
    Trimmed(IF Find(text, EndMarker) = 0 THEN text ELSE Take(text, Find(text, EndMarker) - 1))

\* The first n symbols without the opening tag.
Reasoning(s, n) == SubSeq(s, IF StartsWith(s, ThinkOpen) THEN Len(ThinkOpen) + 1 ELSE 1, n)

\* The think block is closed by its last closing tag, or by a complete call.
ParseThink(s, close, tool) ==
    CASE close > 0 ->
           ParseVisible(Reasoning(s, close - 1), Drop(s, close + Len(ThinkClose) - 1))
      [] close = 0 /\ tool > 0 /\ Find(Drop(s, tool - 1), ToolEnd) > 0 ->
           ParseVisible(Reasoning(s, tool - 1), Drop(s, tool - 1))
      [] OTHER -> IF RangeHasQwenSyntax(s, Len(s)) THEN Bad
                  ELSE [ok |-> TRUE, reasoning |-> Reasoning(s, Len(s)),
                        content |-> <<>>, calls |-> 0]

ParseBounded(s, think) ==
    IF think THEN ParseThink(s, FindLast(s, ThinkClose), Find(s, ToolStart))
    ELSE ParseVisible(<<>>, s)
Parse(text, think) == ParseBounded(Bounded(text), think)

\* validate_generated_call, then validate_generated_tools.
CallAllowed == choice \notin {"none", "undeclared"}
ToolsAllowed(calls) == (choice = "required" => calls > 0) /\ (calls > 0 => CallAllowed)
-----------------------------------------------------------------------------
(* The emitter.  These operators take and return the pair of a generation  *)
(* and what was sent, with ok FALSE once a step has failed.                *)

\* send_content_delta.
SendContent(w, s) ==
    LET u == Utf8(w.g.head, s)
    IN  [w EXCEPT !.g.head = u.head, !.out.content = @ \o u.text]

\* send_reasoning_delta.
SendReasoning(w, s) ==
    LET u == Utf8(w.g.rhead, s)
    IN  [w EXCEPT !.g.rhead = u.head, !.out.reasoning = @ \o u.text,
                  !.out.late = @ \/ (u.text # <<>> /\ (w.out.content # <<>> \/ w.out.calls > 0))]

\* send_tool_call_delta.
SendCall(w) == [w EXCEPT !.g.calls = @ + 1, !.out.calls = @ + 1]

Failed(w) == [w EXCEPT !.ok = FALSE]
Stopped(w) == [w EXCEPT !.g.pending = <<>>, !.g.stopped = TRUE]
Consume(w, n) == [w EXCEPT !.g.pending = Drop(@, n)]

\* No call and no end marker in what is pending: everything is flushed but a
\* possible start of one, and the white space before it.
Flush(w, final) ==
    LET p == w.g.pending
        keepTool == ToolSyntaxSuffix(p)
        held == Take(p, Len(p) - Max({keepTool, MarkerSuffix(p, EndMarker)}))
        text == Trimmed(IF final THEN p ELSE held)
    IN  IF final /\ (RangeHasToolSyntax(p, Len(p)) \/ keepTool > 0) THEN Failed(w)
        ELSE Consume(SendContent(w, text), Len(text))

\* Content before a call or the end marker.
Prose(w, n) == Consume(SendContent(w, Trimmed(Take(w.g.pending, n))), n)

\* The loop of queue_visible_content.
RECURSIVE Drain(_, _)
Drain(w, final) ==
    LET p    == w.g.pending
        tool == Find(p, ToolStart)
        end  == Find(p, EndMarker)
        boundary == Min({Len(p)} \cup {i - 1 : i \in {tool, end} \ {0}})
        b    == Blank(p)
        rest == Drop(p, b)
        \* The call at the head of v's pending text.
        Call(v) ==
            LET q == v.g.pending
                close == Find(q, ToolEnd)
                n == close + Len(ToolEnd) - 1
            IN  IF close = 0 THEN IF final THEN Failed(v) ELSE v
                ELSE IF CallLength(Take(q, n)) # n \/ ~CallAllowed THEN Failed(v)
                ELSE Drain(Consume(SendCall(v), n), final)
    IN  IF p = <<>> THEN w
        ELSE IF RangeHasToolSyntax(p, boundary - ToolSyntaxSuffix(Take(p, boundary))) THEN Failed(w)
        ELSE IF w.g.calls > 0 THEN
            CASE rest = <<>> -> IF final THEN Consume(w, b) ELSE w
              [] rest # <<>> /\ end = b + 1 -> Stopped(w)
              [] rest # <<>> /\ end # b + 1 /\ tool = b + 1 -> Call(Consume(w, b))
              [] OTHER -> IF ~final /\ ToolSyntaxSuffix(rest) = Len(rest) THEN w ELSE Failed(w)
        ELSE IF end > 0 /\ (tool = 0 \/ end < tool) THEN Stopped(Prose(w, end - 1))
        ELSE IF tool > 0 THEN Call(Prose(w, tool - 1))
        ELSE Flush(w, final)

\* queue_visible_content.
QueueVisible(w, s, final) ==
    LET p == w.g.pending \o s
        q == IF w.g.started THEN p ELSE Drop(p, Breaks(p))
    IN  IF w.g.stopped THEN w
        ELSE Drain([w EXCEPT !.g.pending = q, !.g.started = @ \/ q # <<>>], final)

\* stream_reasoning: the block is closed by its first closing tag.  Of `rest',
\* the text from `from' on, `limit' symbols are reasoning for certain.
VisibleFrom(w, s) == IF s = <<>> THEN w ELSE QueueVisible(w, s, FALSE)
EmitReasoning(w, from, rest, close, limit) ==
    LET sent == [SendReasoning(w, Take(rest, limit)) EXCEPT !.g.emitted = from + limit]
    IN  IF close = 0 THEN sent
        ELSE VisibleFrom([sent EXCEPT !.g.closed = TRUE],
                         AfterBreaks(Drop(rest, limit + Len(ThinkClose))))
ReasoningLimit(rest, close, final) ==
    IF close > 0 THEN close - 1
    ELSE Len(rest) - (IF final THEN 0 ELSE MarkerSuffix(rest, ThinkClose))
ReasoningFrom(w, from, rest, final) ==
    EmitReasoning(w, from, rest, Find(rest, ThinkClose),
                  ReasoningLimit(rest, Find(rest, ThinkClose), final))
StreamReasoning(w, final) ==
    LET text == w.g.content
        from == IF w.g.emitted < Len(ThinkOpen) /\ StartsWith(text, ThinkOpen)
                THEN Len(ThinkOpen) ELSE w.g.emitted
    IN  IF \/ w.g.closed \/ w.g.stopped \/ text = <<>>
           \/ /\ w.g.emitted = 0 /\ Len(text) < Len(ThinkOpen)
              /\ MarkerSuffix(text, ThinkOpen) > 0
        THEN w ELSE ReasoningFrom(w, from, Drop(text, from), final)

\* send_stream_end, given the number of calls the parser found: an incomplete
\* character of the reasoning, the calls not yet sent, what is pending, an
\* incomplete character of the content.
EndReasoning(w) ==
    IF w.g.rhead
    THEN [w EXCEPT !.g.rhead = FALSE, !.out.reasoning = Append(@, "?"),
                   !.out.late = @ \/ w.out.content # <<>> \/ w.out.calls > 0]
    ELSE w
EndCalls(w, more) == [w EXCEPT !.g.calls = @ + more, !.out.calls = @ + more]
EndContent(w) ==
    IF w.ok /\ w.g.head
    THEN [w EXCEPT !.g.head = FALSE, !.out.content = Append(@, "?")] ELSE w
EndVisible(w, calls) ==
    IF ~w.ok THEN w
    ELSE EndContent(QueueVisible(EndCalls(EndReasoning(w), Max({0, calls - w.g.calls})), <<>>, TRUE))
StreamEnd(w, calls) == EndVisible(StreamReasoning(w, TRUE), calls)

\* send_completion: the whole answer at once.
Completion(parsed) ==
    [reasoning |-> Json(parsed.reasoning), content |-> Json(parsed.content),
     calls |-> parsed.calls, late |-> FALSE, finish |-> out.finish]

FinishReason(calls) == IF calls > 0 THEN "tool_calls" ELSE IF left = 0 THEN "length" ELSE "stop"
-----------------------------------------------------------------------------
Init ==
    /\ choice \in ToolChoices
    /\ thinking \in ThinkModes /\ stream \in Streams
    /\ left = MaxTokens
    /\ g = [content |-> <<>>, closed |-> ~thinking, emitted |-> 0, started |-> FALSE,
            pending |-> <<>>, stopped |-> FALSE, calls |-> 0, head |-> FALSE, rhead |-> FALSE]
    /\ out = [reasoning |-> <<>>, content |-> <<>>, calls |-> 0, late |-> FALSE, finish |-> "none"]
    /\ phase = "running"

\* api_token; a streaming request sends what it can, and an error ends the generation and is the
\* stream's last event.
Token(s) ==
    /\ phase = "running"
    /\ left > 0 /\ left' = left - 1
    /\ \E w \in {[g |-> [g EXCEPT !.content = @ \o s], out |-> out, ok |-> TRUE]} :
       \E v \in {IF ~stream THEN w
                 ELSE IF g.closed THEN QueueVisible(w, s, FALSE) ELSE StreamReasoning(w, FALSE)} :
           /\ g' = v.g /\ out' = v.out
           /\ phase' = IF v.ok THEN "running" ELSE "failed"
    /\ UNCHANGED <<choice, thinking, stream>>

\* The model ends its turn: the text is parsed and the calls validated, then
\* the stream is finished.  A parse that fails is an error event; a stream that
\* cannot be finished is cut.
End ==
    /\ phase = "running"
    /\ \E parsed \in {Parse(g.content, thinking)} :
       \E v \in {StreamEnd([g |-> g, out |-> out, ok |-> TRUE], parsed.calls)} :
       LET bad == ~parsed.ok \/ ~ToolsAllowed(parsed.calls)
       IN  /\ g' = IF bad \/ ~stream THEN g ELSE v.g
           /\ out' = IF bad THEN out
                     ELSE [IF stream THEN v.out ELSE Completion(parsed)
                           EXCEPT !.finish = FinishReason(parsed.calls)]
           /\ phase' = IF bad THEN "failed" ELSE IF ~stream \/ v.ok THEN "ended" ELSE "cut"
    /\ UNCHANGED <<choice, thinking, stream, left>>

Over == phase # "running" /\ UNCHANGED vars

Next == (\E s \in Tokens : Token(s)) \/ End \/ Over

Spec == Init /\ [][Next]_vars
-----------------------------------------------------------------------------
(* Properties. *)

Stored == Parse(g.content, thinking)

\* Texts both paths are written for: the think block is closed once, and holds
\* neither a tool call nor the end marker.
Plain(text) ==
    LET close == Find(text, ThinkClose)
        before == IF close = 0 THEN text ELSE Take(text, close - 1)
    IN  thinking => /\ close = FindLast(text, ThinkClose)
                    /\ Find(before, EndMarker) = 0
                    /\ ~RangeHasToolSyntax(before, Len(before))

\* The generation counts every call it has streamed (streamed_tool_calls), and
\* never emits past the text it has.
TypeOK ==
    /\ choice \in ToolChoices /\ thinking \in ThinkModes
    /\ left \in 0..MaxTokens /\ g.emitted <= Len(g.content)
    /\ phase \in {"running", "failed", "ended", "cut"}
    /\ stream /\ phase # "failed" => out.calls = g.calls

\* However the text is cut into tokens, a stream that ends with [DONE] has
\* delivered the content, the calls and, once the block is closed, the
\* reasoning that the parser stores (queue_visible_content, stream_reasoning
\* against fg_chat_parse_generated).
StreamIsParse ==
    phase = "ended" /\ Plain(g.content) =>
        /\ out.content = Json(Stored.content)
        /\ out.calls = Stored.calls
        /\ Find(g.content, ThinkClose) > 0 => out.reasoning = Json(Stored.reasoning)

\* While the answer is generated, everything the client has read is a prefix of
\* what the parser would store for any continuation that is only text: nothing
\* has to be taken back (marker_suffix and the held white space).
NothingTakenBack ==
    phase = "running" /\ stream /\ Plain(g.content) =>
        LET whole == Parse(g.content \o <<"a">>, thinking)
        IN  /\ whole.ok => IsPrefix(out.content, Json(whole.content))
            /\ whole.ok => IsPrefix(out.reasoning, Json(whole.reasoning))

\* The emitter gives up in the middle of an answer only on a text the parser
\* refuses too, or on a call the request does not allow.
FailsOnlyOnBadText ==
    phase = "failed" /\ Plain(g.content) =>
        ~Stored.ok \/ ~ToolsAllowed(Stored.calls) \/ ~CallAllowed
            \/ Find(g.content, FnPrefix) > 0

\* The finish reason is "tool_calls" exactly when the client was given calls,
\* whichever of emitter and parser found them (handle_chat_completions).
FinishNamesCalls ==
    phase = "ended" => ((out.finish = "tool_calls") <=> (out.calls > 0))

\* docs/TOOL_CONTINUATION.md: the streamed content is byte-identical to the
\* parsed one (queue_visible_content against fg_chat_parse_generated).
ContentIsStored == phase = "ended" => out.content = Json(Stored.content)

\* README.md: reasoning deltas are emitted before the visible content deltas
\* (stream_reasoning, send_stream_end).
ReasoningFirst == ~out.late
=============================================================================

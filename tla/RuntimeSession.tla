--------------------------- MODULE RuntimeSession ---------------------------
(***************************************************************************)
(* The resident session of rank 0 (runtime.c, prefix.c) and the chat       *)
(* handler that drives it (api.c handle_chat_completions): which part of   *)
(* the owners' state a request may reuse, where its tokens are placed, and *)
(* what is left after a success, an interrupted prefill or a failure.      *)
(*                                                                         *)
(* A conversation is a sequence of characters; Eos, Newline and the        *)
(* members of Images (media placeholders with their payload) are           *)
(* characters too.  The tokenizer merges two adjacent Chr into one token,  *)
(* so the tokens of a generated answer need not be those its text encodes  *)
(* to.  A media placeholder expands to Width*Height pad tokens that carry  *)
(* the same id whatever the payload.  The owners' recurrent and page state *)
(* is the sequence of what they absorbed: token, content and M-RoPE        *)
(* position.  Reset reasons and statistics are left out.                   *)
(***************************************************************************)
EXTENDS Integers, Sequences, SequencesExt, FiniteSetsExt

CONSTANTS
    Images,         \* payloads of media placeholders
    Turns,          \* what a user may say: sequences over Chr and Images
    Width, Height,  \* token grid of a medium
    ContextLimit,   \* context_limit, in tokens
    MaxTokens,      \* max_tokens of a request
    Quantum,        \* tokens between two looks at the interrupt flag
    MaxText         \* bound: characters of a conversation

\* What the constants of every instance satisfy.
RuntimeAssumption == Width \in Nat \ {0} /\ Height \in Nat \ {0} /\ Quantum \in Nat \ {0}

VARIABLES
    rt,         \* fg_runtime: the resident session
    transport,  \* whether transport_state is FG_TRANSPORT_READY
    public,     \* api_public_session: valid and its transcript
    job,        \* the request in progress
    last        \* transcript of the previous request, which a client may retry

vars == <<rt, transport, public, job, last>>

Chr == "x"
Pair == "xx"
Eos == "eos"
Newline == "n"
Pad == "pad"
NoTok == "none"
Idle == [pc |-> "idle"]

\* A runtime whose state was just reset (runtime_reset_state).
Fresh == [history |-> <<>>, owner |-> <<>>, frontier |-> 0, position |-> 0,
          next |-> NoTok, nextFor |-> <<>>, rendered |-> <<>>,
          pendingEos |-> FALSE, ready |-> TRUE]

Init == /\ rt = Fresh /\ transport = TRUE
        /\ public = [valid |-> FALSE, text |-> <<>>]
        /\ job = Idle /\ last = <<>>

-----------------------------------------------------------------------------
(* Tokens and positions *)

\* fg_tokenizer_encode: adjacent characters merge from the left.
Encode(text) ==
    FoldLeft(LAMBDA toks, c :
                 IF c = Chr /\ toks # <<>> /\ Last(toks) = Chr
                 THEN Append(Front(toks), Pair) ELSE Append(toks, c),
             <<>>, text)

\* fg_tokenizer_decode_token
Spell(tok) == IF tok = Pair THEN <<Chr, Chr>> ELSE <<tok>>

HasMedia(text) == \E i \in DOMAIN text : text[i] \in Images

\* The prompt of a vision request: placeholders expanded, positions counted
\* from `start`; an image takes a grid and advances the cursor by its longer
\* side.  `end` is end_position.
Expand(toks, start) ==
    FoldLeft(LAMBDA acc, t :
        IF t \in Images
        THEN [items |-> acc.items \o
                  [k \in 1..(Width * Height) |->
                      [tok |-> Pad, of |-> t, k |-> k - 1,
                       pos |-> <<acc.end, acc.end + ((k - 1) \div Width),
                                 acc.end + ((k - 1) % Width)>>]],
              end |-> acc.end + Max({Width, Height})]
        ELSE [items |-> Append(acc.items, [tok |-> t, of |-> t, k |-> 0,
                                  pos |-> <<acc.end, acc.end, acc.end>>]),
              end |-> acc.end + 1],
        [items |-> <<>>, end |-> start], toks)

\* A text prompt is placed by token index plus position_bias.
TextItems(toks, bias) ==
    [i \in DOMAIN toks |-> [tok |-> toks[i], of |-> toks[i], k |-> 0,
                            pos |-> <<i - 1 + bias, i - 1 + bias, i - 1 + bias>>]]

Ids(items) == [i \in DOMAIN items |-> items[i].tok]

\* fg_prefix_plan_tokens: the resident history is reused only as a whole.
PrefixHit(r, toks) ==
    /\ r.history # <<>>
    /\ IsPrefix(r.history, toks)
    /\ Len(toks) = Len(r.history) => r.next # NoTok

\* runtime_reset_state: refused while the transport is not reusable.
Reset(r) == IF transport THEN Fresh ELSE [r EXCEPT !.ready = FALSE]

-----------------------------------------------------------------------------
(* runtime_generate_tokens up to the prefill.  `all` is the whole prompt,   *)
(* `vision` is none, cold or suffix.                                        *)

PositionBias(r, vision, hit) ==
    IF vision = "none" /\ hit /\ Len(r.history) = r.frontier /\ r.position > r.frontier
    THEN r.position - r.frontier ELSE 0

\* A cold vision run never resumes; any other run needs the recorded frontier.
Resumes(r, items, vision) ==
    /\ vision # "cold"
    /\ PrefixHit(r, Ids(items))
    /\ Len(r.history) = r.frontier

FitsContext(items) == Len(items) + MaxTokens <= ContextLimit

\* The state at the start of the prefill, or the error.
BeginWith(r, text, items, end, vision, require, hit, bias) ==
    LET base == IF hit \/ r.history = <<>> THEN r ELSE Reset(r)
        all == IF vision = "none" THEN TextItems(Ids(items), bias) ELSE items
        offset == IF hit THEN Len(r.history) ELSE 0
    IN  CASE ~r.ready -> [status |-> "mismatch", rt |-> r]
          [] r.ready /\ require /\ ~hit -> [status |-> "miss", rt |-> r]
          [] r.ready /\ (require => hit) /\ ~FitsContext(items) ->
               [status |-> "limit", rt |-> r]
          [] OTHER ->
               [status |-> IF base.ready THEN "ok" ELSE "unavailable",
                rt |-> IF base.ready THEN [base EXCEPT !.history = Ids(items)] ELSE base,
                job |-> [pc |-> "prefill", text |-> text, items |-> all,
                         end |-> IF vision = "none" THEN Len(items) + bias ELSE end,
                         offset |-> offset, bias |-> bias, old |-> r.history,
                         answer |-> <<>>, made |-> 0,
                         mutated |-> offset < Len(items)]]
BeginHit(r, text, items, end, vision, require, hit) ==
    BeginWith(r, text, items, end, vision, require, hit, PositionBias(r, vision, hit))
Begin(r, text, items, end, vision, require) ==
    BeginHit(r, text, items, end, vision, require, Resumes(r, items, vision))

\* fg_runtime_generate and fg_runtime_generate_vision on the whole transcript.
BeginCold(r, text) ==
    LET vision == HasMedia(text)
        e == Expand(Encode(text), 0)
    IN  Begin(r, text, e.items, e.end, IF vision THEN "cold" ELSE "none", FALSE)

\* fg_prefix_select_continuation and runtime_build_continuation: the rendered
\* transcript ends on the stored boundary, or one is synthesized.
StoredBoundary(r) == r.pendingEos /\ r.next = Eos
BoundaryRendered(r) == IF StoredBoundary(r) THEN r.rendered
                       ELSE r.rendered \o <<Eos, Newline>>

\* The boundary and the new turn; only new media are expanded, from the cursor
\* the session ended on.
Suffix(r, turn) == Expand(Encode(<<Eos, Newline>> \o turn), r.position)

\* fg_prefix_build_continuation_tokens: the exact history, then the suffix.
Continued(r, suffix) ==
    [i \in DOMAIN r.history |-> [tok |-> r.history[i], of |-> Pad, k |-> 0,
                                 pos |-> <<0, 0, 0>>]] \o suffix.items

\* fg_runtime_generate_continuation and fg_runtime_generate_vision_continuation.
BeginContinuation(r, turn) ==
    LET suffix == Suffix(r, turn)
    IN  IF r.next = NoTok \/ r.rendered = <<>> THEN [status |-> "miss", rt |-> r]
        ELSE Begin(r, BoundaryRendered(r) \o turn, Continued(r, suffix), suffix.end,
                   IF HasMedia(turn) THEN "suffix" ELSE "none", TRUE)

-----------------------------------------------------------------------------
(* handle_chat_completions *)

\* What a client may ask: a new conversation, the next turn of the public
\* session, or the previous request again, with or without another turn.
Asked ==
    LET heads == {<<>>, IF public.valid THEN public.text ELSE last}
    IN  {t \in {h \o u : h \in heads, u \in Turns} \cup {last} :
            t # <<>> /\ Len(t) <= MaxText}

NoPublic == [valid |-> FALSE, text |-> <<>>]

\* What the handler leaves when generation was attempted and no response was
\* committed: the public session is dropped and, but for an interrupt, the
\* runtime reset.
Abandon(r, interrupted) ==
    /\ public' = NoPublic
    /\ rt' = IF interrupted THEN r ELSE Reset(r)
    /\ job' = Idle

Request(text) ==
    LET continues == public.valid /\ IsStrictPrefix(public.text, text)
        mismatch == public.valid /\ ~continues
        turn == SubSeq(text, Len(public.text) + 1, Len(text))
    IN  /\ job = Idle
        /\ last' = text
        /\ UNCHANGED transport
        /\ \E r \in {IF mismatch THEN Reset(rt) ELSE rt} :
           \E first \in {IF continues THEN BeginContinuation(r, turn) ELSE BeginCold(r, text)} :
           \* a prefix miss resets and runs the whole transcript
           \E b \in {IF first.status = "miss" THEN BeginCold(Reset(r), text) ELSE first} :
              IF mismatch /\ ~r.ready THEN
                 public' = NoPublic /\ rt' = r /\ job' = Idle
              ELSE IF b.status # "ok" THEN Abandon(b.rt, FALSE)
              ELSE /\ rt' = b.rt
                   /\ job' = b.job
                   /\ public' = IF mismatch \/ first.status = "miss" THEN NoPublic ELSE public

-----------------------------------------------------------------------------
(* The generation in progress *)

Absorb(r, items) == [r EXCEPT !.owner = @ \o items]
Pending == SubSeq(job.items, job.offset + 1, Len(job.items))

\* Prefill succeeds and the output owner returns the first token.
PrefillDone(tok) ==
    /\ job.pc = "prefill"
    /\ job' = [job EXCEPT !.pc = "decode"]
    /\ rt' = IF Pending = <<>> THEN rt
             ELSE [Absorb(rt, Pending) EXCEPT !.next = tok, !.nextFor = rt.history,
                                              !.position = job.end]
    /\ UNCHANGED <<transport, public, last>>

\* Mutant: the frontier is not moved to what was prefilled.
InterruptedKeeps(r, n) ==
    LET got == job.offset + n
    IN  [Absorb(r, SubSeq(Pending, 1, n)) EXCEPT
            !.history = SubSeq(@, 1, got),
            !.position = got + job.bias, !.next = NoTok, !.nextFor = <<>>]

\* The interrupt flag is seen between two groups, transport quiet: what was
\* prefilled stays as the new frontier, without logits.
Interrupted(r, n) ==
    LET got == job.offset + n
    IN  [Absorb(r, SubSeq(Pending, 1, n)) EXCEPT
            !.history = SubSeq(@, 1, got), !.frontier = got,
            !.position = got + job.bias, !.next = NoTok, !.nextFor = <<>>]

PrefillInterrupted(n) ==
    /\ job.pc = "prefill"
    /\ n % Quantum = 0 /\ n < Len(Pending)
    /\ Abandon(Interrupted(rt, n), TRUE)
    /\ UNCHANGED <<transport, last>>

\* What runtime_generate_tokens leaves after any other failure; `owner` is
\* unknown once the state was touched, so only a reset makes it usable.
Failed(r, quiet, mutated) ==
    CASE mutated /\ quiet -> Fresh
      [] mutated /\ ~quiet -> [r EXCEPT !.ready = FALSE]
      [] OTHER -> [r EXCEPT !.history = job.old]

\* A rank, the device or the transport fails while the owners hold part of
\* the new tokens; the handler answers with an error.
GenerationFails(quiet) ==
    /\ job.pc \in {"prefill", "decode"}
    /\ transport' = quiet
    /\ public' = NoPublic
    /\ rt' = IF quiet THEN Fresh ELSE [Failed(rt, quiet, job.mutated) EXCEPT !.ready = FALSE]
    /\ job' = Idle
    /\ UNCHANGED last

\* The callback cannot write to the client: the token was not consumed.
CallbackFails ==
    /\ job.pc = "decode" /\ job.made < MaxTokens /\ rt.next # Eos
    /\ Abandon(Failed(rt, transport, job.mutated), FALSE)
    /\ UNCHANGED <<transport, last>>

\* One token: emitted, appended to the history, decoded at the cursor.
DecodeToken(tok) ==
    /\ job.pc = "decode" /\ job.made < MaxTokens /\ rt.next # Eos
    /\ rt' = [rt EXCEPT !.history = Append(@, rt.next),
                 !.owner = Append(@, [tok |-> rt.next, of |-> rt.next, k |-> 0,
                                      pos |-> <<rt.position, rt.position, rt.position>>]),
                 !.position = @ + 1, !.next = tok,
                 !.nextFor = Append(rt.history, rt.next)]
    /\ job' = [job EXCEPT !.answer = @ \o Spell(rt.next), !.made = @ + 1, !.mutated = TRUE]
    /\ UNCHANGED <<transport, public, last>>

\* The loop ends (Eos, max_tokens or the interrupt flag) and the session is
\* recorded: frontier, rendered transcript and the pending boundary.
Recorded(r) ==
    LET stopped == r.next = Eos /\ job.made < MaxTokens
        text == job.text \o job.answer
    IN  [r EXCEPT !.frontier = Len(r.history),
                  !.rendered = IF stopped THEN text \o <<Eos, Newline>> ELSE text,
                  !.pendingEos = stopped]

\* The response is written and its session becomes the public one.
Respond ==
    /\ job.pc = "decode" /\ (rt.next = Eos \/ job.made = MaxTokens)
    /\ rt' = Recorded(rt)
    /\ public' = [valid |-> TRUE, text |-> job.text \o job.answer \o <<Eos, Newline>>]
    /\ job' = Idle
    /\ UNCHANGED <<transport, last>>

\* The answer cannot be parsed or sent, or the client left mid-generation.
RespondFails ==
    /\ job.pc = "decode"
    /\ Abandon(Recorded(rt), FALSE)
    /\ UNCHANGED <<transport, last>>

\* fg_runtime_reconnect (or a new process): every rank joins again.
Reconnect ==
    /\ job = Idle /\ ~transport
    /\ transport' = TRUE /\ rt' = Fresh /\ public' = NoPublic
    /\ UNCHANGED <<job, last>>

Outputs == {Chr, Pair, Eos}

Next == \/ \E text \in Asked : Request(text)
        \/ \E tok \in Outputs : PrefillDone(tok)
        \/ \E n \in 0..ContextLimit : PrefillInterrupted(n)
        \/ \E quiet \in BOOLEAN : GenerationFails(quiet)
        \/ CallbackFails
        \/ \E tok \in Outputs : DecodeToken(tok)
        \/ Respond
        \/ RespondFails
        \/ Reconnect

Spec == Init /\ [][Next]_vars

-----------------------------------------------------------------------------
(* Properties *)

\* Type of the resident session (struct fg_runtime) and of the public session.
TypeOK ==
    /\ rt.frontier \in 0..ContextLimit /\ rt.position \in 0..(2 * ContextLimit)
    /\ Len(rt.history) <= ContextLimit /\ rt.next \in Outputs \cup {NoTok}
    /\ rt.ready \in BOOLEAN /\ transport \in BOOLEAN /\ public.valid \in BOOLEAN
    /\ job.pc \in {"idle", "prefill", "decode"}

\* Between requests a ready session's token history is exactly what the owners
\* absorbed, and its frontier is their frontier: the comment on the ring
\* ("if rank 0's token history and the owners' state ever disagree") never
\* comes true, whatever was interrupted or failed before.
OwnersHoldHistory ==
    (job = Idle /\ rt.ready) =>
        Ids(rt.owner) = rt.history /\ rt.frontier = Len(rt.history)

\* A token is only ever generated from the conversation it answers: the owners
\* hold the characters and the very media of the request followed by the
\* answer so far, although pad tokens of different media are equal and
\* answers need not encode to the tokens they were decoded from.
Contents(items) ==
    FoldLeft(LAMBDA acc, it : IF it.k = 0 THEN acc \o Spell(it.of) ELSE acc, <<>>, items)
AnswersOwnConversation ==
    job.pc = "decode" => Contents(rt.owner) = job.text \o job.answer

\* The saved logits belong to the saved history: a continuation that starts
\* from them never continues another frontier.
NextTokenIsOfHistory ==
    (rt.ready /\ job.pc # "prefill" /\ rt.next # NoTok) => rt.nextFor = rt.history

\* While the public session is valid the runtime can continue it: the private
\* transcript with its boundary is the public one.
PublicIsContinuable ==
    (job = Idle /\ public.valid /\ rt.ready) =>
        rt.next # NoTok /\ BoundaryRendered(rt) = public.text

\* Every token in the owners' state is where a cold prefill of the same
\* transcript would put it (comment in runtime_generate_tokens;
\* docs/TOOL_CONTINUATION.md).
PositionsAsCold ==
    rt.ready =>
        LET pieces == SelectSeq(rt.owner, LAMBDA it : it.k = 0)
            cold == Expand([i \in DOMAIN pieces |-> pieces[i].of], 0).items
        IN  rt.owner = SubSeq(cold, 1, Len(rt.owner))

\* The resident session: its history is what the owners absorbed, a token is
\* generated from the conversation it answers, saved logits and the public
\* session belong to that history.
SessionInv ==
    /\ TypeOK
    /\ OwnersHoldHistory
    /\ AnswersOwnConversation
    /\ NextTokenIsOfHistory
    /\ PublicIsContinuable
=============================================================================

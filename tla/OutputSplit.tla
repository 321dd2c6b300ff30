---------------------------- MODULE OutputSplit ----------------------------
(***************************************************************************)
(* How one token is chosen.  Rank 0 (the host of the sessions) sends the   *)
(* sampler configuration of a token to the output owner, rank 4, on the    *)
(* control channel, while the ring carries the token's work to the final   *)
(* block owner, rank 7.  For a greedy token rank 7 sends the hidden state  *)
(* to the ranks of the split, each reduces its slice of the vocabulary,    *)
(* and rank 4 combines the partial maxima; any other token is sampled by   *)
(* rank 4 alone, with the penalty table of the session.  The connections   *)
(* are FIFO, and nothing orders two of them: rank 4 sees configuration,    *)
(* hidden state and partials in any order.  Two sessions share the ranks.  *)
(*                                                                         *)
(* A logit vector is one of LogitChoices; a tower of GPU kernels is the    *)
(* operator that says what it computes.                                    *)
(***************************************************************************)
EXTENDS Integers, Sequences, FiniteSets, Functions

CONSTANTS SessionSlots,   \* session slots
          V,              \* FG_Q38_VOCAB_SIZE
          LogitChoices,   \* the logit vectors a token may have
          MaxIndex,       \* bound: token indices of a session
          MaxBegins,      \* bound: session begins after the first
          Wedges,         \* bound: ranks that stop answering
          SamplerModes,   \* sampler settings of the requests
          LongTimeouts    \* a deadline only passes when the answer is not on its way

SplitRank == <<4, 0, 1, 2>>
Ways == Len(SplitRank)
Helpers == {1, 2}
Vocab == 0 .. V - 1
NoToken == -1

\* What the constants of every instance satisfy.
OutputSplitAssumption ==
    /\ V \in Nat /\ V >= Ways
    /\ LogitChoices \subseteq [Vocab -> Int] /\ LogitChoices # {}
    /\ {MaxIndex, MaxBegins, Wedges} \subseteq Nat
    /\ SamplerModes \subseteq {"greedy", "penalised", "sampled"}

VARIABLES
    token,      \* [SessionSlots -> record]: the session's runtime on rank 0
    ring,       \* [SessionSlots -> work on its way to rank 7]
    splitCtl,   \* [{0} \cup Helpers -> Seq(frame)]: control connections into rank 4
    bulk,       \* Seq(frame): bulk connection 7 -> 4
    slice,      \* [Helpers -> Seq(frame)]: bulk connections 7 -> helper
    inbox,      \* [SessionSlots -> [{4, 7} -> Seq(frame)]]: demultiplexed bulk frames of rank 0
    acks,       \* [SessionSlots -> Seq(frame)]: control connection 4 -> 0
    handoff,    \* [SessionSlots -> record]: fg_output_handoff of rank 4
    counts,     \* [SessionSlots -> [Vocab -> Nat]]: history_counts of rank 4
    served,     \* [SessionSlots -> Nat]: the session rank 4 serves
    ended,      \* "" or why rank 4's worker loop ended
    wedged      \* ranks that no longer take steps

splitVars == <<token, ring, splitCtl, bulk, slice, inbox, acks, handoff, counts, served,
               ended, wedged>>

----------------------------------------------------------------------------
(* The split of the vocabulary and the choice of a token *)

\* fg_output_split_span
FirstRow(way) == (way - 1) * (V \div Ways)
Span(way) == FirstRow(way) ..
             (IF way = Ways THEN V ELSE FirstRow(way) + (V \div Ways)) - 1

\* fg_output_better on finite values
Better(lv, li, rv, ri) == lv > rv \/ (lv = rv /\ li < ri)

BestOf(ids, logits) ==
    CHOOSE i \in ids : \A j \in ids \ {i} : Better(logits[i], i, logits[j], j)

SlicePartial(way, logits) ==
    LET i == BestOf(Span(way), logits)
    IN  [rank |-> SplitRank[way], value |-> logits[i], id |-> i]

\* fg_output_combine, and the loop over the Ways - 1 partials in the order of
\* their arrival
Combine(p, q) == IF Better(p.value, p.id, q.value, q.id) THEN p ELSE q

CombineAll(local, remote) ==
    Combine(remote[3], Combine(remote[2], Combine(remote[1], local)))

Penalised(logits, seen) == [v \in Vocab |-> logits[v] - seen[v]]

\* fg_output_sample: the tokens the full head may return
Sample(mode, logits, seen) ==
    CASE mode = "greedy" -> {BestOf(Vocab, logits)}
      [] mode = "penalised" -> {BestOf(Vocab, Penalised(logits, seen))}
      [] mode = "sampled" -> {v \in Vocab : \A w \in Vocab : logits[w] <= logits[v] + 1}

----------------------------------------------------------------------------
(* The handoff record of rank 4 *)

NoHidden == [tok |-> NoToken]
NoConfig == [tok |-> NoToken, mode |-> "greedy"]
EmptyHandoff == [config |-> NoConfig, hidden |-> NoHidden, hiddenSlice |-> NoHidden,
                 local |-> FALSE, remote |-> <<>>]

ClearPartials(h) == [h EXCEPT !.local = FALSE, !.remote = <<>>]

\* fg_output_handoff_config: an older configuration is ignored, a newer one
\* drops what belongs to older tokens
HandoffConfig(h, c) ==
    LET older(x) == IF c.tok > x.tok THEN NoHidden ELSE x
    IN  CASE h.config.tok = c.tok -> [h EXCEPT !.config = c]
          [] c.tok < h.config.tok \/ c.tok < h.hidden.tok -> h
          [] c.tok > h.config.tok /\ c.tok >= h.hidden.tok /\ c.tok < h.hiddenSlice.tok
                -> [h EXCEPT !.hidden = older(@)]
          [] OTHER -> [ClearPartials(h) EXCEPT !.config = c, !.hidden = older(@),
                                               !.hiddenSlice = older(@)]

\* fg_output_handoff_hidden and fg_output_handoff_hidden_slice: mine is the
\* field the frame is for, theirs the other one
HandoffHidden(h, mine, theirs, x) ==
    LET dropped == IF x.tok > h[theirs].tok THEN [h EXCEPT ![theirs] = NoHidden] ELSE h
        renewed == IF x.tok > h.config.tok
                   THEN ClearPartials([dropped EXCEPT !.config = NoConfig])
                   ELSE dropped
    IN  CASE x.tok = h[mine].tok -> [h EXCEPT ![mine] = x]
          [] x.tok < h[mine].tok \/ x.tok < h[theirs].tok -> h
          [] x.tok > h[mine].tok /\ x.tok >= h[theirs].tok /\ x.tok < h.config.tok -> dropped
          [] OTHER -> [renewed EXCEPT ![mine] = x]

Split(h) == h.config.mode = "greedy"
Ready(h) == /\ h.config.tok # NoToken
            /\ h.config.tok = (IF Split(h) THEN h.hiddenSlice ELSE h.hidden).tok

\* worker_output_split_pending: the wait that has a deadline
SplitPending(h) == h.config.tok # NoToken /\ Split(h) /\ h.local /\ Len(h.remote) < Ways - 1

----------------------------------------------------------------------------
Fresh == [phase |-> "begin", ses |-> 1, index |-> 0, mode |-> "greedy",
          hist |-> [v \in Vocab |-> 0], logits |-> CHOOSE l \in LogitChoices : TRUE,
          chosen |-> NoToken, due |-> {NoToken}]

TokenFrame(s, kind, body) == [slot |-> s, kind |-> kind, ses |-> token[s].ses, body |-> body]

SplitInit ==
    /\ token = [s \in SessionSlots |-> [Fresh EXCEPT !.phase = "idle"]]
    /\ ring = [s \in SessionSlots |-> NoHidden]
    /\ splitCtl = [r \in {0} \cup Helpers |-> <<>>]
    /\ bulk = <<>> /\ slice = [r \in Helpers |-> <<>>]
    /\ inbox = [s \in SessionSlots |-> [r \in {4, 7} |-> <<>>]]
    /\ acks = [s \in SessionSlots |-> <<>>]
    /\ handoff = [s \in SessionSlots |-> EmptyHandoff]
    /\ counts = [s \in SessionSlots |-> [v \in Vocab |-> 0]]
    /\ served = [s \in SessionSlots |-> 1]
    /\ ended = "" /\ wedged = {}

ToOwner(s, kind, body) ==
    splitCtl' = [splitCtl EXCEPT ![0] = Append(@, TokenFrame(s, kind, body))]
TokenFails(s, why) == token' = [token EXCEPT ![s].phase = why]

----------------------------------------------------------------------------
(* Rank 0 *)

\* The first step of a request: the prompt extends the history, and an active
\* penalty sends all of it to rank 4.
StartRequest(s, mode) ==
    /\ token[s].phase = "idle" /\ token[s].index < MaxIndex
    /\ LET hist == [token[s].hist EXCEPT ![0] = @ + 1]
           sync == mode = "penalised"
       IN  /\ token' = [token EXCEPT ![s] = [@ EXCEPT !.mode = mode, !.hist = hist,
                                !.phase = IF sync THEN "history" ELSE "prefill"]]
           /\ IF sync THEN ToOwner(s, "history", hist) ELSE UNCHANGED splitCtl
    /\ UNCHANGED <<ring, bulk, slice, inbox, acks, handoff, counts, served, ended, wedged>>

Acknowledged(s) ==
    /\ token[s].phase \in {"history", "begin"} /\ acks[s] # <<>>
    /\ acks' = [acks EXCEPT ![s] = Tail(@)]
    /\ token' = [token EXCEPT ![s].phase = IF @ = "history" THEN "prefill" ELSE "idle"]
    /\ UNCHANGED <<ring, splitCtl, bulk, slice, inbox, handoff, counts, served, ended, wedged>>

\* What the reference chooses: the full vocabulary, the session's own history.
Reference(s, mode, logits) == Sample(mode, logits, token[s].hist)

\* coordinator_output: the token after a prefill goes to rank 4 whole.
Relay(s, logits) ==
    /\ token[s].phase = "prefill"
    /\ ToOwner(s, "work", [tok |-> token[s].index, mode |-> token[s].mode, logits |-> logits])
    /\ token' = [token EXCEPT ![s].phase = "relay", ![s].logits = logits]
    /\ UNCHANGED <<ring, bulk, slice, inbox, acks, handoff, counts, served, ended, wedged>>

\* The work flag that asks rank 7 for slices
AsksForSlices(mode) == mode = "greedy"

\* coordinator_decode_token_ring, up to its receive loop: the work enters the
\* ring, then the configuration follows on the control channel.
DecodeToken(s, logits) ==
    /\ token[s].phase = "decode" /\ token[s].index < MaxIndex
    /\ ring' = [ring EXCEPT ![s] = [tok |-> token[s].index, ses |-> token[s].ses,
                                    logits |-> logits, split |-> AsksForSlices(token[s].mode)]]
    /\ ToOwner(s, "config", [tok |-> token[s].index, mode |-> token[s].mode])
    /\ token' = [token EXCEPT ![s].phase = "wait", ![s].logits = logits]
    /\ UNCHANGED <<bulk, slice, inbox, acks, handoff, counts, served, ended, wedged>>

\* coordinator_output_slice_hidden: rank 0 is itself one of the slices.
HostSlice(s) ==
    /\ token[s].phase = "wait" /\ inbox[s][7] # <<>>
    /\ LET f == Head(inbox[s][7])
       IN  IF f.ses = token[s].ses /\ f.body.tok = token[s].index
           THEN /\ ToOwner(s, "partial", [tok |-> f.body.tok,
                                          part |-> SlicePartial(2, f.body.logits)])
                /\ UNCHANGED token
           ELSE TokenFails(s, "misrouted") /\ UNCHANGED splitCtl
    /\ inbox' = [inbox EXCEPT ![s][7] = Tail(@)]
    /\ UNCHANGED <<ring, bulk, slice, acks, handoff, counts, served, ended, wedged>>

\* coordinator_output_result_accept, and the relay's receive
HostResult(s) ==
    /\ token[s].phase \in {"relay", "wait"} /\ inbox[s][4] # <<>>
    /\ LET f == Head(inbox[s][4])
           t == token[s]
           hist == [t.hist EXCEPT ![f.body.id] = @ + 1]
       IN  IF f.ses = t.ses /\ f.body.tok = t.index
           THEN token' = [token EXCEPT ![s] = [t EXCEPT !.phase = "decode",
                              !.index = t.index + 1, !.hist = hist, !.chosen = f.body.id,
                              !.due = Reference(s, t.mode, t.logits)]]
           ELSE TokenFails(s, "misrouted")
    /\ inbox' = [inbox EXCEPT ![s][4] = Tail(@)]
    /\ UNCHANGED <<ring, splitCtl, bulk, slice, acks, handoff, counts, served, ended, wedged>>

EndRequest(s) ==
    /\ token[s].phase = "decode"
    /\ token' = [token EXCEPT ![s].phase = "idle"]
    /\ UNCHANGED <<ring, splitCtl, bulk, slice, inbox, acks, handoff, counts, served,
                   ended, wedged>>

\* A reset: a new session number, an empty history.
BeginSession(s) ==
    /\ token[s].phase = "idle" /\ token[s].ses <= MaxBegins
    /\ splitCtl' = [splitCtl EXCEPT ![0] = Append(@, [slot |-> s, kind |-> "begin",
                                            ses |-> token[s].ses + 1, body |-> NoHidden])]
    /\ token' = [token EXCEPT ![s] = [Fresh EXCEPT !.ses = token[s].ses + 1]]
    /\ UNCHANGED <<ring, bulk, slice, inbox, acks, handoff, counts, served, ended, wedged>>

\* Something that the wait for slot s's token depends on is still on its way.
OnItsWay(s) ==
    \/ ring[s] # NoHidden /\ 7 \notin wedged
    \/ \E f \in Range(splitCtl[0]) \cup Range(bulk) : f.slot = s
    \/ \E r \in Helpers : \/ \E f \in Range(splitCtl[r]) : f.slot = s
                          \/ r \notin wedged /\ \E f \in Range(slice[r]) : f.slot = s
    \/ inbox[s][4] # <<>> \/ inbox[s][7] # <<>>

Patient(s) == LongTimeouts => ~OnItsWay(s)

\* The receive loop's own deadline: it covers the split wait and its grace.
HostTimeout(s) ==
    /\ token[s].phase = "wait" /\ Patient(s)
    /\ LongTimeouts => ended # "" \/ ~SplitPending(handoff[s])
    /\ TokenFails(s, "timeout")
    /\ UNCHANGED <<ring, splitCtl, bulk, slice, inbox, acks, handoff, counts, served,
                   ended, wedged>>

HostPeerLost(s) ==
    /\ ended # "" /\ inbox[s][4] = <<>> /\ acks[s] = <<>>
    /\ token[s].phase \in {"begin", "history", "relay", "wait"}
    /\ TokenFails(s, "lost")
    /\ UNCHANGED <<ring, splitCtl, bulk, slice, inbox, acks, handoff, counts, served,
                   ended, wedged>>

----------------------------------------------------------------------------
(* Rank 7 and the helpers *)

\* worker_decode_output: a greedy token's hidden state goes to the slices, any
\* other token's to rank 4 alone
FinalOwner(s) ==
    /\ ring[s] # NoHidden /\ 7 \notin wedged
    /\ LET w == ring[s]
           f(kind) == [slot |-> s, kind |-> kind, ses |-> w.ses,
                       body |-> [tok |-> w.tok, logits |-> w.logits]]
       IN  IF w.split
           THEN /\ bulk' = Append(bulk, f("slice"))
                /\ slice' = [r \in Helpers |-> Append(slice[r], f("slice"))]
                /\ inbox' = [inbox EXCEPT ![s][7] = Append(@, f("slice"))]
           ELSE bulk' = Append(bulk, f("hidden")) /\ UNCHANGED <<slice, inbox>>
    /\ ring' = [ring EXCEPT ![s] = NoHidden]
    /\ UNCHANGED <<token, splitCtl, acks, handoff, counts, served, ended, wedged>>

\* fg_output_split_way_for_rank
WayOf(r) == CHOOSE w \in 1 .. Ways : SplitRank[w] = r

\* handle_output_slice_hidden at a rank other than 4
HelperSlice(r) ==
    /\ r \notin wedged /\ slice[r] # <<>>
    /\ LET f == Head(slice[r])
       IN  splitCtl' = [splitCtl EXCEPT ![r] = Append(@, [slot |-> f.slot, kind |-> "partial",
                      ses |-> f.ses, body |-> [tok |-> f.body.tok,
                                     part |-> SlicePartial(WayOf(r), f.body.logits)]])]
    /\ slice' = [slice EXCEPT ![r] = Tail(@)]
    /\ UNCHANGED <<token, ring, bulk, inbox, acks, handoff, counts, served, ended, wedged>>

----------------------------------------------------------------------------
(* Rank 4 *)

OwnerEnds(why) == ended' = why

AnswerToken(s, tok, id) ==
    inbox' = [inbox EXCEPT ![s][4] = Append(@, [slot |-> s, kind |-> "result",
                 ses |-> served[s], body |-> [tok |-> tok, id |-> id]])]

Counted(s, mode, id) ==
    counts' = IF mode = "penalised" THEN [counts EXCEPT ![s][id] = @ + 1] ELSE counts

\* worker_output_handoff_flush, applied to the handoff h the handler made
Flush(s, h) ==
    IF ~Ready(h)
    THEN handoff' = [handoff EXCEPT ![s] = h] /\ UNCHANGED <<counts, inbox>>
    ELSE IF Split(h)
    THEN IF Len(h.remote) < Ways - 1
         THEN /\ handoff' = [handoff EXCEPT ![s] = [h EXCEPT !.local = TRUE]]
              /\ UNCHANGED <<counts, inbox>>
         ELSE /\ AnswerToken(s, h.config.tok,
                        CombineAll(SlicePartial(1, h.hiddenSlice.logits), h.remote).id)
              /\ handoff' = [handoff EXCEPT ![s] = EmptyHandoff]
              /\ UNCHANGED counts
    ELSE /\ \E id \in Sample(h.config.mode, h.hidden.logits, counts[s]) :
                /\ AnswerToken(s, h.config.tok, id)
                /\ Counted(s, h.config.mode, id)
         /\ handoff' = [handoff EXCEPT ![s] = EmptyHandoff]

Stale(f) == f.ses # served[f.slot]
Refuses == /\ OwnerEnds("mismatch")
           /\ UNCHANGED <<handoff, counts, inbox, acks, served>>

\* handle_output_partial: a partial without a configuration is dropped, one of
\* another token is an error.
HandlePartial(f) ==
    LET h == handoff[f.slot]
    IN  IF h.config.tok = NoToken
        THEN UNCHANGED <<handoff, counts, inbox, acks, served, ended>>
        ELSE IF f.body.tok # h.config.tok \/ Len(h.remote) >= Ways
        THEN Refuses
        ELSE /\ Flush(f.slot, [h EXCEPT !.remote = Append(@, f.body.part)])
             /\ UNCHANGED <<acks, served, ended>>

HandleConfig(f) == /\ Flush(f.slot, HandoffConfig(handoff[f.slot], f.body))
                   /\ UNCHANGED <<acks, served, ended>>

HandleHidden(f) ==
    /\ Flush(f.slot, IF f.kind = "slice"
                     THEN HandoffHidden(handoff[f.slot], "hiddenSlice", "hidden", f.body)
                     ELSE HandoffHidden(handoff[f.slot], "hidden", "hiddenSlice", f.body))
    /\ UNCHANGED <<acks, served, ended>>

Acks(f) == acks' = [acks EXCEPT ![f.slot] = Append(@, f.kind)]

\* Mutant: the table selected last is reset, not the frame's
ResetsOther(f) ==
    /\ counts' = [counts EXCEPT ![CHOOSE s \in SessionSlots : TRUE] = f.body]
    /\ Acks(f) /\ UNCHANGED <<handoff, inbox, served, ended>>

\* handle_output_history: the table of the frame's slot becomes the history
HandleHistory(f) ==
    /\ counts' = [counts EXCEPT ![f.slot] = f.body]
    /\ Acks(f) /\ UNCHANGED <<handoff, inbox, served, ended>>

HandleWork(f) ==
    /\ \E id \in Sample(f.body.mode, f.body.logits, counts[f.slot]) :
          AnswerToken(f.slot, f.body.tok, id) /\ Counted(f.slot, f.body.mode, id)
    /\ UNCHANGED <<handoff, acks, served, ended>>

\* SESSION_BEGIN: the handoff and the penalty table of the slot start afresh
HandleBegin(f) ==
    IF f.ses <= served[f.slot] THEN Refuses
    ELSE /\ handoff' = [handoff EXCEPT ![f.slot] = EmptyHandoff]
         /\ counts' = [counts EXCEPT ![f.slot] = [v \in Vocab |-> 0]]
         /\ served' = [served EXCEPT ![f.slot] = f.ses]
         /\ Acks(f) /\ UNCHANGED <<inbox, ended>>

Handle(f) ==
    IF f.kind = "begin" THEN HandleBegin(f)
    ELSE IF Stale(f) THEN Refuses
    ELSE CASE f.kind = "partial" -> HandlePartial(f)
           [] f.kind = "config" -> HandleConfig(f)
           [] f.kind = "history" -> HandleHistory(f)
           [] f.kind = "work" -> HandleWork(f)
           [] f.kind \in {"slice", "hidden"} -> HandleHidden(f)

OwnerControl(r) ==
    /\ ended = "" /\ splitCtl[r] # <<>>
    /\ Handle(Head(splitCtl[r]))
    /\ splitCtl' = [splitCtl EXCEPT ![r] = Tail(@)]
    /\ UNCHANGED <<token, ring, bulk, slice, wedged>>

OwnerBulk ==
    /\ ended = "" /\ bulk # <<>>
    /\ Handle(Head(bulk))
    /\ bulk' = Tail(bulk)
    /\ UNCHANGED <<token, ring, splitCtl, slice, wedged>>

\* The worker loop's check of its deadlines
OwnerTimeout ==
    /\ ended = ""
    /\ \E s \in SessionSlots : SplitPending(handoff[s]) /\ Patient(s)
    /\ OwnerEnds("timeout")
    /\ UNCHANGED <<token, ring, splitCtl, bulk, slice, inbox, acks, handoff, counts,
                   served, wedged>>

----------------------------------------------------------------------------
Wedge(r) ==
    /\ Cardinality(wedged) < Wedges
    /\ wedged' = wedged \cup {r}
    /\ UNCHANGED <<token, ring, splitCtl, bulk, slice, inbox, acks, handoff, counts,
                   served, ended>>

Failed == {"misrouted", "timeout", "lost"}

\* Nothing left to ask for, or a rank that stands still
SplitOver ==
    /\ \/ wedged # {}
       \/ \A s \in SessionSlots : \/ token[s].phase \in Failed
                                  \/ token[s].phase = "idle" /\ token[s].index = MaxIndex
    /\ UNCHANGED splitVars

TokenStep(s) ==
    \/ Acknowledged(s) \/ HostSlice(s) \/ HostResult(s) \/ HostTimeout(s)
    \/ HostPeerLost(s) \/ \E l \in LogitChoices : Relay(s, l)

OwnerStep == (\E r \in {0} \cup Helpers : OwnerControl(r)) \/ OwnerBulk \/ OwnerTimeout

SplitNext ==
    \/ \E s \in SessionSlots : \/ TokenStep(s) \/ FinalOwner(s)
                               \/ \E m \in SamplerModes : StartRequest(s, m)
                               \/ \E l \in LogitChoices : DecodeToken(s, l)
                               \/ EndRequest(s) \/ BeginSession(s)
    \/ \E r \in Helpers : HelperSlice(r)
    \/ OwnerStep
    \/ \E r \in Helpers \cup {7} : Wedge(r)
    \/ SplitOver

SplitSpec == SplitInit /\ [][SplitNext]_splitVars

\* Each rank keeps polling its connections, and deadlines pass.  Nothing makes
\* a client send a request, go on decoding, or a rank wedge.
SplitFairness ==
    /\ \A s \in SessionSlots : WF_splitVars(TokenStep(s)) /\ WF_splitVars(FinalOwner(s))
    /\ \A r \in Helpers : WF_splitVars(HelperSlice(r)) /\ WF_splitVars(OwnerControl(r))
    /\ WF_splitVars(OwnerControl(0)) /\ WF_splitVars(OwnerBulk) /\ WF_splitVars(OwnerTimeout)
SplitFairSpec == SplitSpec /\ SplitFairness

----------------------------------------------------------------------------
(* Properties *)

\* The values the variables range over; the partials rank 4 holds for a token
\* come from different ranks.
SplitTypeOK ==
    /\ \A s \in SessionSlots :
          /\ token[s].index \in 0 .. MaxIndex
          /\ token[s].ses \in 1 .. MaxBegins + 1
          /\ token[s].phase \in {"idle", "begin", "history", "prefill", "relay",
                                 "decode", "wait"} \cup Failed
          /\ \A i, j \in DOMAIN handoff[s].remote :
                i # j => handoff[s].remote[i].rank # handoff[s].remote[j].rank
          /\ served[s] <= token[s].ses
    /\ ended \in {"", "timeout", "mismatch"} /\ wedged \subseteq Helpers \cup {7}

\* The token rank 0 accepts (coordinator_output_result_accept) is the one a
\* single head over the whole vocabulary would have chosen with the session's
\* own history: no slice is missing, counted twice or from another token, ties
\* go to the lower id across slices, and interleaved sessions do not mix.
ResultExact == \A s \in SessionSlots : token[s].chosen \in token[s].due

\* No frame of a token is ever met by a later one: rank 0 never rejects a
\* slice or a result as misrouted, rank 4 never ends on a stale partial.  (An
\* unused slice left behind by a sampled token would be met by the next one.)
NeverMistaken ==
    /\ \A s \in SessionSlots : token[s].phase # "misrouted"
    /\ ended # "mismatch"

\* Between the tokens of a penalised request the table of rank 4
\* (history_counts of the slot) counts exactly the session's history: prompt
\* and generated tokens, each once, none of the other session.
CountsAreHistory ==
    \A s \in SessionSlots : token[s].mode = "penalised" /\ token[s].phase = "decode"
        => counts[s] = token[s].hist

\* The token rank 0 accepts is the one a single head over the whole vocabulary
\* would have chosen with the history of its own session, the penalty table of
\* rank 4 counts exactly that history between tokens, and no frame of another
\* token is taken for one of this.
SplitInv == SplitTypeOK /\ ResultExact /\ CountsAreHistory /\ NeverMistaken

\* Every token asked for is answered or given up: rank 0 does not wait for
\* ever, whichever of the helpers or rank 7 stops answering.
Waiting(s) == token[s].phase \in {"relay", "wait", "history", "begin"}
Answered == \A s \in SessionSlots : Waiting(s) ~> ~ Waiting(s)

\* "the value only matters when a helper rank is dead or wedged": the split
\* deadline of rank 4 does not pass while every rank answers.
DeadlineOnlyForTheDead == ended = "timeout" => wedged # {}
=============================================================================

------------------------------- MODULE MCText -------------------------------
(***************************************************************************)
(* Instances of the modules that turn bytes into requests and answers into *)
(* bytes: the incremental HTTP parser (HttpParser), the streamed and the   *)
(* parsed answer (ChatStream) and the conversation that is continued       *)
(* instead of read again (Continuation).  The modules share no variable: a *)
(* behaviour is one of one instance alone, and `case' says of which.       *)
(***************************************************************************)
EXTENDS Integers, Sequences

VARIABLES
    case,   \* what a behaviour is about, one of the instances below
    \* HttpParser
    sent, wire, buf, busy, served, status, closing, eof,
    \* ChatStream
    choice, thinking, stream, left, g, out, phase,
    \* Continuation
    chat, session, context, asked, prompt, turn

httpVars == <<sent, wire, buf, busy, served, status, closing, eof>>
answerVars == <<choice, thinking, stream, left, g, out, phase>>
talkVars == <<chat, session, context, asked, prompt, turn>>
vars == <<case, httpVars, answerVars, talkVars>>

(* HTTP messages, with the request or the refusal that a reader of RFC 9112  *)
(* and of the server's limits gives them.                                    *)
Lines(ls) == IF Len(ls) = 1 THEN <<ls[1], "r", "n">> ELSE
             IF Len(ls) = 2 THEN <<ls[1], "r", "n", ls[2], "r", "n">>
             ELSE <<ls[1], "r", "n", ls[2], "r", "n", ls[3], "r", "n">>
Msg(ls, body, method, data, code) ==
    [wire |-> Lines(ls) \o <<"r", "n">> \o body, req |-> [method |-> method, body |-> data],
     status |-> code]
Post3(h) == <<"POST", "json", h>>
Get      == Msg(<<"GET">>, <<>>, "GET", <<>>, 0)
Sized    == Msg(Post3("len2"), <<"r", "n">>, "POST", <<"r", "n">>, 0)
Requests ==
    {Get, Sized,
     Msg(<<"GET", "close">>, <<>>, "GET", <<>>, 0),
     Msg(Post3("len0"), <<>>, "POST", <<>>, 0),
     Msg(Post3("chunked"), <<"2", "r", "n", "n", "b", "r", "n", "1", "r", "n", "0", "r", "n",
                             "0", "r", "n", "r", "n">>, "POST", <<"n", "b", "0">>, 0),
     Msg(Post3("chunked"), <<"0", "r", "n", "other", "r", "n", "r", "n">>, "POST", <<>>, 0),
     Msg(<<"OLD">>, <<>>, "OLD", <<>>, 400),
     Msg(<<"GET", "junk", "len9">>, <<>>, "GET", <<>>, 400),
     Msg(<<"POST", "json">>, <<>>, "POST", <<>>, 411),
     Msg(<<"POST", "len2">>, <<"b", "b">>, "POST", <<>>, 415),
     Msg(<<"POST", "chunked", "len2">>, <<>>, "POST", <<>>, 400),
     Msg(Post3("chunked"), <<"zz", "r", "n", "b">>, "POST", <<>>, 400),
     Msg(Post3("chunked"), <<"1", "r", "n", "b", "b", "n">>, "POST", <<>>, 400)}
Huge == {Get, Sized, Msg(Post3("len9"), <<"b", "b">>, "POST", <<>>, 413),
         Msg(Post3("chunked"), <<"99", "r", "n", "b">>, "POST", <<>>, 413)}

(* Tokens of texts about the think block, about characters of several bytes  *)
(* and about tool calls.                                                     *)
ThinkTokens == {<<"a">>, <<"_">>, <<"n">>, <<"<">>, <<"T">>, <<"/T">>, <<"E">>, <<"/T", "n">>}
ByteTokens  == {<<"a">>, <<"_">>, <<"h">>, <<"t">>, <<"<">>, <<"/T">>, <<"h", "t">>}
ToolTokens  == {<<"a">>, <<"n">>, <<"<">>, <<"C", "<", "f", "=">>, <<"/C", "_">>,
                <<"<", "f", "=">>, <<"_", "<", "E">>, <<"<", "C", "<", "f", "=", "<", "/C">>}

(* Conversations whose instructions and transcript change, or whose tools do. *)
Message(role, word) ==
    [role |-> role, word |-> word, pad |-> FALSE, media |-> <<>>, calls |-> <<>>, tid |-> "none"]
User    == Message("user", "hello")
Picture == [Message("user", "look") EXCEPT !.media = <<"image">>]
Result  == [Message("tool", "42") EXCEPT !.tid = "c1"]
Runs    == {<<>>, <<"", "be brief">>, <<"be brief", "be kind">>}
Inputs  == {<<>>, <<User>>, <<Picture>>, <<Result, User>>, <<Result, Result>>}
F1 == [name |-> "f", def |-> 1]
F2 == [name |-> "f", def |-> 2]
G  == [name |-> "g", def |-> 1]
ToolLists == {<<>>, <<F1>>, <<F2, G>>, <<G, F1>>, <<F1, F2>>}

Reqs == INSTANCE HttpParser WITH
    Messages <- Requests, Count <- 2, MaxRequest <- 60, MaxHeader <- 40
Sizes == INSTANCE HttpParser WITH
    Messages <- Huge, Count <- 3, MaxRequest <- 18, MaxHeader <- 14
Think == INSTANCE ChatStream WITH
    Tokens <- ThinkTokens, MaxTokens <- 5, ToolChoices <- {"auto"},
    ThinkModes <- BOOLEAN, Streams <- {TRUE}
Utf == INSTANCE ChatStream WITH
    Tokens <- ByteTokens, MaxTokens <- 5, ToolChoices <- {"auto"},
    ThinkModes <- {TRUE}, Streams <- {TRUE}
Tools == INSTANCE ChatStream WITH
    Tokens <- ToolTokens, MaxTokens <- 4,
    ToolChoices <- {"auto", "none", "required", "undeclared"},
    ThinkModes <- BOOLEAN, Streams <- BOOLEAN
Calls == INSTANCE ChatStream WITH
    Tokens <- ToolTokens, MaxTokens <- 5, ToolChoices <- {"auto"},
    ThinkModes <- {FALSE}, Streams <- {TRUE}
History == INSTANCE Continuation WITH
    SystemRuns <- Runs, ToolLists <- {<<>>}, ToolChoices <- {"auto"},
    Edits <- {"none", "pad", "edit", "swap", "drop"}, Inputs <- Inputs,
    Outcomes <- {"text", "call", "miss", "fail"}, Turns <- 3
Schemas == INSTANCE Continuation WITH
    SystemRuns <- {<<>>}, ToolLists <- ToolLists,
    ToolChoices <- {"auto", "none", "required", "f", "g"}, Edits <- {"none"},
    Inputs <- {<<User>>, <<Result>>}, Outcomes <- {"text", "call", "fail"},
    Turns <- 3

(* The assumptions of the modules hold of these constants.                 *)
ASSUME InstancesAssumption ==
    /\ Reqs!HttpParserAssumption /\ Sizes!HttpParserAssumption
    /\ Think!ChatStreamAssumption /\ Utf!ChatStreamAssumption
    /\ Tools!ChatStreamAssumption /\ Calls!ChatStreamAssumption
    /\ History!ContinuationAssumption /\ Schemas!ContinuationAssumption

(* The variables of a module that the case is not about.                    *)
Off == "off"
NoHttp ==
    /\ sent = Off /\ wire = Off /\ buf = Off /\ busy = Off /\ served = Off
    /\ status = Off /\ closing = Off /\ eof = Off
NoAnswer ==
    /\ choice = Off /\ thinking = Off /\ stream = Off /\ left = Off /\ g = Off
    /\ out = Off /\ phase = Off
NoTalk ==
    /\ chat = Off /\ session = Off /\ context = Off /\ asked = Off /\ prompt = Off
    /\ turn = Off

Init ==
    \/ case = "requests" /\ Reqs!Init /\ NoAnswer /\ NoTalk
    \/ case = "sizes" /\ Sizes!Init /\ NoAnswer /\ NoTalk
    \/ case = "think" /\ Think!Init /\ NoHttp /\ NoTalk
    \/ case = "bytes" /\ Utf!Init /\ NoHttp /\ NoTalk
    \/ case = "tools" /\ Tools!Init /\ NoHttp /\ NoTalk
    \/ case = "calls" /\ Calls!Init /\ NoHttp /\ NoTalk
    \/ case = "history" /\ History!Init /\ NoHttp /\ NoAnswer
    \/ case = "schemas" /\ Schemas!Init /\ NoHttp /\ NoAnswer

Next ==
    \/ case = "requests" /\ Reqs!Next /\ UNCHANGED <<case, answerVars, talkVars>>
    \/ case = "sizes" /\ Sizes!Next /\ UNCHANGED <<case, answerVars, talkVars>>
    \/ case = "think" /\ Think!Next /\ UNCHANGED <<case, httpVars, talkVars>>
    \/ case = "bytes" /\ Utf!Next /\ UNCHANGED <<case, httpVars, talkVars>>
    \/ case = "tools" /\ Tools!Next /\ UNCHANGED <<case, httpVars, talkVars>>
    \/ case = "calls" /\ Calls!Next /\ UNCHANGED <<case, httpVars, talkVars>>
    \/ case = "history" /\ History!Next /\ UNCHANGED <<case, httpVars, answerVars>>
    \/ case = "schemas" /\ Schemas!Next /\ UNCHANGED <<case, httpVars, answerVars>>

Spec == Init /\ [][Next]_vars

-----------------------------------------------------------------------------
(* However the bytes are cut and pipelined, the requests dispatched are the *)
(* client's messages in order with their exact bodies, and a refusal        *)
(* carries the status of the first message that was not served.             *)
ParserExact ==
    /\ case = "requests" => Reqs!ParserExact
    /\ case = "sizes" => Sizes!ParserExact


=============================================================================

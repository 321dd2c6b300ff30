----------------------------- MODULE MCResident -----------------------------
(***************************************************************************)
(* What a rank keeps from one token, lookup or request to the next: the    *)
(* resident session of a conversation (RuntimeSession), the command        *)
(* buffers of the device that are replayed (StaticReplay), the block cache *)
(* of the n-gram table (NgramStore), its shards on the workers             *)
(* (NgramRanks) and the locality trace of the page cache (Locality).  The  *)
(* modules share no variable: a behaviour is one of one module alone, and  *)
(* `case' says of which; the shards stay in their initial state in the     *)
(* cases of the others.                                                    *)
(***************************************************************************)
EXTENDS NgramRanks

VARIABLES
    case,   \* what a behaviour is about, one of the cases below
    \* StaticReplay
    vk, bufs, descr, queue, fences, sems, mem, gdn, own, host,
    \* NgramStore
    history, cache, lookups, lookup,
    \* Locality
    prio, tree, clock, generation, seen, previous, stats, selected, order, caches,
    expect, selections,
    \* RuntimeSession
    rt, transport, public, job, last

replayVars == <<vk, bufs, descr, queue, fences, sems, mem, gdn, own, host>>
storeVars == <<history, cache, lookups, lookup>>
traceVars == <<prio, tree, clock, generation, seen, previous, stats, selected, order,
               caches, expect, selections>>
sessionVars == <<rt, transport, public, job, last>>
allVars == <<case, vars, replayVars, storeVars, traceVars, sessionVars>>

Replay == INSTANCE StaticReplay WITH
    FirstLayer <- 1, LastLayer <- 8, PerSession <- 2, Half <- 3, GroupBuffers <- 3,
    Statics <- BOOLEAN, Groups <- {0}, Batches <- BOOLEAN, Caches <- BOOLEAN,
    Periods <- {0, 2}, Traces <- {FALSE}, MaxToken <- 2, MaxFaults <- 0
Group == INSTANCE StaticReplay WITH
    FirstLayer <- 1, LastLayer <- 8, PerSession <- 3, Half <- 3, GroupBuffers <- 3,
    Statics <- {TRUE}, Groups <- {1, 2}, Batches <- {FALSE}, Caches <- {TRUE},
    Periods <- {0}, Traces <- {FALSE}, MaxToken <- 2, MaxFaults <- 0
Fault == INSTANCE StaticReplay WITH
    FirstLayer <- 1, LastLayer <- 4, PerSession <- 2, Half <- 2, GroupBuffers <- 9,
    Statics <- BOOLEAN, Groups <- {0, 1}, Batches <- {FALSE}, Caches <- {TRUE},
    Periods <- {0}, Traces <- {FALSE}, MaxToken <- 2, MaxFaults <- 1
Store == INSTANCE NgramStore WITH
    Words <- {0, 1}, Eos <- 2, Vocab2 <- 5, Vocab3 <- 7, RowBytes <- 3,
    BlockBytes <- 4, CacheSets <- 2, CacheWays <- 2, IoSlots <- 2, MaxTokens <- 2,
    MaxHistory <- 5, MaxLookups <- 3, last <- lookup
Chat == INSTANCE RuntimeSession WITH
    Images <- {"a", "b"}, Turns <- {<<"x">>, <<"a">>, <<"b">>}, Width <- 2,
    Height <- 2, ContextLimit <- 12, MaxTokens <- 1, Quantum <- 2, MaxText <- 4
Media == INSTANCE RuntimeSession WITH
    Images <- {"a", "b"}, Turns <- {<<"a">>, <<"x", "b">>}, Width <- 2, Height <- 2,
    ContextLimit <- 15, MaxTokens <- 2, Quantum <- 2, MaxText <- 10
Loc == INSTANCE Locality WITH
    LayerSlots <- 2, MaxBlocks <- 2, Ratio <- 2, HotTokens <- 2,
    Budgets <- {1, 2, 3}, Generations <- 3, TokenCounts <- {4, 6}, MaxPages <- 2,
    MaxSelections <- 3, last <- selected

(* The assumptions of the modules hold of these constants.                 *)
ASSUME InstancesAssumption ==
    /\ NgramRanksAssumption
    /\ Replay!ReplayAssumption /\ Group!ReplayAssumption /\ Fault!ReplayAssumption
    /\ Store!NgramStoreAssumption
    /\ Loc!LocalityAssumption
    /\ Chat!RuntimeAssumption /\ Media!RuntimeAssumption

(* The variables of a module that the case is not about.                    *)
Off == "off"
NoReplay ==
    /\ vk = Off /\ bufs = Off /\ descr = Off /\ queue = Off /\ fences = Off
    /\ sems = Off /\ mem = Off /\ gdn = Off /\ own = Off /\ host = Off
NoStore ==
    /\ history = Off /\ cache = Off /\ lookups = Off /\ lookup = Off
NoTrace ==
    /\ prio = Off /\ tree = Off /\ clock = Off /\ generation = Off /\ seen = Off
    /\ previous = Off /\ stats = Off /\ selected = Off /\ order = Off
    /\ caches = Off /\ expect = Off /\ selections = Off
NoSession ==
    /\ rt = Off /\ transport = Off /\ public = Off /\ job = Off /\ last = Off

MCInit ==
    /\ Init
    /\ \/ case = "ranks" /\ NoReplay /\ NoStore /\ NoTrace /\ NoSession
       \/ case = "replay" /\ Replay!Init /\ NoStore /\ NoTrace /\ NoSession
       \/ case = "group" /\ Group!Init /\ NoStore /\ NoTrace /\ NoSession
       \/ case = "fault" /\ Fault!Init /\ NoStore /\ NoTrace /\ NoSession
       \/ case = "rows" /\ Store!Init /\ NoReplay /\ NoTrace /\ NoSession
       \/ case = "session" /\ Chat!Init /\ NoReplay /\ NoStore /\ NoTrace
       \/ case = "media" /\ Media!Init /\ NoReplay /\ NoStore /\ NoTrace
       \/ case = "locality" /\ Loc!Init /\ NoReplay /\ NoStore /\ NoSession

MCNext ==
    \/ /\ case = "ranks" /\ Next
       /\ UNCHANGED <<case, replayVars, storeVars, traceVars, sessionVars>>
    \/ /\ case = "replay" /\ Replay!Next
       /\ UNCHANGED <<case, vars, storeVars, traceVars, sessionVars>>
    \/ /\ case = "group" /\ Group!Next
       /\ UNCHANGED <<case, vars, storeVars, traceVars, sessionVars>>
    \/ /\ case = "fault" /\ Fault!Next
       /\ UNCHANGED <<case, vars, storeVars, traceVars, sessionVars>>
    \/ /\ case = "rows" /\ Store!Next
       /\ UNCHANGED <<case, vars, replayVars, traceVars, sessionVars>>
    \/ /\ case = "session" /\ Chat!Next
       /\ UNCHANGED <<case, vars, replayVars, storeVars, traceVars>>
    \/ /\ case = "media" /\ Media!Next
       /\ UNCHANGED <<case, vars, replayVars, storeVars, traceVars>>
    \/ /\ case = "locality" /\ Loc!Next
       /\ UNCHANGED <<case, vars, replayVars, storeVars, sessionVars>>

MCSpec == MCInit /\ [][MCNext]_allVars

-----------------------------------------------------------------------------
(* A decode block that returns FG_OK left in its output the hidden state of *)
(* this token of this session after every layer, whether its runs were      *)
(* recorded, replayed, held back, grouped or published early and whatever   *)
(* failed before; no fence, semaphore, command buffer or descriptor set is  *)
(* used again while a submission needs it; nothing is in flight once a      *)
(* block has returned.                                                      *)
ReplaySafe ==
    /\ [](/\ case = "replay" =>
                Replay!TypeOK /\ Replay!BlockExact /\ Replay!HandlesExclusive
          /\ case = "group" => Group!BlockExact /\ Group!DrainedOnReturn
          /\ case = "fault" => Fault!BlockExact)
    /\ [][/\ case = "replay" => Replay!Untouched
          /\ case = "group" => Group!Untouched]_replayVars

(* An n-gram lookup that succeeds packs the bytes of exactly the rows that  *)
(* hashing the whole history selects, across chunks, segment ends, rows     *)
(* over two blocks, evictions by the same lookup and failed reads; a cached *)
(* block holds its own bytes and is cached once; the read plan covers each  *)
(* block once.                                                              *)
LookupExact ==
    case = "rows" => Store!LookupExact

(* The treap of the page locality trace holds every cold page once, in the  *)
(* order of last access; the counted hits and distances are those of real   *)
(* LRU caches, across layers, repeated ids and resets, also when the        *)
(* generation stamp has wrapped.                                            *)
LocalityExact ==
    case = "locality" => Loc!LocalityExact

(* Between requests the history of a ready session is exactly what the      *)
(* owners absorbed; a token is generated only from the conversation it      *)
(* answers, media included; saved logits and the public session belong to   *)
(* that history; every token is where a cold prefill would put it.          *)
SessionExact ==
    /\ case = "session" => Chat!SessionInv
    /\ case = "media" => Media!PositionsAsCold
=============================================================================

----------------------------- MODULE MCExperts -----------------------------
(***************************************************************************)
(* The modules in which rank 0 sends work to the workers and collects      *)
(* their results: the reduction tree of a prefill (PrefillTree),           *)
(* the experts of a decoded token (ExpertDecode) and the rows of an n-gram *)
(* lookup (NgramRanks).  The modules share no variable: a behaviour is one *)
(* of one module alone, and `case' says of which; the decoding thread      *)
(* stays in one initial state in the cases of the others.                  *)
(***************************************************************************)
EXTENDS ExpertDecode

VARIABLES
    case,   \* what a behaviour is about, one of the cases below
    \* PrefillTree
    pc, at, failed, frame, transport, worker, wire, treeFaults,
    \* NgramRanks
    ngramTr, co, ctl, bulk, ngramAlive, faults

treeVars == <<pc, at, failed, frame, transport, worker, wire, treeFaults>>
ngramVars == <<ngramTr, co, ctl, bulk, ngramAlive, faults>>
allVars == <<case, vars, treeVars, ngramVars>>

Tree == INSTANCE PrefillTree WITH
    W <- 3, F <- 2, L <- 3, Tiles <- 2, Cap <- 2,
    Routings <- {{1, 2, 3}, {0, 2, 3}, {0}}, Faults <- 1, faults <- treeFaults
ShortTree == INSTANCE PrefillTree WITH
    W <- 3, F <- 2, L <- 2, Tiles <- 2, Cap <- 2,
    Routings <- {{1, 2, 3}, {0, 2, 3}}, Faults <- 1, faults <- treeFaults
OneToken == INSTANCE ExpertDecode WITH
    Profiles <- {FALSE}, MaxToken <- 1, MaxFaults <- 1
OneRow == INSTANCE NgramRanks WITH
    Workers <- {1, 2, 3}, HeadCount <- 2, ShardRows <- 2, MaxToken <- 1,
    MaxFaults <- 2, tr <- ngramTr, alive <- ngramAlive

(* The assumptions of the modules hold of these constants.                 *)
ASSUME InstancesAssumption ==
    /\ Tree!TreeAssumption /\ ShortTree!TreeAssumption
    /\ ExpertAssumption /\ OneToken!ExpertAssumption
    /\ OneRow!NgramRanksAssumption

(* The variables of a module that the case is not about.                    *)
Off == "off"
NoTree ==
    /\ pc = Off /\ at = Off /\ failed = Off /\ frame = Off /\ transport = Off
    /\ worker = Off /\ wire = Off /\ treeFaults = Off
NoDecode == Init /\ host.mode = "parallel" /\ ~ host.profile
NoNgram ==
    /\ ngramTr = Off /\ co = Off /\ ctl = Off /\ bulk = Off /\ ngramAlive = Off
    /\ faults = Off

MCInit ==
    \/ case = "tree" /\ Tree!Init /\ NoDecode /\ NoNgram
    \/ case = "short tree" /\ ShortTree!Init /\ NoDecode /\ NoNgram
    \/ case = "tokens" /\ Init /\ NoTree /\ NoNgram
    \/ case = "one token" /\ OneToken!Init /\ NoTree /\ NoNgram
    \/ case = "one row" /\ OneRow!Init /\ NoTree /\ NoDecode

MCNext ==
    \/ case = "tree" /\ Tree!Next /\ UNCHANGED <<case, vars, ngramVars>>
    \/ case = "short tree" /\ ShortTree!Next /\ UNCHANGED <<case, vars, ngramVars>>
    \/ case = "tokens" /\ Next /\ UNCHANGED <<case, treeVars, ngramVars>>
    \/ case = "one token" /\ OneToken!Next /\ UNCHANGED <<case, treeVars, ngramVars>>
    \/ case = "one row" /\ OneRow!Next /\ UNCHANGED <<case, vars, treeVars>>

(* The fairness that the modules state, in the cases a liveness property is about. *)
MCFairness ==
    /\ WF_treeVars(case = "short tree" /\ ShortTree!HostStep)
    /\ \A w \in ShortTree!WorkerRanks : WF_treeVars(case = "short tree" /\ ShortTree!WorkerStep(w))
    /\ WF_vars(case = "one token" /\ OneToken!Decode)
    /\ WF_vars(case = "one token" /\ OneToken!Graph)
    /\ \A w \in Workers : WF_vars(case = "one token" /\ OneToken!Serve(w))
    /\ WF_ngramVars(case = "one row" /\ OneRow!CoNext)
    /\ \A w \in 1..3 : WF_ngramVars(case = "one row" /\ OneRow!WorkerAnswers(w))

MCSpec == MCInit /\ [][MCNext]_allVars /\ MCFairness

-----------------------------------------------------------------------------
(* Every tile the coordinator of a tree prefill accepts was computed for    *)
(* that frame, layer and tile and counts each active rank once, although    *)
(* frames overtake each other; the call ends with a poisoned transport or   *)
(* with nothing in flight; one reported as done delivered every tile of the *)
(* last layer of every frame.                                               *)
TreeInv ==
    /\ case = "tree" => Tree!TreeInv
    /\ case = "short tree" => ShortTree!TreeInv

(* A tree prefill, a decoded token and an n-gram lookup return to their     *)
(* caller, whichever ranks fail in their middle.                            *)
CallsReturn ==
    /\ (case = "short tree") ~> (case = "short tree" => ShortTree!Returned)
    /\ (case = "one token" /\ host.pc = "begin") ~> (case = "one token" => OneToken!Ended)
    /\ (case = "one row" /\ co.pc # "idle") ~> (case = "one row" => co.pc = "idle")
=============================================================================

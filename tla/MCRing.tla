------------------------------- MODULE MCRing -------------------------------
(***************************************************************************)
(* The modules about the ranks of a ring at work: the transaction of a     *)
(* batch step on the owners (OwnerTransaction), prefill and decode around  *)
(* the ring (RingBlocks) and the choice of a token (OutputSplit).  They    *)
(* share no variable: a behaviour is one of one module alone, and `case'   *)
(* says of which; the variables of the other modules stay in their initial *)
(* states.                                                                 *)
(***************************************************************************)
EXTENDS OwnerTransaction, RingBlocks, OutputSplit

VARIABLE case   \* what a behaviour is about, one of the cases below

allVars == <<case, vars, blocksVars, splitVars>>

(* Rank 0 owns the middle block.                                            *)
MCChain == <<1, 0, 2>>

(* Logit vectors over the five rows: the best ones lie in different slices. *)
Logits(best) == [v \in 0..4 |-> IF v \in best THEN 2 ELSE 0]
MCLogits == {Logits({1, 4}), Logits({3, 4})}

Alive == INSTANCE OwnerTransaction WITH MayCrash <- FALSE
Dying == INSTANCE OwnerTransaction WITH MaxSteps <- 1, MaxTries <- 2
Legacy == INSTANCE RingBlocks WITH
    Frames <- 3, Window <- 2, MaxTokens <- 3
Sliced == INSTANCE OutputSplit WITH
    LogitChoices <- {Logits({1, 4})}, MaxBegins <- 0, Wedges <- 0,
    SamplerModes <- {"greedy", "penalised"}
Lone == INSTANCE OutputSplit WITH SessionSlots <- {0}

(* The assumptions of the modules hold of these constants.                 *)
ASSUME InstancesAssumption ==
    /\ ChainAssumption /\ Alive!ChainAssumption /\ Dying!ChainAssumption
    /\ RingAssumption /\ Legacy!RingAssumption
    /\ OutputSplitAssumption /\ Sliced!OutputSplitAssumption /\ Lone!OutputSplitAssumption

NoBlocks == RingInit /\ ringDecode

MCInit ==
    /\ Init /\ SplitInit
    /\ \/ case \in {"transaction", "crash", "split", "wedge"} /\ NoBlocks
       \/ case = "blocks" /\ RingInit /\ ringDecode
       \/ case = "legacy" /\ Legacy!RingInit /\ ~ringDecode

MCNext ==
    \/ case = "transaction" /\ Alive!Next /\ UNCHANGED <<case, blocksVars, splitVars>>
    \/ case = "crash" /\ Dying!Next /\ UNCHANGED <<case, blocksVars, splitVars>>
    \/ case = "blocks" /\ RingNext /\ UNCHANGED <<case, vars, splitVars>>
    \/ case = "legacy" /\ Legacy!RingNext /\ UNCHANGED <<case, vars, splitVars>>
    \/ case = "split" /\ Sliced!SplitNext /\ UNCHANGED <<case, vars, blocksVars>>
    \/ case = "wedge" /\ Lone!SplitNext /\ UNCHANGED <<case, vars, blocksVars>>

(* The fairness that the modules state, in the cases a liveness property is about. *)
MCFairness ==
    /\ WF_vars(case = "crash" /\ Dying!Send)
    /\ WF_vars(case = "crash" /\ Dying!Receive)
    /\ WF_vars(case = "crash" /\ Dying!RunBlock)
    /\ WF_vars(case = "crash" /\ Dying!RingBreaks)
    /\ WF_vars(case = "crash" /\ Dying!StepRestore)
    /\ WF_vars(case = "crash" /\ Dying!StepReturns)
    /\ \A p \in Peers : WF_vars(case = "crash" /\ Dying!HandleTransaction(p))
    /\ WF_blocksVars(case = "blocks" /\ HostStep)
    /\ \A r \in Workers : WF_blocksVars(case = "blocks" /\ WorkerStep(r))
    /\ WF_splitVars(case = "wedge" /\ Lone!TokenStep(0))
    /\ WF_splitVars(case = "wedge" /\ Lone!FinalOwner(0))
    /\ \A r \in Lone!Helpers : WF_splitVars(case = "wedge" /\ Lone!HelperSlice(r))
    /\ \A r \in {0} \cup Lone!Helpers : WF_splitVars(case = "wedge" /\ Lone!OwnerControl(r))
    /\ WF_splitVars(case = "wedge" /\ Lone!OwnerBulk)
    /\ WF_splitVars(case = "wedge" /\ Lone!OwnerTimeout)

MCSpec == MCInit /\ [][MCNext]_allVars /\ MCFairness

-----------------------------------------------------------------------------
(* Every prefill, decode, synchronisation and session begin of rank 0       *)
(* returns, with a result or an error, whoever fails meanwhile, and rank 0  *)
(* does not wait for ever for a token, whichever of the helpers or rank 7   *)
(* stops answering; rank 0 and a worker are never blocked in a send to each *)
(* other while the window is within what the links hold.                    *)
CallsReturn ==
    /\ [](case = "blocks" => NoMutualBlock)
    /\ (case = "blocks" /\ Called) ~> (case = "blocks" => ~ Called)
    /\ (case = "wedge" /\ Lone!Waiting(0)) ~> (case = "wedge" => ~ Lone!Waiting(0))

(* Every batch step ends: rank 0 never waits for a reply that cannot come,  *)
(* although a worker may die at any point.                                  *)
BatchStepsEnd ==
    (case = "crash" /\ ~ Dying!Resting) ~> (case = "crash" => Dying!Resting)
=============================================================================

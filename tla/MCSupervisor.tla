---------------------------- MODULE MCSupervisor ----------------------------
(***************************************************************************)
(* How the ring comes up and comes back: the start of the ranks            *)
(* (FabricStart), whose processes may die, and the supervisor that starts  *)
(* them again (RingSupervisor): one that keeps a live API, one of a FIFO   *)
(* ring, one in every kind of trouble, and the deadline of a lease.  The   *)
(* modules share no variable: a behaviour is one of one module alone, and  *)
(* `case' says of which; the ranks of FabricStart stay down in the cases   *)
(* of the supervisor.                                                      *)
(***************************************************************************)
EXTENDS FabricStart

VARIABLES
    case,   \* what a behaviour is about, one of the cases below
    \* FabricStart, with one rank more
    manifest4, life4, phase4, step4, backlog4, answer4, link4, wire4,
    \* RingSupervisor
    proc, epoch, recipe, image, pause, doing, todo, bad, seen, keep, want, second,
    late, trouble

calmVars == <<manifest4, life4, phase4, step4, backlog4, answer4, link4, wire4>>
superVars == <<proc, epoch, recipe, image, pause, doing, todo, bad, seen, keep, want,
               second, late, trouble>>
allVars == <<case, vars, calmVars, superVars>>

Calm == INSTANCE FabricStart WITH
    N <- 4, Manifests <- {"m1"}, Crashes <- 0, manifest <- manifest4, life <- life4,
    phase <- phase4, step <- step4, backlog <- backlog4, answer <- answer4,
    link <- link4, wire <- wire4
WorkerLost == INSTANCE RingSupervisor WITH
    Workers <- {1, 2}, Multiplexed <- TRUE, Mortal <- {1, 2}, WatchMayDie <- FALSE,
    Torn <- FALSE, Prompt <- FALSE, Cold <- FALSE, Lease <- FALSE, MaxTrouble <- 1,
    phase <- doing
Fifo == INSTANCE RingSupervisor WITH
    Workers <- {1, 2}, Multiplexed <- FALSE, Mortal <- {0, 1, 2},
    WatchMayDie <- FALSE, Torn <- FALSE, Prompt <- FALSE, Cold <- FALSE,
    Lease <- FALSE, MaxTrouble <- 2,
    phase <- doing
Trouble == INSTANCE RingSupervisor WITH
    Workers <- {1, 2}, Multiplexed <- TRUE, Mortal <- {0, 1, 2},
    WatchMayDie <- TRUE, Torn <- TRUE, Prompt <- TRUE, Cold <- TRUE, Lease <- FALSE,
    MaxTrouble <- 2,
    phase <- doing
Lease == INSTANCE RingSupervisor WITH
    Workers <- {1, 2}, Multiplexed <- TRUE, Mortal <- {1, 2}, WatchMayDie <- FALSE,
    Torn <- FALSE, Prompt <- FALSE, Cold <- FALSE, Lease <- TRUE, MaxTrouble <- 0,
    phase <- doing

(* The assumptions of the modules hold of these constants.                 *)
ASSUME InstancesAssumption ==
    /\ StartAssumption /\ Calm!StartAssumption
    /\ WorkerLost!SupervisorAssumption /\ Fifo!SupervisorAssumption
    /\ Trouble!SupervisorAssumption /\ Lease!SupervisorAssumption

(* The variables of a module that the case is not about.                    *)
Off == "off"
NoStart == Init /\ manifest = [r \in Ranks |-> CHOOSE m \in Manifests : TRUE]
NoCalm ==
    /\ manifest4 = Off /\ life4 = Off /\ phase4 = Off /\ step4 = Off
    /\ backlog4 = Off /\ answer4 = Off /\ link4 = Off /\ wire4 = Off
NoSuper ==
    /\ proc = Off /\ epoch = Off /\ recipe = Off /\ image = Off /\ pause = Off
    /\ doing = Off /\ todo = Off /\ bad = Off /\ seen = Off /\ keep = Off
    /\ want = Off /\ second = Off /\ late = Off /\ trouble = Off

MCInit ==
    \/ case = "start" /\ Init /\ NoCalm /\ NoSuper
    \/ case = "calm" /\ Calm!Init /\ NoStart /\ NoSuper
    \/ case = "worker lost" /\ WorkerLost!Init /\ NoStart /\ NoCalm
    \/ case = "fifo" /\ Fifo!Init /\ NoStart /\ NoCalm
    \/ case = "trouble" /\ Trouble!Init /\ NoStart /\ NoCalm
    \/ case = "lease" /\ Lease!Init /\ NoStart /\ NoCalm

MCNext ==
    \/ case = "start" /\ Next /\ UNCHANGED <<case, calmVars, superVars>>
    \/ case = "calm" /\ Calm!Next /\ UNCHANGED <<case, vars, superVars>>
    \/ case = "worker lost" /\ WorkerLost!Next /\ UNCHANGED <<case, vars, calmVars>>
    \/ case = "fifo" /\ Fifo!Next /\ UNCHANGED <<case, vars, calmVars>>
    \/ case = "trouble" /\ Trouble!Next /\ UNCHANGED <<case, vars, calmVars>>
    \/ case = "lease" /\ Lease!Next /\ UNCHANGED <<case, vars, calmVars>>

(* The fairness that the modules state, in the cases a liveness property is about. *)
MCFairness ==
    /\ \A r \in Calm!Ranks : WF_calmVars(case = "calm" /\ Calm!Progress(r))
    /\ WF_calmVars(case = "calm" /\ Calm!BeginSession)
    /\ WF_superVars(case = "trouble" /\ Trouble!RingStep)
    /\ WF_superVars(case = "trouble" /\ Trouble!WatchStep)
    /\ SF_superVars(case = "trouble" /\ Trouble!ReadyExpires)
    /\ \A c \in Trouble!Clients : WF_superVars(case = "trouble" /\ Trouble!Commands(c))
    /\ WF_superVars(case = "trouble" /\ Trouble!LateCommands)
    /\ WF_superVars(case = "lease" /\ Lease!RingStep)
    /\ WF_superVars(case = "lease" /\ Lease!WatchStep)
    /\ SF_superVars(case = "lease" /\ Lease!ReadyExpires)
    /\ \A c \in Lease!Clients : WF_superVars(case = "lease" /\ Lease!Commands(c))
    /\ WF_superVars(case = "lease" /\ (Lease!DeadlineStep \/ Lease!DeadlineEnds))

MCSpec == MCInit /\ [][MCNext]_allVars /\ MCFairness

-----------------------------------------------------------------------------
(* If nothing fails the whole ring starts: connecting to the lower ranks    *)
(* and accepting the higher ones (fg_fabric_open) has no cycle of waits, in *)
(* whatever order the hosts come up.                                        *)
WholeRingStarts ==
    (case = "calm") ~> (case = "calm" => Calm!Settled)


(* Once things stop going wrong, the ring comes back and stays, after       *)
(* deaths of any rank, failed, lost and late commands, early time-outs and  *)
(* a killed supervisor; once the deadline of a lease fires, the fleet runs  *)
(* the baseline again.                                                      *)
FleetComesBack ==
    /\ <>[](case = "trouble" => Trouble!Whole)
    /\ (case = "lease" /\ doing["deadline"] = "restore0") ~> (case = "lease" => Lease!Restored)
=============================================================================

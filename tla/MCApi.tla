------------------------------- MODULE MCApi -------------------------------
(***************************************************************************)
(* Three cases of the API server (ApiServer): two clients that compete for *)
(* admission and may leave, two that stay, and one client that keeps its   *)
(* connection for further requests of every kind.  `case' says of which a  *)
(* behaviour is.  The constants of the run are those of the largest case;  *)
(* the others are instances with smaller ones on the same variables.       *)
(***************************************************************************)
EXTENDS ApiServer

VARIABLE case   \* what a behaviour is about

allVars == <<case, vars>>

Compete == INSTANCE ApiServer WITH
    Requests <- 1, Kinds <- {"chat"}, Ends <- {"closed"}, OutputLimit <- 1
Wait == INSTANCE ApiServer WITH
    Requests <- 1, Kinds <- {"chat"}, Ends <- {}, OutputLimit <- 1

(* The assumptions of the modules hold of these constants.                 *)
ASSUME InstancesAssumption ==
    ApiAssumption /\ Compete!ApiAssumption /\ Wait!ApiAssumption

(* The first client alone: the second never connects.                      *)
Alone == client'[2].mode = "none"

MCInit ==
    \/ case = "admission" /\ Compete!Init
    \/ case = "waiting" /\ Wait!Init
    \/ case = "keep alive" /\ Init

MCNext ==
    \/ case = "admission" /\ Compete!Next /\ UNCHANGED case
    \/ case = "waiting" /\ Wait!Next /\ UNCHANGED case
    \/ case = "keep alive" /\ Next /\ Alone /\ UNCHANGED case

(* The fairness of the module, in the cases a liveness property is about.  *)
MCFrontend == \/ case = "waiting" /\ Wait!FrontendNext
              \/ case = "keep alive" /\ FrontendNext
MCEngine == \/ case = "waiting" /\ Wait!EngineNext
            \/ case = "keep alive" /\ EngineNext
MCFlushAll(c) == \/ case = "waiting" /\ Wait!FlushAll(c)
                 \/ case = "keep alive" /\ FlushAll(c)
MCFairness ==
    /\ WF_vars(MCFrontend) /\ WF_vars(MCEngine)
    /\ \A c \in Conns : SF_vars(MCFlushAll(c))

MCSpec == MCInit /\ [][MCNext]_allVars /\ MCFairness

-----------------------------------------------------------------------------
(* Every admitted request is completed, unless the server shuts down and    *)
(* frees the connection.                                                    *)
RequestsComplete ==
    \A c \in Conns : (case # "admission" /\ Queued(c))
                      ~> (case # "admission" => Completed(c))

(* Connections and threads end: a client that left while the engine was not  *)
(* working for it is noticed (its connection is freed, or a request it had   *)
(* sent before is admitted), and after a signal or a fatal error both        *)
(* threads end and every connection is freed.                                *)
ConnectionsEnd ==
    /\ (case = "keep alive" /\ Deserted(1)) ~> (case = "keep alive" => Noticed(1))
    /\ (case = "keep alive" /\ epc = "stop") ~> (case = "keep alive" => Down)
=============================================================================

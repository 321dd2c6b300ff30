----------------------------- MODULE MCSessions -----------------------------
(***************************************************************************)
(* Instances of the two modules on two sessions that share one ring: the   *)
(* cooperative pipeline and its recovery (MultiSession) and the choice of  *)
(* the session a request continues or evicts (SessionRouter).  The modules *)
(* share no variable: a behaviour is one of one module alone, and `case'   *)
(* says of which; the pipeline stays in its initial state in the cases of  *)
(* the router.                                                             *)
(***************************************************************************)
EXTENDS MultiSession

VARIABLES
    case,   \* what a behaviour is about, one of the cases below
    \* SessionRouter
    body, asked, running, session, used, answered, faults, loop

routerVars == <<body, asked, running, session, used, answered, faults, loop>>
allVars == <<case, vars, routerVars>>

(* Instructions, the turns of an agent and two titles.                      *)
Bytes == [sys |-> 2, u |-> 5, v |-> 4, t |-> 1, w |-> 2, a |-> 1]
Texts == {<<"sys", "u">>, <<"sys", "u", "a", "v">>, <<"sys", "t">>, <<"w">>, <<"sys">>}

OneOutage == INSTANCE MultiSession WITH MaxOutages <- 1
Router == INSTANCE SessionRouter WITH
    Asked <- 3, Capacity <- 3, Texts <- Texts, System <- {"sys"}, Bytes <- Bytes,
    Reply <- "a", MayGarble <- TRUE, MayLeave <- FALSE, MaxFaults <- 1,
    queue <- asked, epc <- loop
Title == INSTANCE SessionRouter WITH
    Asked <- 3, Capacity <- 3, Texts <- Texts \ {<<"sys">>}, System <- {"sys"},
    Bytes <- Bytes, Reply <- "a", MayGarble <- FALSE, MayLeave <- FALSE,
    MaxFaults <- 0, queue <- asked, epc <- loop

(* The assumptions of the modules hold of these constants.                 *)
ASSUME InstancesAssumption ==
    /\ MultiSessionAssumption /\ OneOutage!MultiSessionAssumption
    /\ Router!SessionRouterAssumption /\ Title!SessionRouterAssumption

(* The variables of the router in the cases of the pipeline.                *)
Off == "off"
NoRouter ==
    /\ body = Off /\ asked = Off /\ running = Off /\ session = Off /\ used = Off
    /\ answered = Off /\ faults = Off /\ loop = Off

(* Two requests only: the third is never made.                              *)
TwoRequests == request'[3] = "new"

MCInit ==
    /\ Init
    /\ \/ case \in {"ring", "ring ends"} /\ NoRouter
       \/ case = "router" /\ Router!Init
       \/ case = "title" /\ Title!Init

MCNext ==
    \/ case = "ring" /\ Next /\ UNCHANGED <<case, routerVars>>
    \/ /\ case = "ring ends" /\ OneOutage!Next /\ TwoRequests
       /\ UNCHANGED <<case, routerVars>>
    \/ case = "router" /\ Router!Next /\ UNCHANGED <<case, vars>>
    \/ case = "title" /\ Title!Next /\ UNCHANGED <<case, vars>>

(* The fairness that the modules state, in the cases a liveness property is about. *)
MCFairness ==
    /\ WF_vars(case = "ring ends" /\ OneOutage!EngineNext)
    /\ WF_vars(case = "ring ends" /\ OneOutage!Deliver)
    /\ WF_routerVars(case = "title" /\ Title!Idle)
    /\ WF_loop(case = "title" /\ Title!Scanned)
    /\ \A i \in {0, 1} : SF_routerVars(case = "title" /\ Title!Finish(i))

MCSpec == MCInit /\ [][MCNext]_allVars /\ MCFairness

-----------------------------------------------------------------------------
(* Every admitted request ends, whatever fails, unless the server stops     *)
(* before it is started; one that runs ends even then; and a lost ring is   *)
(* recovered, or the server ends.                                           *)
JobsEnd ==
    /\ \A r \in 1..2 : (case = "ring ends" /\ request[r] = "queued")
                        ~> (case = "ring ends" => request[r] = "done" \/ stop)
    /\ \A r \in 1..2 : (case = "ring ends" /\ request[r] = "running")
                        ~> (case = "ring ends" => request[r] = "done")
    /\ (case = "ring ends" /\ recovering)
       ~> (case = "ring ends" => ~recovering \/ epc = "done")

(* The two slots never share the first words of a client (a busy best match *)
(* waits instead of duplicating resident state), a request that continues a *)
(* resident conversation word for word is never started in a slot that      *)
(* holds another one, and an idle conversation longer than everything       *)
(* unrelated to it outlives every step but the loss of the ring and the     *)
(* start of a request that continues it.                                    *)
ConversationsKept ==
    /\ [](/\ case = "router" => Router!TypeOK /\ Router!NeverTwice
          /\ case = "title" => Title!NeverTwice)
    /\ [][case = "router" => Router!StartsAtHome]_routerVars
    /\ [][case = "title" => Title!SparesLongest]_routerVars

(* Whatever waits in the queue is started and answered: no choice of slots  *)
(* makes a request wait for a slot that never qualifies.                    *)
Answered ==
    \A r \in 1..3 : (case = "title" /\ body[r] # Title!Unsent)
                     ~> (case = "title" => r \in answered)
=============================================================================

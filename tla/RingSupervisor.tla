--------------------------- MODULE RingSupervisor ---------------------------
(***************************************************************************)
(* The watchdog that keeps the eight ranks up                              *)
(* (src/tools/fg_ring_supervisor.py), the entry point it reaches on every  *)
(* host (src/tools/fg_ring_control.py), the deadline that ends a fleet     *)
(* lease (src/tools/fg_lease_deadline.py), and what they meet: rank 0 with *)
(* its /health answer and ring recovery (src/src/api.c), workers that end  *)
(* with their ring, commands that fail, time out or take effect late.      *)
(***************************************************************************)
EXTENDS Naturals, FiniteSets

CONSTANTS
    Workers,        \* ranks other than 0
    Multiplexed,    \* two-session API: recovers its ring and says so in /health
    Mortal,         \* ranks whose process may die by itself
    WatchMayDie,    \* the supervisor process may be killed and started again
    Torn,           \* a fault may fall between the two loads of /health
    Prompt,         \* rank 0 misses a worker before a start command returns
    Cold,           \* the hosts have just booted: no rank runs
    Lease,          \* a fleet lease with its deadline is active
    MaxTrouble      \* bound: deaths, failed commands and early time-outs

Nodes == {0} \cup Workers
Clients == {"watch", "deadline"}
Acts == {"status", "stop", "start", "restore", "copy"}

\* What the constants of every instance satisfy.
SupervisorAssumption ==
    /\ Workers # {} /\ 0 \notin Workers
    /\ Mortal \subseteq Nodes
    /\ {Multiplexed, WatchMayDie, Torn, Prompt, Cold, Lease} \subseteq BOOLEAN
    /\ MaxTrouble \in Nat

VARIABLES
    proc,       \* [Nodes -> down, starting, joined or recovering]
    epoch,      \* recovery_epoch of the running API
    recipe,     \* [Nodes -> recipe launch-current.sh and current.json name]
    image,      \* [Nodes -> recipe the running process was started with]
    pause,      \* supervisor.pause exists
    phase,      \* [Clients -> what the script is doing]
    todo,       \* [Clients -> commands of the batch not yet answered]
    bad,        \* [Clients -> a command of the batch failed]
    seen,       \* status and epoch of the last health answer
    keep,       \* restart's `recovering': rank 0 is not touched
    want,       \* epoch that ready waits for, 0 stands for None
    second,     \* this restart is tick's fall-back
    late,       \* commands whose client has given up on them
    trouble     \* how much went wrong so far

ring == <<proc, epoch, recipe, image>>
watch == <<seen, keep, want, second>>
batch == <<phase, todo, bad>>
vars == <<ring, watch, batch, pause, late, trouble>>

Recipes == {"baseline", "candidate"}
Phases == {"idle", "health", "epoch", "check", "stop0", "stopW", "startW", "start0",
           "ready", "readyEpoch", "confirm",
           "armed", "restore0", "restoreW", "done", "dead"}

(* Every variable has its type; workers do not recover, they end.          *)
TypeOK ==
    /\ proc \in [Nodes -> {"down", "starting", "joined", "recovering"}]
    /\ \A w \in Workers : proc[w] # "recovering"
    /\ epoch \in Nat
    /\ recipe \in [Nodes -> Recipes] /\ image \in [Nodes -> Recipes]
    /\ phase \in [Clients -> Phases]
    /\ todo \in [Clients -> SUBSET (Nodes \X Acts)]
    /\ bad \in [Clients -> BOOLEAN]
    /\ seen \in [status : {"ok", "recovering", "down"}, epoch : Nat]
    /\ want \in Nat
    /\ {pause, keep, second} \subseteq BOOLEAN
    /\ late \subseteq Nodes \X Acts
    /\ trouble \in 0 .. MaxTrouble

Whole == \A n \in Nodes : proc[n] = "joined"

Init ==
    /\ proc = [n \in Nodes |-> IF Cold THEN "down" ELSE "joined"]
    /\ epoch = 0
    /\ recipe = [n \in Nodes |-> IF Lease THEN "candidate" ELSE "baseline"]
    /\ image = recipe
    /\ pause = FALSE
    /\ phase = [c \in Clients |-> IF c = "watch" THEN "idle"
                                  ELSE IF Lease THEN "armed" ELSE "done"]
    /\ todo = [c \in Clients |-> {}]
    /\ bad = [c \in Clients |-> FALSE]
    /\ seen = [status |-> "down", epoch |-> 0]
    /\ keep = FALSE /\ want = 0 /\ second = FALSE
    /\ late = {} /\ trouble = 0

-----------------------------------------------------------------------------
(* The ring.                                                               *)

(* A worker's loop ends when it has lost a peer.                           *)
Ends(w) == proc[w] = "joined" /\ ~Whole

(* The two-session engine finds its fabric disconnected, or a job failed.  *)
Notices == Multiplexed /\ proc[0] = "joined" /\ ~Whole

(* fg_fabric_open and rank_ready on all ranks, as FabricStart has them.    *)
Connects ==
    /\ proc[0] \in {"starting", "recovering"}
    /\ \A w \in Workers : proc[w] = "starting" /\ image[w] = image[0]

(* Ranks with different manifests refuse each other.                       *)
Refused(n) ==
    /\ proc[n] = "starting"
    /\ \E m \in Nodes : proc[m] \in {"starting", "recovering"} /\ image[m] # image[n]

WorkerEnds(w) ==
    /\ Ends(w)
    /\ proc' = [proc EXCEPT ![w] = "down"]
    /\ UNCHANGED <<epoch, recipe, image, watch, batch, pause, late, trouble>>

EngineNotices ==
    /\ Notices
    /\ proc' = [proc EXCEPT ![0] = "recovering"]
    /\ epoch' = epoch + 1
    /\ UNCHANGED <<recipe, image, watch, batch, pause, late, trouble>>

RingConnects ==
    /\ Connects
    /\ proc' = [n \in Nodes |-> "joined"]
    /\ UNCHANGED <<epoch, recipe, image, watch, batch, pause, late, trouble>>

HandshakeFails(n) ==
    /\ Refused(n)
    /\ proc' = [proc EXCEPT ![n] = "down"]
    /\ UNCHANGED <<epoch, recipe, image, watch, batch, pause, late, trouble>>

(* A process dies: at any time, or giving up on peers while it starts.     *)
ProcessDies(n) ==
    /\ n \in Mortal /\ proc[n] # "down"
    /\ trouble < MaxTrouble /\ trouble' = trouble + 1
    /\ proc' = [proc EXCEPT ![n] = "down"]
    /\ UNCHANGED <<epoch, recipe, image, watch, batch, pause, late>>

(* Nothing moves in the ring unless a command or a fault moves it.         *)
Settled ==
    ~Notices /\ ~Connects /\ \A n \in Nodes : ~Refused(n) /\ (n \in Workers => ~Ends(n))

-----------------------------------------------------------------------------
(* Commands: what the pinned launcher and fg_ring_control.py do on a host. *)

(* The launcher refuses to start beside a live process and to stop one of  *)
(* another release; status wants the pinned executable and manifest alive. *)
Refuses(n, act) ==
    CASE act = "start" -> proc[n] # "down"
      [] act \in {"stop", "restore"} -> proc[n] # "down" /\ image[n] # recipe[n]
      [] act = "status" -> proc[n] = "down" \/ image[n] # recipe[n]
      [] OTHER -> FALSE

(* What a command that is not refused changes on its host.                 *)
Effect(n, act) ==
    /\ proc' = [proc EXCEPT ![n] =
                  IF act \in {"stop", "restore"} THEN "down"
                  ELSE IF act = "start" THEN "starting" ELSE @]
    /\ epoch' = IF n = 0 /\ act = "start" THEN 0 ELSE epoch
    /\ image' = IF act = "start" THEN [image EXCEPT ![n] = recipe[n]] ELSE image
    /\ recipe' = IF act = "copy" THEN [recipe EXCEPT ![n] = "baseline"] ELSE recipe

(* A command runs and answers.  restore stops the rank and then copies the *)
(* baseline recipe over the current one.                                   *)
Command(c, n, act) ==
    /\ <<n, act>> \in todo[c]
    /\ IF Refuses(n, act) THEN UNCHANGED ring ELSE Effect(n, act)
    /\ bad' = [bad EXCEPT ![c] = @ \/ Refuses(n, act)]
    /\ todo' = [todo EXCEPT ![c] =
                  (@ \ {<<n, act>>})
                  \cup IF act = "restore" /\ ~Refuses(n, act) THEN {<<n, "copy">>} ELSE {}]
    /\ UNCHANGED <<watch, phase, pause, late, trouble>>

(* The connection or the 45 s limit ends a command for its client; on the  *)
(* host it has no effect, or has one later.                                *)
CommandFails(c, n, act) ==
    /\ <<n, act>> \in todo[c]
    /\ trouble < MaxTrouble /\ trouble' = trouble + 1
    /\ bad' = [bad EXCEPT ![c] = TRUE]
    /\ todo' = [todo EXCEPT ![c] = @ \ {<<n, act>>}]
    /\ late' \in {late, late \cup {<<n, act>>}}
    /\ UNCHANGED <<ring, watch, phase, pause>>

LateCommand(n, act) ==
    /\ <<n, act>> \in late
    /\ IF Refuses(n, act) THEN UNCHANGED ring ELSE Effect(n, act)
    /\ late' = (late \ {<<n, act>>})
               \cup IF act = "restore" /\ ~Refuses(n, act) THEN {<<n, "copy">>} ELSE {}
    /\ UNCHANGED <<watch, batch, pause, trouble>>

(* command and batch: the commands of one phase run side by side.          *)
Orders(p) ==
    CASE p \in {"check", "confirm"} -> Nodes \X {"status"}
      [] p = "stop0" -> {<<0, "stop">>}
      [] p = "stopW" -> Workers \X {"stop"}
      [] p = "startW" -> Workers \X {"start"}
      [] p = "start0" -> {<<0, "start">>}
      [] p = "restore0" -> {<<0, "restore">>}
      [] p = "restoreW" -> Workers \X {"restore"}
      [] OTHER -> {}

Enter(c, p) ==
    /\ phase' = [phase EXCEPT ![c] = p]
    /\ todo' = [todo EXCEPT ![c] = Orders(p)]
    /\ bad' = [bad EXCEPT ![c] = FALSE]

(* The batch of this phase is over.                                        *)
Finished(c, p) == phase[c] = p /\ todo[c] = {}

-----------------------------------------------------------------------------
(* The supervisor.                                                         *)

(* checkpoint: a phase is entered only while no pause is asked for;        *)
(* otherwise InterruptedError leaves the tick.                             *)
Go(p) == IF pause THEN Enter("watch", "idle") ELSE Enter("watch", p)


(* The epoch whose end makes the ring ready again.                         *)
Wanted(s) == s.epoch + (IF s.status = "ok" THEN 1 ELSE 0)

(* Mutant: rank 0 is never touched.                                        *)
KeepsAlways(s) == Multiplexed

(* A live API that can recover its ring is kept.                           *)
Keeps(s) == Multiplexed /\ s.status \in {"ok", "recovering"}

(* restart, up to its first command.                                       *)
Restart(s, fallback) ==
    /\ second' = fallback
    /\ keep' = Keeps(s)
    /\ want' = IF Keeps(s) THEN Wanted(s) ELSE 0
    /\ Go(IF Keeps(s) THEN "stopW" ELSE "stop0")

(* RuntimeError out of restart: tick tries once more, rank 0 included; the *)
(* second time the loop waits for its interval.                            *)
RecoveryFailed ==
    IF second THEN Enter("watch", "idle") /\ UNCHANGED <<keep, want, second>>
    ELSE Restart([status |-> "down", epoch |-> 0], TRUE)

Status == CASE proc[0] = "joined" -> "ok"
            [] proc[0] = "recovering" -> "recovering"
            [] OTHER -> "down"

Judge(s) ==
    IF s.status = "ok" THEN Enter("watch", "check") /\ UNCHANGED <<keep, want, second>>
    ELSE Restart(s, FALSE)

Tick ==
    /\ phase["watch"] = "idle" /\ ~pause
    /\ Enter("watch", "health")
    /\ UNCHANGED <<ring, watch, pause, late, trouble>>

(* health: the front-end loads `recovering' ...                            *)
HealthStatus ==
    /\ phase["watch"] = "health"
    /\ seen' = [status |-> Status, epoch |-> epoch]
    /\ IF Torn THEN Enter("watch", "epoch") /\ UNCHANGED <<keep, want, second>>
       ELSE Judge(seen')
    /\ UNCHANGED <<ring, pause, late, trouble>>

(* ... and then `recovery_epoch'.                                          *)
HealthEpoch ==
    /\ phase["watch"] = "epoch"
    /\ seen' = IF Status = "down" THEN [status |-> "down", epoch |-> 0]
               ELSE [seen EXCEPT !.epoch = epoch]
    /\ Judge(seen')
    /\ UNCHANGED <<ring, pause, late, trouble>>

CheckDone ==
    /\ Finished("watch", "check")
    /\ IF bad["watch"] THEN Restart(seen, FALSE)
       ELSE Enter("watch", "idle") /\ UNCHANGED <<keep, want, second>>
    /\ UNCHANGED <<ring, seen, pause, late, trouble>>

(* The end of a stop or start batch.                                       *)
After(p) ==
    IF bad["watch"] THEN RecoveryFailed
    ELSE Go(p) /\ UNCHANGED <<keep, want, second>>

(* The idle probe of rank 0 runs every 0.25 s, the launcher's start sleeps *)
(* for two seconds: with Prompt the probe is the faster one.               *)
Advance ==
    /\ Prompt /\ phase["watch"] = "startW" => ~Notices
    /\ \/ Finished("watch", "stop0") /\ After("stopW")
       \/ Finished("watch", "stopW") /\ After("startW")
       \/ Finished("watch", "startW") /\ After(IF keep THEN "ready" ELSE "start0")
       \/ Finished("watch", "start0") /\ After("ready")
    /\ UNCHANGED <<ring, seen, pause, late, trouble>>

Arrived(s) == s.status = "ok" /\ s.epoch >= want

(* One round of ready, with the same two loads.                            *)
PollStatus ==
    /\ phase["watch"] = "ready"
    /\ seen' = [status |-> Status, epoch |-> epoch]
    /\ Go(IF Torn THEN "readyEpoch" ELSE IF Arrived(seen') THEN "confirm" ELSE "ready")
    /\ UNCHANGED <<ring, keep, want, second, pause, late, trouble>>

PollEpoch ==
    /\ phase["watch"] = "readyEpoch"
    /\ seen' = [seen EXCEPT !.epoch = epoch]
    /\ Enter("watch", IF Arrived(seen') /\ Status # "down" THEN "confirm" ELSE "ready")
    /\ UNCHANGED <<ring, keep, want, second, pause, late, trouble>>

(* startup_timeout: the ring does not come up, or not in time.             *)
ReadyExpires ==
    /\ phase["watch"] = "ready"
    /\ ~(Status = "ok" /\ epoch >= want)
    /\ \/ Settled /\ late = {} /\ UNCHANGED trouble
       \/ trouble < MaxTrouble /\ trouble' = trouble + 1
    /\ IF pause THEN Enter("watch", "idle") /\ UNCHANGED <<keep, want, second>>
       ELSE RecoveryFailed
    /\ UNCHANGED <<ring, seen, pause, late>>

(* The status of every rank is asked once more, then `ring_ready' is said. *)
ConfirmDone ==
    /\ Finished("watch", "confirm")
    /\ IF bad["watch"] THEN RecoveryFailed
       ELSE Enter("watch", "idle") /\ UNCHANGED <<keep, want, second>>
    /\ UNCHANGED <<ring, seen, pause, late, trouble>>

(* KillMode=process: the commands under way go on; Restart=always.         *)
WatchDies ==
    /\ WatchMayDie /\ phase["watch"] # "idle"
    /\ trouble < MaxTrouble /\ trouble' = trouble + 1
    /\ late' = late \cup todo["watch"]
    /\ Enter("watch", "idle")
    /\ UNCHANGED <<ring, watch, pause>>

-----------------------------------------------------------------------------
(* The deadline of a lease.  A failed batch is an exception that nothing   *)
(* catches: the script ends where it stands.                               *)

Then(p) == Enter("deadline", IF bad["deadline"] THEN "dead" ELSE p)

DeadlineFires ==
    /\ phase["deadline"] = "armed"
    /\ pause' = TRUE
    /\ Enter("deadline", "restore0")
    /\ UNCHANGED <<ring, watch, late, trouble>>

DeadlineStep ==
    /\ \/ Finished("deadline", "restore0") /\ Then("restoreW")
       \/ Finished("deadline", "restoreW") /\ Then("startW")
       \/ Finished("deadline", "startW") /\ Then("start0")
    /\ UNCHANGED <<ring, watch, pause, late, trouble>>

DeadlineEnds ==
    /\ Finished("deadline", "start0")
    /\ Then("done")
    /\ pause' = (pause /\ bad["deadline"])
    /\ UNCHANGED <<ring, watch, late, trouble>>

-----------------------------------------------------------------------------
RingStep ==
    \/ \E w \in Workers : WorkerEnds(w)
    \/ EngineNotices
    \/ RingConnects
    \/ \E n \in Nodes : HandshakeFails(n)

WatchStep ==
    \/ Tick \/ HealthStatus \/ HealthEpoch \/ CheckDone \/ Advance
    \/ PollStatus \/ PollEpoch \/ ConfirmDone

Commands(c) == \E n \in Nodes, act \in Acts : Command(c, n, act)
LateCommands == \E n \in Nodes, act \in Acts : LateCommand(n, act)

Next ==
    \/ RingStep \/ WatchStep \/ ReadyExpires
    \/ \E c \in Clients : Commands(c)
    \/ \E c \in Clients, n \in Nodes, act \in Acts : CommandFails(c, n, act)
    \/ LateCommands
    \/ \E n \in Nodes : ProcessDies(n)
    \/ WatchDies
    \/ DeadlineFires \/ DeadlineStep \/ DeadlineEnds

Spec == Init /\ [][Next]_vars

(* The ring moves by itself, commands answer or are given up, late ones    *)
(* arrive, and the scripts run.  startup_timeout is wall-clock time: it    *)
(* passes although ready polls in between.                                 *)
FairSpec ==
    /\ Spec
    /\ WF_vars(RingStep) /\ WF_vars(WatchStep) /\ SF_vars(ReadyExpires)
    /\ \A c \in Clients : WF_vars(Commands(c))
    /\ WF_vars(LateCommands)
    /\ WF_vars(DeadlineStep \/ DeadlineEnds)

-----------------------------------------------------------------------------
(* A live API survives the loss of a worker: while rank 0 itself is well   *)
(* and only one thing goes wrong, the supervisor never stops it.  restart  *)
(* says: never stop it just to restart disconnected workers.               *)
KeepsApi == proc[0] \in {"joined", "recovering"} => proc'[0] # "down"
ApiKept == [][KeepsApi]_vars

(* When `ring_ready' is printed after one fault, every rank is in the ring *)
(* of the current processes: ready was not satisfied by an answer of the   *)
(* ring that was lost.                                                     *)
Announces == Finished("watch", "confirm") /\ phase'["watch"] = "idle" /\ ~bad["watch"]
AnnouncedIsWhole == [][Announces => Whole]_vars

(* Rank 0 is started into a fleet of fresh workers: none is left of the    *)
(* ring it belonged to before, however the stops and starts fared.         *)
NoOldRing ==
    <<0, "start">> \in todo["watch"] /\ proc[0] = "down" =>
        \A w \in Workers : proc[w] # "joined"

(* Once things stop going wrong, the ring comes back and stays: deaths of  *)
(* any rank, failed, lost and late commands, early time-outs and a killed  *)
(* supervisor leave no state that tick does not repair.                    *)
RingComesBack == <>[]Whole

(* fg_lease_deadline.py, "Independent deadline rollback": once it fires,   *)
(* the fleet runs the baseline again.                                      *)
Restored == Whole /\ \A n \in Nodes : image[n] = "baseline"
DeadlineRestores == phase["deadline"] = "restore0" ~> Restored
=============================================================================

------------------------------- MODULE MCQsa -------------------------------
(***************************************************************************)
(* Instances of the modules that keep the pages of the attention: the      *)
(* transport between rank 0 and their owners (QsaPages), the session with  *)
(* its cache, slot table and file (QsaSession), and the asynchronous reads *)
(* under it (ReadAhead).  The modules share no variable: a behaviour is    *)
(* one of one instance alone, and `case' says of which.                    *)
(***************************************************************************)
EXTENDS QsaPages

VARIABLES
    case,   \* what a behaviour is about: QsaPages or one of the instances below
    \* QsaSession
    committed, truth, cache, stateFile, frontier, staged, life, decoded, mark,
    width, fault, exact,
    \* ReadAhead
    slot, next, live, tag, disabled, abandoned, kernel, cq, cqHead, cqTail, pc,
    spins, freed

qsaVars == <<committed, truth, cache, stateFile, frontier, staged, life, decoded,
             mark, width, fault, exact>>
readsVars == <<slot, next, live, tag, disabled, abandoned, kernel, cq, cqHead,
               cqTail, pc, spins, freed>>
vars == <<case, pagesVars, qsaVars, readsVars>>

(* With a ring the pages are QsaPages itself, and without one an instance,   *)
(* of which PagesSafe and CallsReturn of QsaPages speak as well: neither     *)
(* depends on Ring, and the bounds of the instance are the smaller ones.     *)
Cold == INSTANCE QsaPages WITH Ring <- FALSE, PageLimit <- 2, MaxFetch <- 1
Decode == INSTANCE QsaSession WITH
    Layers <- {0}, Ratio <- 2, Blocks <- 4, Capacity <- 3, MaxSelected <- 1,
    Pool <- 1, Microbatch <- 2, MaxDecoded <- 2, MaxLife <- 2, MayRollBack <- FALSE,
    file <- stateFile
Ahead == INSTANCE QsaSession WITH
    Layers <- {0}, Ratio <- 2, Blocks <- 5, Capacity <- 4, MaxSelected <- 2,
    Pool <- 1, Microbatch <- 1, MaxDecoded <- 2, MaxLife <- 1, MayRollBack <- FALSE,
    file <- stateFile
RollBack == INSTANCE QsaSession WITH
    Layers <- {0, 1}, Ratio <- 2, Blocks <- 3, Capacity <- 6, MaxSelected <- 1,
    Pool <- 1, Microbatch <- 2, MaxDecoded <- 2, MaxLife <- 2, MayRollBack <- TRUE,
    file <- stateFile
FaultyReads == INSTANCE ReadAhead WITH
    Layers <- {0, 1}, Blocks <- {0, 1}, Pages <- 2, Modulus <- 64, Spins <- 2,
    FlushFaults <- TRUE, MaxTag <- 4
Reads == INSTANCE ReadAhead WITH
    Layers <- {0, 1}, Blocks <- {0, 1}, Pages <- 2, Modulus <- 64, Spins <- 2,
    FlushFaults <- FALSE, MaxTag <- 3

(* The assumptions of the modules hold of these constants.                 *)
ASSUME InstancesAssumption ==
    /\ PagesAssumption /\ Cold!PagesAssumption
    /\ Decode!QsaSessionAssumption /\ Ahead!QsaSessionAssumption
    /\ RollBack!QsaSessionAssumption
    /\ FaultyReads!ReadAheadAssumption /\ Reads!ReadAheadAssumption

(* The variables of a module that the case is not about; the pages rest.    *)
Off == "off"
NoQsa ==
    /\ committed = Off /\ truth = Off /\ cache = Off /\ stateFile = Off
    /\ frontier = Off /\ staged = Off /\ life = Off /\ decoded = Off /\ mark = Off
    /\ width = Off /\ fault = Off /\ exact = Off
NoReads ==
    /\ slot = Off /\ next = Off /\ live = Off /\ tag = Off /\ disabled = Off
    /\ abandoned = Off /\ kernel = Off /\ cq = Off /\ cqHead = Off /\ cqTail = Off
    /\ pc = Off /\ spins = Off /\ freed = Off

Init ==
    \/ case = "fetch" /\ Cold!PagesInit /\ NoQsa /\ NoReads
    \/ case = "warm" /\ PagesInit /\ NoQsa /\ NoReads
    \/ case = "decode" /\ Decode!Init /\ PagesInit /\ NoReads
    \/ case = "ahead" /\ Ahead!Init /\ PagesInit /\ NoReads
    \/ case = "roll back" /\ RollBack!Init /\ PagesInit /\ NoReads
    \/ case = "faulty reads" /\ FaultyReads!Init /\ PagesInit /\ NoQsa
    \/ case = "reads" /\ Reads!Init /\ PagesInit /\ NoQsa

(* These may come to rest: the work is done or a bound is used up.          *)
Rest == case \in {"fetch", "warm", "faulty reads", "reads"} /\ UNCHANGED vars

Next ==
    \/ case = "fetch" /\ Cold!PagesNext /\ UNCHANGED <<case, qsaVars, readsVars>>
    \/ case = "warm" /\ PagesNext /\ UNCHANGED <<case, qsaVars, readsVars>>
    \/ case = "decode" /\ Decode!Next /\ UNCHANGED <<case, pagesVars, readsVars>>
    \/ case = "ahead" /\ Ahead!Next /\ UNCHANGED <<case, pagesVars, readsVars>>
    \/ case = "roll back" /\ RollBack!Next /\ UNCHANGED <<case, pagesVars, readsVars>>
    \/ case = "faulty reads" /\ FaultyReads!Next /\ UNCHANGED <<case, pagesVars, qsaVars>>
    \/ case = "reads" /\ Reads!Next /\ UNCHANGED <<case, pagesVars, qsaVars>>
    \/ Rest

(* The fairness that the modules state, in the cases a liveness property is about. *)
Sender ==
    \/ case = "fetch" /\ (Cold!SenderSends \/ Cold!SenderFails)
    \/ case = "warm" /\ (SenderSends \/ SenderFails)
Host ==
    \/ case = "fetch" /\ Cold!HostSteps
    \/ case = "warm" /\ HostSteps
Worker(o) ==
    \/ case = "fetch" /\ Cold!WorkerSteps(o)
    \/ case = "warm" /\ WorkerSteps(o)
Writer(o) ==
    \/ case = "fetch" /\ (Cold!WriterTakes(o) \/ Cold!WriterDone(o))
    \/ case = "warm" /\ (WriterTakes(o) \/ WriterDone(o))
Drain == case = "reads" /\ (Reads!Spin \/ Reads!EndDrain)
Fairness ==
    /\ WF_pagesVars(Sender)
    /\ WF_pagesVars(Host)
    /\ \A o \in Cold!Owners : WF_pagesVars(Worker(o)) /\ WF_pagesVars(Writer(o))
    /\ WF_readsVars(Drain)

Spec == Init /\ [][Next]_vars /\ Fairness

-----------------------------------------------------------------------------
(* Attention that reports success has read the records the session          *)
(* committed, from the cache, the slot table, the read-ahead or the file;   *)
(* the slot table names a slot exactly when the cache holds the page there; *)
(* each page the state file is said to have holds the committed records; no *)
(* operation fails for a page that is in neither.                           *)
RecordsExact ==
    /\ case = "decode" =>
          Decode!TypeOK /\ Decode!AttendExact /\ Decode!TableExact /\ Decode!FileExact
    /\ case = "ahead" =>
          Ahead!AttendExact /\ Ahead!TableExact /\ Ahead!FileExact /\ Ahead!NothingLost
    /\ case = "roll back" => RollBack!AttendExact

(* A read the kernel works on writes a buffer whose slot waits for exactly  *)
(* that read; a reap leaves the completion queue empty; the ring is given   *)
(* up only when a read is unfinished or completed after the last look; pool *)
(* and ring are freed only when the kernel works on no read, if a flush     *)
(* submits all it was given or nothing.                                     *)
ReadsSafe ==
    /\ [](/\ case = "faulty reads" => FaultyReads!TypeOK /\ FaultyReads!BufferHasOneOwner
          /\ case = "reads" => Reads!BufferHasOneOwner /\ Reads!NoFreeInFlight)
    /\ [][case = "faulty reads" => FaultyReads!GiveUpBusy /\ FaultyReads!TakesAll]_readsVars

(* A drain of the ring ends whatever the kernel does: one bounded leak,     *)
(* never a stuck session.                                                   *)
DrainEnds ==
    (case = "reads" /\ Reads!Draining) ~> (case = "reads" => ~ Reads!Draining)
=============================================================================

---------------------------- MODULE ReplicaQueue ----------------------------
(***************************************************************************)
(* What the QSA page replica promises its publisher: groups of page        *)
(* batches are accepted all or none, delivered once, in order and intact,  *)
(* at most Capacity of them are pending, and a failed delivery ends the    *)
(* stream for good.                                                        *)
(***************************************************************************)
EXTENDS Integers, Sequences

CONSTANTS Capacity, GroupMax, Batches

VARIABLES log, sent, failed

queueVars == <<log, sent, failed>>

Init ==
    /\ log = <<>>
    /\ sent = <<>>
    /\ failed = FALSE

\* The groups one publish may hand over.
Groups == UNION {[1..n -> Batches] : n \in 1..GroupMax}

Publish(group) ==
    /\ ~failed
    /\ Len(log) - Len(sent) + Len(group) <= Capacity
    /\ log' = log \o group
    /\ UNCHANGED <<sent, failed>>

Deliver ==
    /\ ~failed
    /\ Len(sent) < Len(log)
    /\ sent' = Append(sent, [item |-> log[Len(sent) + 1], body |-> log[Len(sent) + 1]])
    /\ UNCHANGED <<log, failed>>

Fail ==
    /\ ~failed
    /\ Len(sent) < Len(log)
    /\ failed' = TRUE
    /\ UNCHANGED <<log, sent>>

Next ==
    \/ \E group \in Groups : Publish(group)
    \/ Deliver
    \/ Fail

Spec == Init /\ [][Next]_queueVars
=============================================================================

------------------------------- MODULE EventLog -------------------------------
(***************************************************************************)
(* What the event store promises: a log that only grows, into which what   *)
(* is queued goes in its order, once, and from which nothing is missing    *)
(* without an excuse.  An event that cannot be queued may be stored at     *)
(* once, ahead of the queue; what fails is lost from the front of it.      *)
(***************************************************************************)
EXTENDS Naturals, Sequences, SequencesExt

CONSTANT Event

VARIABLES
    queue,    \* accepted, not stored yet
    log,      \* stored
    lost,     \* the events that will not be stored
    excused   \* something has failed, overflowed or been shut down

vars == <<queue, log, lost, excused>>

New(e) == ~Contains(queue, e) /\ ~Contains(log, e) /\ e \notin lost

Init == queue = << >> /\ log = << >> /\ lost = {} /\ excused = FALSE

Accept(e) ==
    /\ New(e)
    /\ queue' = Append(queue, e)
    /\ UNCHANGED <<log, lost, excused>>

StoreFirst(n) ==
    /\ log' = log \o SubSeq(queue, 1, n)
    /\ queue' = SubSeq(queue, n + 1, Len(queue))
    /\ UNCHANGED <<lost, excused>>

StoreAtOnce(e) ==
    /\ New(e)
    /\ log' = Append(log, e)
    /\ UNCHANGED <<queue, lost, excused>>

LoseFirst(n) ==
    /\ lost' = lost \union ToSet(SubSeq(queue, 1, n))
    /\ queue' = SubSeq(queue, n + 1, Len(queue))
    /\ UNCHANGED log

LoseAtOnce(e) ==
    /\ New(e)
    /\ lost' = lost \union {e}
    /\ UNCHANGED <<queue, log>>

Excuse == excused' = TRUE /\ UNCHANGED <<queue, log, lost>>

Next ==
    \/ \E e \in Event : Accept(e) \/ StoreAtOnce(e) \/ (excused' /\ LoseAtOnce(e))
    \/ \E n \in 1..Len(queue) : StoreFirst(n) \/ (excused' /\ LoseFirst(n))
    \/ Excuse

Spec == Init /\ [][Next]_vars

=============================================================================

------------------------------ MODULE ActionLease ------------------------------
(***************************************************************************)
(* What the execution arbiter promises the rest of the system, whatever    *)
(* its clocks, budgets and danger levels: one action at most holds the     *)
(* lease, an action is let through only by getting it, and a lease that is *)
(* taken over goes to an action of strictly higher priority.  A lease may  *)
(* be given up at any time.                                                *)
(* ExecutionArbiter implements this module; TaskPipeline builds on it.     *)
(***************************************************************************)
EXTENDS Integers

CONSTANTS
    Task,     \* the actions that may ask
    Priority, \* [Task -> Int]
    NoTask    \* nobody holds the lease; not a member of Task

VARIABLES
    holder,   \* the action that holds the lease
    approved  \* the actions let through at some time

leaseVars == <<holder, approved>>

Init == holder = NoTask /\ approved = {}

MayHold(t) == holder \notin {NoTask, t} => Priority[t] > Priority[holder]

(* A request that is granted.  A request may always be denied: that changes *)
(* nothing.                                                                 *)
Approve(t) ==
    /\ MayHold(t)
    /\ holder' = t
    /\ approved' = approved \union {t}

(* The end of t is reported: its lease is over, if it had it. *)
Release(t) ==
    /\ holder' = IF holder = t THEN NoTask ELSE holder
    /\ UNCHANGED approved

Next == \E t \in Task : Approve(t) \/ Release(t)

Spec == Init /\ [][Next]_leaseVars

=============================================================================

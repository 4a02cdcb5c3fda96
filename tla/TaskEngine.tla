------------------------------ MODULE TaskEngine ------------------------------
(***************************************************************************)
(* TaskExecutionEngine (internal/execution/engine.go): the record of the   *)
(* task in flight and the goroutines it starts, one per execution, which   *)
(* dispatch the task and then watch it until it is resolved, replaced, or  *)
(* its context is cancelled.  e.mu covers the record only, so that every   *)
(* send to the controller is a step of its own.                            *)
(*                                                                         *)
(* The controller is the mailbox of the connection manager: sends never    *)
(* fail and are taken in order (outbox), so that the error branch of the   *)
(* goroutine (handleFailure) is unreachable.  RunEmergencyPolicy has no    *)
(* caller.                                                                 *)
(***************************************************************************)
EXTENDS Naturals, Sequences

CONSTANTS
    Id,         \* action IDs
    NoTask,     \* inFlight = nil
    Ctx,        \* the contexts that can be cancelled
    Background, \* context.Background(): never cancelled
    Reason,     \* the reasons callers abort with
    MaxThreads, \* bound: goroutines with one task and context at the same time
    MaxOutbox   \* bound: messages the connection manager has not taken yet

ASSUME EngineAssumption ==
    /\ NoTask \notin [id : Id, started : BOOLEAN]
    /\ Background \notin Ctx
    /\ MaxOutbox \in Nat /\ MaxThreads \in Nat

VARIABLES
    inFlight,   \* e.inFlight: its ID and whether StartTime is set
    threads,    \* the goroutines; n tells those of one task and context apart
    outbox,     \* messages sent to the controller and not yet taken
    liveCtx     \* the contexts of Ctx that are not cancelled

engineVars == <<inFlight, threads, outbox>>

-----------------------------------------------------------------------------
Goroutine == [id : Id, ctx : Ctx \union {Background}, n : 1..MaxThreads,
              pc : {"dispatch", "loop", "abort", "preload"}]

Message == [type : {"dispatch", "preload"}, id : Id]
             \union [type : {"abort"}, reason : Reason \union {"context_cancelled"}]

Init ==
    /\ inFlight = NoTask
    /\ threads = {}
    /\ outbox = << >>

InFlight(id) == inFlight # NoTask /\ inFlight.id = id

(* go func() *)
Spawn(id, ctx, label) ==
    LET free == {n \in 1..MaxThreads :
                   \A g \in threads : (g.id = id /\ g.ctx = ctx) => g.n # n}
    IN  /\ free # {}
        /\ threads' = threads \union
               {[id |-> id, ctx |-> ctx, n |-> CHOOSE n \in free : TRUE, pc |-> label]}

(* engine.Send(manager, msg) *)
Send(msg) ==
    /\ Len(outbox) < MaxOutbox
    /\ outbox' = Append(outbox, msg)

Dispatched(id) == [type |-> "dispatch", id |-> id]
Preloaded(id) == [type |-> "preload", id |-> id]
Aborted(reason) == [type |-> "abort", reason |-> reason]

-----------------------------------------------------------------------------
(* Calls *)

ExecuteAsync(ctx, id) ==
    /\ inFlight' = [id |-> id, started |-> FALSE]
    /\ Spawn(id, ctx, "dispatch")
    /\ UNCHANGED outbox

Preload(id) ==
    /\ IF inFlight = NoTask \/ InFlight(id)
       THEN UNCHANGED threads
       ELSE Spawn(id, Background, "preload")
    /\ UNCHANGED <<inFlight, outbox>>

OnTaskStart(id) ==
    /\ inFlight' = IF InFlight(id) THEN [inFlight EXCEPT !.started = TRUE] ELSE inFlight
    /\ UNCHANGED <<threads, outbox>>

OnTaskEnd(id) ==
    /\ inFlight' = IF InFlight(id) THEN NoTask ELSE inFlight
    /\ UNCHANGED <<threads, outbox>>

(* AbortCurrent up to e.mu.Unlock(): whatever is in flight is forgotten.  *)
(* Its caller still has to send Aborted(reason).                          *)
ForgetInFlight == inFlight' = NoTask

(* checkStuckTasks: not acknowledged for longer than DispatchTimeoutMs *)
CheckStuckTasks ==
    /\ inFlight # NoTask
    /\ ~inFlight.started
    /\ inFlight' = NoTask
    /\ UNCHANGED <<threads, outbox>>

-----------------------------------------------------------------------------
(* The goroutines *)

At(g, label) == g \in threads /\ g.pc = label
Exit(g) == threads' = threads \ {g}
GoTo(g, label) == threads' = (threads \ {g}) \union {[g EXCEPT !.pc = label]}
Cancelled(g) == g.ctx # Background /\ g.ctx \notin liveCtx

ThreadDispatch(g) ==
    /\ At(g, "dispatch")
    /\ Send(Dispatched(g.id))
    /\ GoTo(g, "loop")
    /\ UNCHANGED inFlight

ThreadPreload(g) ==
    /\ At(g, "preload")
    /\ Send(Preloaded(g.id))
    /\ Exit(g)
    /\ UNCHANGED inFlight

(* case <-ctx.Done(): e.AbortCurrent(context.Background(), ...) *)
ThreadCancelled(g) ==
    /\ At(g, "loop")
    /\ Cancelled(g)
    /\ ForgetInFlight
    /\ GoTo(g, "abort")
    /\ UNCHANGED outbox

ThreadAbort(g) ==
    /\ At(g, "abort")
    /\ Send(Aborted("context_cancelled"))
    /\ Exit(g)
    /\ UNCHANGED inFlight

(* Bug: the ticker ends the goroutine without looking. *)
ThreadGivesUp(g) ==
    /\ At(g, "loop")
    /\ Exit(g)
    /\ UNCHANGED <<inFlight, outbox>>

(* case <-ticker.C: resolved, or replaced by a new dispatch *)
ThreadExit(g) ==
    /\ At(g, "loop")
    /\ ~InFlight(g.id)
    /\ Exit(g)
    /\ UNCHANGED <<inFlight, outbox>>

ThreadStep(g) ==
    \/ ThreadDispatch(g)
    \/ ThreadPreload(g)
    \/ ThreadCancelled(g)
    \/ ThreadAbort(g)
    \/ ThreadExit(g)

-----------------------------------------------------------------------------
TypeOK ==
    /\ inFlight \in [id : Id, started : BOOLEAN] \union {NoTask}
    /\ threads \subseteq Goroutine
    /\ outbox \in Seq(Message)

(* Whatever is in flight has a goroutine that dispatches or watches it, so  *)
(* that cancelling its context is noticed: replacing, resolving, clearing   *)
(* and executing it again never leave a record without a watcher.           *)
InFlightWatched ==
    inFlight # NoTask =>
        \E g \in threads : g.id = inFlight.id /\ g.pc \in {"dispatch", "loop"}

=============================================================================

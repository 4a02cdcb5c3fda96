----------------------------- MODULE TaskPipeline -----------------------------
(***************************************************************************)
(* The execution pipeline of internal/execution put together: the handlers *)
(* of ControlService, the arbiter (as ActionLease promises it), the        *)
(* dispatch queue (TaskManager), the engine (TaskEngine), the connection   *)
(* and the task executor of the bot (js/index.ts).                         *)
(*                                                                         *)
(* The event bus gives every subscription an actor of its own, so that     *)
(* each handler takes its events one at a time and in order, and runs      *)
(* concurrently with the handlers of the other event types.  A handler is  *)
(* split where it gives up a lock or waits for another actor.  Plans,      *)
(* panics, deaths and invalidations come from outside: their handlers      *)
(* start at any time, within the bounds of Budget.  So do the requests of  *)
(* the prep orchestrator and of the operator.  The connection is modelled  *)
(* as both sides mean it: names of messages are not.                       *)
(***************************************************************************)
EXTENDS Integers, Sequences

CONSTANTS
    PlanId,     \* the first task of each plan
    ReflexId,   \* the emergency_reflex actions, one per panic
    FarmId, EscapeId,   \* the actions of the prep orchestrator
    ControlId,  \* the actions of the operator
    DriftId,    \* the idle actions the humanizer makes up
    Retreat,    \* the actions the bot knows as "retreat"
    Priority,   \* [Id \ DriftId -> Nat \ {0}]
    Key,        \* [Id -> key], action:target of a task
    Budget,     \* bound: how often each external event happens, and any of them
    NoTask, NoItem, NoCtx, Background, NoReason,
    Ctx, MaxThreads, MaxOutbox, MaxCopies   \* bounds of TaskEngine and TaskManager

Id == PlanId \union ReflexId \union FarmId \union EscapeId \union ControlId \union DriftId

PlanItem(id) == [id |-> id, prio |-> Priority[id]]
RetryItem(id) == [id |-> id, prio |-> 0]
DriftItem(id) == [id |-> id, prio |-> -1]
Curiosity == [id |-> NoTask, prio |-> -1]
Item == {PlanItem(id) : id \in PlanId} \union {RetryItem(id) : id \in Id}
          \union {DriftItem(id) : id \in DriftId} \union {Curiosity}
DedupKey == [i \in Item |-> IF i = Curiosity THEN "curiosity" ELSE Key[i.id]]

ASSUME PipelineAssumption ==
    /\ NoTask \notin Id \union [id : Id, started : BOOLEAN]
    /\ NoItem \notin Item

(* what the dispatch queue needs of them *)
ASSUME QueueAssumption ==
    /\ \A id \in PlanId : Priority[id] \in Int
    /\ NoCtx \notin Ctx /\ Ctx # {}
    /\ MaxCopies \in Nat \ {0}

HaltReasons == {"panic_triggered", "plan_invalidated", "bot_died"}
Reason == HaltReasons \union {"preempted_by_priority", "DEADLINE_EXCEEDED"}

VARIABLES
    (* TaskManager *)
    queue, scheduled, active, activeCtx, liveCtx, signal, pc, item, itemCtx,
    recent, idle, backingOff, ready,
    (* TaskEngine *)
    inFlight, threads, outbox,
    (* ActionLease *)
    holder,
    approved,      \* what the arbiter has let through
    (* ControlService *)
    reflexActive,
    registered,    \* the keys of activeTimers
    armed,         \* [Id -> Nat], the watchdogs that have neither fired nor been stopped
    aborting,      \* a reason to send before tm.mu is released
    planning,      \* handlePlanCreated: where it is, and with which task
    starting,      \* handleTaskStart: where it is, and with which task
    ending,        \* handleTaskEnd: where it is, the event, and whether a watchdog was registered
    halting,       \* [HaltReasons -> where that handler is]
    asking,        \* actions that wait for the arbiter and go around the queue
    (* the bot and its connection *)
    seen,          \* IDs wsActor has dispatched on this connection
    current,       \* currentTask
    preloaded,     \* preloadedTask
    finishing,     \* calls of executeIntent whose outcome is settled and not reported
    panicking,     \* SurvivalSystem.isPanicking
    alive,         \* isBotSpawned
    starts, ends,  \* TASK_START and TASK_END events not handled yet
    (* bookkeeping *)
    budget,        \* what is left of Budget
    ran,           \* [Id -> Nat], how often the bot has started each task
    retried        \* [Id -> Nat], how often a retry has been scheduled

tmVars == <<queue, scheduled, active, activeCtx, liveCtx, signal, pc, item, itemCtx,
            recent, idle, backingOff, ready>>
enVars == <<inFlight, threads, outbox>>
leaseVars == <<holder, approved>>
timerVars == <<registered, armed>>
handlerVars == <<planning, starting, ending, halting, asking>>
taskVars == <<current, preloaded, finishing, starts, ends, ran>>
botVars == <<taskVars, seen, panicking, alive>>
vars == <<tmVars, enVars, leaseVars, reflexActive, timerVars, aborting, handlerVars,
          botVars, budget, retried>>

TM == INSTANCE TaskManager WITH DangerSafe <- FALSE
EN == INSTANCE TaskEngine
Lease == INSTANCE ActionLease WITH Task <- Id

-----------------------------------------------------------------------------
Resting == [at |-> "rest"]

Init ==
    /\ TM!EmptyInit /\ EN!Init /\ Lease!Init
    /\ ready = TRUE               \* no plan is made before the bot has connected
    /\ reflexActive = FALSE
    /\ registered = {} /\ armed = [id \in Id |-> 0]
    /\ aborting = NoReason
    /\ planning = Resting /\ starting = Resting /\ ending = Resting
    /\ halting = [r \in HaltReasons |-> "rest"] /\ asking = {}
    /\ seen = {} /\ current = NoTask /\ preloaded = NoTask
    /\ finishing = {}
    /\ panicking = FALSE /\ alive = TRUE
    /\ starts = << >> /\ ends = << >>
    /\ budget = Budget
    /\ ran = [id \in Id |-> 0] /\ retried = [id \in Id |-> 0]

Spend(what) ==
    /\ budget[what] > 0 /\ budget["any"] > 0
    /\ budget' = [budget EXCEPT ![what] = @ - 1, !["any"] = @ - 1]

(* tm.mu is free *)
Unlocked == aborting = NoReason

(* abortActiveLocked -> engine.AbortCurrent, under tm.mu: the record is cleared
   first, the message is sent by SendAbort before tm.mu is released. *)
AbortActive(reason) ==
    IF active = NoItem THEN UNCHANGED <<inFlight, aborting>>
    ELSE EN!ForgetInFlight /\ aborting' = reason

SendAbort ==
    /\ aborting # NoReason
    /\ EN!Send(EN!Aborted(aborting))
    /\ aborting' = NoReason
    /\ UNCHANGED <<tmVars, inFlight, threads, leaseVars, reflexActive, timerVars,
                   handlerVars, botVars, budget, retried>>

-----------------------------------------------------------------------------
(* The arbiter.  An approved action goes straight to the engine, under the  *)
(* background context of the handler that asked.  Denial is always possible *)
(* (clocks, budget, danger level); so is a timeout of the request, after    *)
(* which the requester takes a later approval for a denial.                 *)
Approve(id) ==
    /\ Lease!Approve(id)
    /\ EN!ExecuteAsync(Background, id)

Deny == UNCHANGED <<leaseVars, enVars>>

(* A failure reported by handleTaskEnd ends the lease: at once, here.  The  *)
(* arbiter may deny more until the message has reached it; Deny covers that. *)
ReleaseLease(id) == Lease!Release(id)

-----------------------------------------------------------------------------
(* handlePlanCreated *)

PlanArrives(id) ==
    /\ planning = Resting
    /\ id \notin approved        \* every plan is published once
    /\ ~reflexActive             \* else it is dropped
    /\ Spend("plan")
    /\ planning' = [at |-> "request", id |-> id]
    /\ UNCHANGED <<tmVars, enVars, leaseVars, reflexActive, timerVars, aborting,
                   starting, ending, halting, asking, botVars, retried>>

(* Bug: the answer of the arbiter is ignored. *)
PlanIgnoresDenial ==
    /\ planning.at = "request"
    /\ Approve(planning.id) \/ Deny
    /\ planning' = [planning EXCEPT !.at = "enqueue"]
    /\ UNCHANGED <<tmVars, reflexActive, timerVars, aborting, starting, ending, halting,
                   asking, botVars, budget, retried>>

PlanRequests ==
    /\ planning.at = "request"
    /\ \/ /\ Approve(planning.id)
          /\ planning' \in {[planning EXCEPT !.at = "enqueue"], Resting}
       \/ /\ Deny
          /\ planning' = Resting
    /\ UNCHANGED <<tmVars, reflexActive, timerVars, aborting, starting, ending, halting,
                   asking, botVars, budget, retried>>

(* The humanizer may put idle actions in front: its attention lapses, or it *)
(* drifts by chance, unless the state looks critical.  Nobody is asked for  *)
(* them.                                                                    *)
PlanDrifts ==
    /\ planning.at = "enqueue"
    /\ Spend("drift")
    /\ \E id \in DriftId : TM!EnqueueScheduled(DriftItem(id))
    /\ UNCHANGED <<enVars, leaseVars, reflexActive, timerVars, aborting, handlerVars,
                   botVars, retried>>

(* The task itself is due at once (it is never given up: nothing sets       *)
(* IsStuck); the schedule takes it if the clock has not moved since.        *)
Process(id) ==
    \/ Unlocked /\ TM!Enqueue(PlanItem(id)) /\ UNCHANGED budget
    \/ TM!EnqueueScheduled(PlanItem(id)) /\ Spend("humanize")

PlanEnqueues ==
    /\ planning.at = "enqueue"
    /\ Process(planning.id)
    /\ planning' = Resting
    /\ UNCHANGED <<enVars, leaseVars, reflexActive, timerVars, aborting, starting, ending,
                   halting, asking, botVars, retried>>

-----------------------------------------------------------------------------
(* handleTaskStart *)

StartHandled ==
    /\ starting = Resting /\ starts # << >>
    /\ EN!OnTaskStart(Head(starts))
    /\ starting' = [at |-> "look", id |-> Head(starts)]
    /\ starts' = Tail(starts)
    /\ UNCHANGED <<tmVars, leaseVars, reflexActive, timerVars, aborting, planning, ending,
                   halting, asking, seen, current, preloaded, finishing, panicking,
                   alive, ends, ran, budget, retried>>

(* GetInFlight *)
StartLooks ==
    /\ starting.at = "look"
    /\ starting' = IF EN!InFlight(starting.id)
                   THEN [starting EXCEPT !.at = "register"] ELSE Resting
    /\ UNCHANGED <<tmVars, enVars, leaseVars, reflexActive, timerVars, aborting, planning,
                   ending, halting, asking, botVars, budget, retried>>

RegisterWatchdog ==
    /\ starting.at = "register"
    /\ armed' = [armed EXCEPT ![starting.id] = @ + 1]
    /\ registered' = registered \union {starting.id}
    /\ starting' = Resting
    /\ UNCHANGED <<tmVars, enVars, leaseVars, reflexActive, aborting, planning, ending,
                   halting, asking, botVars, budget, retried>>

(* Bugs: a timer that has fired is stopped again; a stopped timer stays     *)
(* registered.                                                              *)
StopFiredWatchdogs(ids) ==
    /\ registered' = registered \ ids
    /\ armed' = [id \in Id |-> IF id \in ids \intersect registered THEN armed[id] - 1 ELSE armed[id]]

StopWithoutDelete(ids) ==
    /\ UNCHANGED registered
    /\ armed' = [id \in Id |-> IF id \in ids \intersect registered /\ armed[id] > 0
                               THEN armed[id] - 1 ELSE armed[id]]

(* timer.Stop() of the registered timers of ids; an overwritten one runs on *)
StopWatchdogs(ids) ==
    /\ registered' = registered \ ids
    /\ armed' = [id \in Id |-> IF id \in ids \intersect registered /\ armed[id] > 0
                               THEN armed[id] - 1 ELSE armed[id]]

(* The timer fires: triggerRecovery. *)
WatchdogFires(id) ==
    /\ armed[id] > 0
    /\ Spend("deadline")
    /\ armed' = [armed EXCEPT ![id] = @ - 1]
    /\ EN!Send(EN!Aborted("DEADLINE_EXCEEDED"))
    /\ ends' = Append(ends, [id |-> id, cause |-> "DEADLINE_EXCEEDED"])
    /\ UNCHANGED <<tmVars, inFlight, threads, leaseVars, reflexActive, registered, aborting,
                   handlerVars, current, preloaded, finishing, starts, ran, seen,
                   panicking, alive, retried>>

-----------------------------------------------------------------------------
(* handleTaskEnd *)

Completed == "COMPLETED"
ControlledStops == HaltReasons \union {"preempted_by_priority", "survival_panic", "panic", "unlock"}
RetriedCauses == {"context_cancelled", "DEADLINE_EXCEEDED", "TIMEOUT"}

EndHandled ==
    /\ ending = Resting /\ ends # << >>
    /\ LET e == Head(ends) IN
          /\ ending' = [at |-> "complete", event |-> e, tracked |-> e.id \in registered]
          /\ StopWatchdogs({e.id})
          /\ EN!OnTaskEnd(e.id)
    /\ ends' = Tail(ends)
    /\ UNCHANGED <<tmVars, leaseVars, reflexActive, aborting, planning, starting, halting,
                   asking, current, preloaded, finishing, starts, ran, seen,
                   panicking, alive, budget, retried>>

(* taskManager.Complete *)
Complete(e) ==
    IF ~TM!Completes(e.id) THEN UNCHANGED tmVars
    ELSE IF e.cause = Completed THEN TM!CompleteSuccess(e.id)
    ELSE TM!CompleteFailure(e.id, e.cause \in ControlledStops)

(* Bug: only the end of a task with a watchdog is passed on to the queue. *)
EndCompletesTracked ==
    /\ ending.at = "complete" /\ Unlocked
    /\ IF ending.tracked THEN Complete(ending.event) ELSE UNCHANGED tmVars
    /\ ending' = Resting
    /\ UNCHANGED <<enVars, leaseVars, reflexActive, timerVars, aborting, planning, starting,
                   halting, asking, botVars, budget, retried>>

EndCompletes ==
    /\ ending.at = "complete" /\ Unlocked
    /\ Complete(ending.event)
    /\ ending' = IF ending.event.cause = Completed \/ ending.event.cause \in ControlledStops
                    \/ ~ending.tracked
                 THEN Resting ELSE [ending EXCEPT !.at = "adapt"]
    /\ UNCHANGED <<enVars, leaseVars, reflexActive, timerVars, aborting, planning, starting,
                   halting, asking, botVars, budget, retried>>

(* The failure is charged, and the task goes back on the schedule under the *)
(* same ID if its class says so, without asking the arbiter.                *)
EndAdapts ==
    /\ ending.at = "adapt"
    /\ LET id == ending.event.id IN
          /\ ReleaseLease(id)
          /\ IF ending.event.cause \in RetriedCauses
             THEN /\ TM!EnqueueScheduled(RetryItem(id))
                  /\ retried' = [retried EXCEPT ![id] = @ + 1]
             ELSE UNCHANGED <<tmVars, retried>>
    /\ ending' = Resting
    /\ UNCHANGED <<enVars, reflexActive, timerVars, aborting, planning, starting, halting,
                   asking, botVars, budget>>

-----------------------------------------------------------------------------
(* handlePanic, handlePlanInvalidated, handleBotDeath *)

HaltArrives(r) ==
    /\ halting[r] = "rest"
    /\ Spend(r)
    /\ reflexActive' = CASE r = "panic_triggered" -> TRUE
                         [] r = "bot_died" -> FALSE
                         [] OTHER -> reflexActive
    /\ halting' = [halting EXCEPT ![r] = "halt"]
    /\ UNCHANGED <<tmVars, enVars, leaseVars, timerVars, aborting, planning, starting, ending,
                   asking, botVars, retried>>

HaltHalts(r) ==
    /\ halting[r] = "halt" /\ Unlocked
    /\ TM!Halt
    /\ AbortActive(r)
    /\ halting' = [halting EXCEPT ![r] = "clear"]
    /\ UNCHANGED <<threads, outbox, leaseVars, reflexActive, timerVars, planning, starting,
                   ending, asking, botVars, budget, retried>>

HaltClears(r) ==
    /\ halting[r] = "clear" /\ Unlocked
    /\ StopWatchdogs(Id)
    /\ halting' = [halting EXCEPT ![r] = IF r = "panic_triggered" THEN "request" ELSE "rest"]
    /\ UNCHANGED <<tmVars, enVars, leaseVars, reflexActive, aborting, planning, starting,
                   ending, asking, botVars, budget, retried>>

(* The reflex asks the arbiter like everyone else; the answer is ignored. *)
PanicRequests ==
    /\ halting["panic_triggered"] = "request"
    /\ (\E id \in ReflexId \ approved : Approve(id)) \/ Deny
    /\ halting' = [halting EXCEPT !["panic_triggered"] = "rest"]
    /\ UNCHANGED <<tmVars, reflexActive, timerVars, aborting, planning, starting, ending,
                   asking, botVars, budget, retried>>

(* handleStateUpdated and IngestControlInput look first, and then ask for   *)
(* an action that does not go through the queue; the answer, too, is        *)
(* ignored.                                                                 *)
LooksAndAsks(id) ==
    /\ id \notin approved \union asking
    /\ asking' = asking \union {id}
    /\ UNCHANGED <<tmVars, enVars, leaseVars, reflexActive, timerVars, aborting, planning,
                   starting, ending, halting, botVars, retried>>

CheckProactiveFarming(id) ==
    /\ inFlight = NoTask /\ FarmId \intersect asking = {}
    /\ Spend("prep")
    /\ LooksAndAsks(id)

IngestControlInput(id) == ready /\ Spend("control") /\ LooksAndAsks(id)

Answered(id) ==
    /\ id \in asking
    /\ Approve(id) \/ Deny
    /\ asking' = asking \ {id}
    /\ UNCHANGED <<tmVars, reflexActive, timerVars, aborting, planning, starting, ending,
                   halting, botVars, budget, retried>>

(* The handler of a state calls it after CheckProactiveFarming has returned. *)
PreEscape(id) ==
    /\ FarmId \intersect asking = {} /\ id \notin approved
    /\ Spend("prep")
    /\ Approve(id)
    /\ UNCHANGED <<tmVars, reflexActive, timerVars, aborting, handlerVars, botVars, retried>>

PanicResolved ==
    /\ Spend("resolved")
    /\ reflexActive' = FALSE
    /\ UNCHANGED <<tmVars, enVars, leaseVars, timerVars, aborting, handlerVars, botVars, retried>>

-----------------------------------------------------------------------------
(* The Run goroutine and the engine *)

outsideQueue == <<leaseVars, reflexActive, timerVars, handlerVars, botVars, budget, retried>>

QueueSchedules ==
    /\ Unlocked /\ TM!ProcessScheduled
    /\ UNCHANGED <<enVars, aborting, outsideQueue>>

(* warmStartNext preloads the new root, if an item was popped and one is left *)
QueueTakesSignal ==
    /\ Unlocked /\ TM!TakeSignal
    /\ IF pc' = "dispatch" /\ ~TM!IsEmpty(queue')
       THEN \E i \in Item : TM!IsRoot(queue', i) /\ EN!Preload(i.id)
       ELSE UNCHANGED enVars
    /\ UNCHANGED <<aborting, outsideQueue>>

(* a context no goroutine holds any more: context.WithCancel makes a new one *)
FreshCtx == {c \in Ctx : c \notin liveCtx /\ \A g \in threads : g.ctx # c}

QueueDispatches ==
    /\ Unlocked
    /\ \/ (TM!DispatchDrop \/ TM!DispatchPushBack) /\ UNCHANGED <<inFlight, aborting>>
       \/ /\ FreshCtx # {}
          /\ TM!DispatchActivate(CHOOSE c \in FreshCtx : TRUE)
          /\ AbortActive("preempted_by_priority")
    /\ UNCHANGED <<threads, outbox, outsideQueue>>

QueueExecutes ==
    /\ Unlocked /\ TM!Execute
    /\ EN!ExecuteAsync(itemCtx, item.id)
    /\ UNCHANGED <<aborting, outsideQueue>>

EngineCleansUp ==
    /\ EN!CheckStuckTasks
    /\ Spend("cleanup")
    /\ UNCHANGED <<tmVars, aborting, leaseVars, reflexActive, timerVars, handlerVars,
                   botVars, retried>>

EngineRuns(g) ==
    /\ EN!ThreadStep(g)
    /\ UNCHANGED <<tmVars, aborting, outsideQueue>>

(* A goroutine under the background context whose task is not in flight can *)
(* only exit, or go on watching if the task is executed again: nobody else  *)
(* sees which.                                                              *)
Stale(g) == EN!At(g, "loop") /\ g.ctx = Background /\ ~EN!InFlight(g.id)

DedupWindowCloses ==
    /\ Spend("window")
    /\ \E k \in recent : TM!DedupWindowCloses(k)
    /\ UNCHANGED <<enVars, leaseVars, reflexActive, timerVars, aborting, handlerVars,
                   botVars, retried>>

-----------------------------------------------------------------------------
(* The bot.  One call of the executor may report several events: it is a    *)
(* function of what the executor keeps.  Events are lost while the          *)
(* connection is down.                                                      *)

Executor == [current |-> current, preloaded |-> preloaded,
             starts |-> starts, ends |-> ends, ran |-> ran]

Becomes(b) ==
    /\ current' = b.current /\ preloaded' = b.preloaded
    /\ starts' = b.starts /\ ends' = b.ends /\ ran' = b.ran

Report(b, id, cause) ==
    IF ready THEN [b EXCEPT !.ends = Append(@, [id |-> id, cause |-> cause])] ELSE b

(* executeIntent with no task to abort *)
Begin(b, id, up, panic) ==
    IF ~up THEN b
    ELSE IF panic /\ id \notin Retreat THEN Report(b, id, "panic")
    ELSE [b EXCEPT !.current = id, !.ran[id] = @ + 1,
                   !.starts = IF ready THEN Append(@, id) ELSE @]

(* completeTask goes on with the preloaded task when nothing runs. *)
CompleteTask(b, id, cause, up, panic) ==
    LET r == Report([b EXCEPT !.current = IF @ = id THEN NoTask ELSE @], id, cause)
    IN  IF r.current = NoTask /\ r.preloaded # NoTask
        THEN Begin([r EXCEPT !.preloaded = NoTask], r.preloaded, up, panic)
        ELSE r

(* abortActiveTask forgets the current task after completeTask, the one that
   completeTask has just begun included. *)
AbortActiveTask(b, reason, up, panic) ==
    IF b.current = NoTask THEN b
    ELSE [CompleteTask(b, b.current, reason, up, panic) EXCEPT !.current = NoTask]

ExecuteIntent(b, id) ==
    IF alive /\ (panicking => id \in Retreat)
    THEN Begin(AbortActiveTask(b, "preempted", alive, panicking), id, alive, panicking)
    ELSE Begin(b, id, alive, panicking)

IgnoresAbort(reason) ==
    panicking \/ (current \in Retreat /\ reason = "plan_invalidated")

outsideBot == <<tmVars, inFlight, threads, leaseVars, reflexActive, timerVars, aborting,
                handlerVars, retried>>

PassesAlways(m) == ready   \* bug: no duplicate check

(* What reaches the bot: with a connection, and what its wsActor does not
   remember to have dispatched. *)
Passes(m) == ready /\ (m.type # "abort" => m.id \notin seen)

(* The manager and wsActor pass the next message on, or drop it. *)
Deliver ==
    /\ outbox # << >>
    /\ outbox' = Tail(outbox)
    /\ LET m == Head(outbox) IN
          \/ /\ ~Passes(m)
             /\ UNCHANGED <<taskVars, seen>>
          \/ /\ Passes(m) /\ m.type = "dispatch"
             /\ seen' = seen \union {m.id}
             /\ Becomes(ExecuteIntent(Executor, m.id))
             /\ UNCHANGED finishing
          \/ /\ Passes(m) /\ m.type = "preload"
             /\ Becomes([Executor EXCEPT !.preloaded = m.id])
             /\ UNCHANGED <<seen, finishing>>
          \/ /\ Passes(m) /\ m.type = "abort"
             /\ Becomes(IF IgnoresAbort(m.reason) THEN Executor
                        ELSE AbortActiveTask(Executor, m.reason, alive, panicking))
             /\ UNCHANGED <<seen, finishing>>
    /\ UNCHANGED <<outsideBot, panicking, alive, budget>>

(* The outcome of the call of executeIntent that runs the current task is   *)
(* settled, and will be reported whatever is current by then: a result      *)
(* waits 200 ms, a failure for the anti-stuck reflex, and a call that does  *)
(* not heed its abort fails when it runs into its timeout.  Any other       *)
(* aborted call says no more.                                               *)
BotFinishes(cause) ==
    /\ current # NoTask
    /\ LET call == [id |-> current, n |-> ran[current]]
       IN  /\ \A f \in finishing : f.call # call
           /\ finishing' = finishing \union {[call |-> call, cause |-> cause]}
    /\ IF cause = Completed THEN UNCHANGED budget ELSE Spend("failure")
    /\ UNCHANGED <<outsideBot, outbox, current, preloaded, starts, ends, ran, seen,
                   panicking, alive>>

BotReports(f) ==
    /\ Becomes(CompleteTask(Executor, f.call.id, f.cause, alive, panicking))
    /\ finishing' = finishing \ {f}
    /\ UNCHANGED <<outsideBot, outbox, seen, panicking, alive, budget>>

BotPanics ==
    /\ alive /\ ~panicking
    /\ Spend("botPanic")
    /\ panicking' = TRUE
    /\ Becomes(AbortActiveTask(Executor, "survival_panic", alive, TRUE))
    /\ UNCHANGED <<outsideBot, outbox, finishing, seen, alive>>

BotCalms ==
    /\ panicking
    /\ panicking' = FALSE
    /\ Becomes(IF current \in Retreat
               THEN AbortActiveTask(Executor, "unlock", alive, FALSE) ELSE Executor)
    /\ UNCHANGED <<outsideBot, outbox, finishing, seen, alive, budget>>

BotDies ==
    /\ alive
    /\ Spend("death")
    /\ alive' = FALSE /\ panicking' = FALSE
    /\ Becomes(AbortActiveTask(Executor, "bot_died", FALSE, FALSE))
    /\ UNCHANGED <<outsideBot, outbox, finishing, seen>>

BotRespawns ==
    /\ ~alive
    /\ alive' = TRUE
    /\ UNCHANGED <<outsideBot, outbox, taskVars, seen, panicking, budget>>

(* wsActor forgets an ID after ten minutes, or when a thousand others have *)
(* followed it.                                                            *)
FilterForgets(id) ==
    /\ id \in seen
    /\ Spend("forget")
    /\ seen' = seen \ {id}
    /\ UNCHANGED <<tmVars, enVars, leaseVars, reflexActive, timerVars, aborting, handlerVars,
                   taskVars, panicking, alive, retried>>

(* A new connection has a wsActor of its own, which has seen nothing. *)
Connects ==
    /\ ~ready
    /\ TM!ControllerChanges
    /\ seen' = {}
    /\ UNCHANGED <<enVars, leaseVars, reflexActive, timerVars, aborting, handlerVars,
                   taskVars, panicking, alive, budget, retried>>

Disconnects ==
    /\ ready
    /\ Spend("disconnect")
    /\ TM!ControllerChanges
    /\ UNCHANGED <<enVars, leaseVars, reflexActive, timerVars, aborting, handlerVars,
                   botVars, retried>>

-----------------------------------------------------------------------------
Server ==
    \/ SendAbort
    \/ PlanRequests \/ PlanDrifts \/ PlanEnqueues
    \/ StartHandled \/ StartLooks \/ RegisterWatchdog
    \/ EndHandled \/ EndCompletes \/ EndAdapts
    \/ \E r \in HaltReasons : HaltHalts(r) \/ HaltClears(r)
    \/ PanicRequests
    \/ \E id \in Id : Answered(id)

Queue ==
    \/ QueueSchedules \/ QueueTakesSignal \/ QueueDispatches \/ QueueExecutes

Bot ==
    \/ Deliver
    \/ \E cause \in {Completed, "TIMEOUT"} : BotFinishes(cause)
    \/ \E f \in finishing : BotReports(f)
    \/ BotPanics \/ BotCalms \/ BotDies \/ BotRespawns
    \/ Connects \/ Disconnects

Outside ==
    \/ \E id \in PlanId : PlanArrives(id)
    \/ \E r \in HaltReasons : HaltArrives(r)
    \/ \E id \in FarmId : CheckProactiveFarming(id)
    \/ \E id \in EscapeId : PreEscape(id)
    \/ \E id \in ControlId : IngestControlInput(id)
    \/ PanicResolved
    \/ \E id \in Id : WatchdogFires(id)
    \/ EngineCleansUp
    \/ DedupWindowCloses
    \/ \E id \in Id : FilterForgets(id)

(* Stale goroutines exit first, which leaves out interleavings that differ in
   nothing else. *)
Next ==
    \/ \E g \in threads : Stale(g) /\ EngineRuns(g)
    \/ /\ \A g \in threads : ~Stale(g)
       /\ \/ Server
          \/ Queue
          \/ \E g \in threads : EngineRuns(g)
          \/ Bot
          \/ Outside

Spec == Init /\ [][Next]_vars

(* Handlers, the Run goroutine and the goroutines of the engine are scheduled,
   a Go mutex is not withheld for ever, messages are delivered, timers of the
   bot fire, and the cleanup ticker of the engine keeps firing.  A bot that
   runs a task ends it (calculateDynamicTimeout).  Outside events need not
   happen. *)
FairSpec ==
    /\ Spec
    /\ WF_vars(SendAbort)
    /\ WF_vars(PlanRequests) /\ WF_vars(PlanEnqueues)
    /\ WF_vars(StartHandled) /\ WF_vars(StartLooks) /\ WF_vars(RegisterWatchdog)
    /\ WF_vars(EndHandled) /\ WF_vars(EndCompletes) /\ WF_vars(EndAdapts)
    /\ WF_vars(\E r \in HaltReasons : HaltHalts(r) \/ HaltClears(r))
    /\ WF_vars(PanicRequests)
    /\ WF_vars(\E id \in Id : Answered(id))
    /\ WF_vars(Queue)
    /\ WF_vars(\E g \in threads : EngineRuns(g))
    /\ WF_vars(EngineCleansUp)
    /\ WF_vars(Deliver)
    /\ WF_vars(BotFinishes(Completed)) /\ WF_vars(\E f \in finishing : BotReports(f))
    /\ WF_vars(BotCalms)
    /\ WF_vars(BotRespawns) /\ WF_vars(Connects)

-----------------------------------------------------------------------------
Causes == Reason \union {Completed, "TIMEOUT", "preempted", "context_cancelled",
                         "survival_panic", "panic", "unlock"}

TypeOK ==
    /\ TM!TypeOK /\ EN!TypeOK
    /\ holder \in Id \union {NoTask}
    /\ approved \subseteq Id /\ asking \subseteq Id
    /\ reflexActive \in BOOLEAN
    /\ registered \subseteq Id /\ armed \in [Id -> Nat]
    /\ aborting \in Reason \union {NoReason}
    /\ planning.at \in {"rest", "request", "enqueue"}
    /\ starting.at \in {"rest", "look", "register"}
    /\ ending.at \in {"rest", "complete", "adapt"}
    /\ \A r \in HaltReasons : halting[r] \in {"rest", "halt", "clear", "request"}
    /\ {current, preloaded} \subseteq Id \union {NoTask}
    /\ starts \in Seq(Id) /\ ends \in Seq([id : Id, cause : Causes])
    /\ seen \subseteq Id

(* But for idle drifts, nothing reaches the dispatch queue or the bot that  *)
(* the arbiter has not let through at some time: not by a plan overtaking   *)
(* its own denial, not by a retry, a preload or a restarted connection.     *)
Admitted == approved \union DriftId \union {NoTask}

OnlyApproved ==
    /\ \A i \in Item : queue[i] + scheduled[i] > 0 => i.id \in Admitted \ {NoTask}
    /\ active # NoItem => active.id \in Admitted \ {NoTask}
    /\ {current, preloaded} \subseteq Admitted

(* A task that is charged as failed and put back on the schedule was        *)
(* started by the bot for it: a watchdog and the bot both reporting the     *)
(* end of one attempt, or the bot reporting it twice, charge it once.       *)
RetryPerStart == \A id \in Id : retried[id] <= ran[id]

(* The end of the active task unblocks the dispatch queue, however it is    *)
(* reported, whether or not a watchdog is registered for it and whatever    *)
(* else holds the lock of the queue meanwhile.                              *)
IsActive(id) == active # NoItem /\ active.id = id

EndUnblocksQueue ==
    \A id \in Id :
        (IsActive(id) /\ \E n \in 1..Len(ends) : ends[n].id = id) ~> ~IsActive(id)

(* While wsActor remembers the dispatch of an action, the action starts at  *)
(* most once more: when it waits as the preloaded task, and that slot is    *)
(* not filled with it again.  Every other message for it, the second        *)
(* dispatch by Run, a retry under the same ID, a late preload, is dropped.  *)
SpentOnceDispatched ==
    [][ \A id \in seen \intersect seen' :
          /\ ran'[id] # ran[id] => preloaded = id /\ ran'[id] = ran[id] + 1
          /\ preloaded' = id => preloaded = id /\ ran'[id] = ran[id] ]_vars

-----------------------------------------------------------------------------
(* What comments of the code say, and the code does not do                  *)

(* engine.go:75, "Task stuck in dispatched state (no TASK_START received).  *)
(* Force clearing": the task that was cleared does not stay the active one. *)
StuckTaskCleared ==
    \A id \in Id : (IsActive(id) /\ pc = "select" /\ inFlight = NoTask /\ current # id)
                      ~> ~IsActive(id)

=============================================================================

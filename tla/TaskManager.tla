----------------------------- MODULE TaskManager -----------------------------
(***************************************************************************)
(* The dispatch queue of internal/execution/task_manager.go: a priority    *)
(* heap, a list of scheduled items, at most one active task, and the Run   *)
(* goroutine that moves items from the first to the last.  Enqueue,        *)
(* EnqueueScheduled, Complete and Halt are called by other goroutines      *)
(* under tm.mu, each one action; Run releases tm.mu between taking an item *)
(* off the heap and dispatchCurrent, and again before ExecuteAsync, so     *)
(* that a dispatch is three actions.  The calls into the engine are        *)
(* conjoined by the module that composes this one with it.                 *)
(*                                                                         *)
(* Two equal heap entries cannot be told apart: the heap is the number of  *)
(* copies of each item, and its root is any item of maximal priority.      *)
(***************************************************************************)
EXTENDS Integers

CONSTANTS
    Item,       \* what a heap entry may be: records with fields id and prio
    Curiosity,  \* the item the idle check makes up
    NoItem,     \* activeTask = nil
    DedupKey,   \* [Item -> key], the action:target of an item
    Ctx,        \* the contexts context.WithCancel may return
    NoCtx,      \* activeCtx = nil
    DangerSafe, \* can GetDangerState answer SAFE?  as wired, only when its request times out
    MaxCopies   \* bound: copies of an item on the heap or in the schedule

ASSUME ItemAssumption ==
    /\ \A i \in Item : i.prio \in Int
    /\ NoItem \notin Item
    /\ Curiosity \in Item

ASSUME CtxAssumption == NoCtx \notin Ctx /\ Ctx # {}

ASSUME BoundAssumption == MaxCopies \in Nat \ {0} /\ DangerSafe \in BOOLEAN

VARIABLES
    queue,      \* [Item -> Nat], the heap
    scheduled,  \* [Item -> Nat], the items waiting for their executeAt
    active,     \* activeTask
    activeCtx,  \* activeCtx; cancelTask cancels it
    liveCtx,    \* the contexts handed out and not cancelled
    signal,     \* is there a token in signalCh (capacity 1)?
    pc,         \* where Run is: "select", "dispatch" (item popped), "execute"
    item,       \* the item Run works on
    itemCtx,    \* the context Run made for it
    recent,     \* keys enqueued less than two seconds ago
    idle,       \* idleSince: "zero", "set", "long" (more than six seconds ago)
    backingOff, \* is the last failure more recent than the idle backoff?
    ready       \* engine.HasController()

runVars == <<pc, item, itemCtx>>
ctxVars == <<active, activeCtx, liveCtx>>
idleVars == <<idle, backingOff>>
vars == <<queue, scheduled, ctxVars, signal, runVars, recent, idleVars, ready>>

-----------------------------------------------------------------------------
EmptyQueue == [i \in Item |-> 0]
IsEmpty(q) == \A i \in Item : q[i] = 0

(* heap.Push, heap.Pop, tm.queue[0] *)
Push(q, i) == [q EXCEPT ![i] = @ + 1]
Remove(q, i) == [q EXCEPT ![i] = @ - 1]
IsRoot(q, i) == q[i] > 0 /\ \A j \in Item : q[j] > 0 => j.prio <= i.prio

(* Bug: the fields are cleared without calling cancelTask. *)
ForgetActive ==
    /\ active' = NoItem
    /\ activeCtx' = NoCtx
    /\ UNCHANGED liveCtx

(* cancelTask(), and the fields it leaves nil *)
CancelActive ==
    /\ active' = NoItem
    /\ activeCtx' = NoCtx
    /\ liveCtx' = liveCtx \ {activeCtx}

EmptyInit ==
    /\ queue = EmptyQueue /\ scheduled = EmptyQueue
    /\ active = NoItem /\ activeCtx = NoCtx /\ liveCtx = {}
    /\ signal = FALSE
    /\ pc = "select" /\ item = NoItem /\ itemCtx = NoCtx
    /\ recent = {}
    /\ idle = "zero" /\ backingOff = FALSE

Init == EmptyInit /\ ready = FALSE

-----------------------------------------------------------------------------
(* Calls from other goroutines *)

(* Bug: no signal for Run. *)
EnqueueSilently(i) ==
    /\ queue[i] < MaxCopies
    /\ queue' = Push(queue, i) /\ recent' = recent \union {DedupKey[i]}
    /\ idle' = "zero"
    /\ UNCHANGED <<scheduled, ctxVars, signal, runVars, backingOff, ready>>

(* A duplicate within the window is dropped, but signals all the same. *)
Enqueue(i) ==
    /\ queue[i] < MaxCopies
    /\ IF i # Curiosity /\ DedupKey[i] \in recent
       THEN UNCHANGED <<queue, recent>>
       ELSE /\ queue' = Push(queue, i)
            /\ recent' = recent \union {DedupKey[i]}
    /\ signal' = TRUE
    /\ idle' = "zero"
    /\ UNCHANGED <<scheduled, ctxVars, runVars, backingOff, ready>>

EnqueueScheduled(i) ==
    /\ scheduled[i] < MaxCopies
    /\ scheduled' = Push(scheduled, i)
    /\ UNCHANGED <<queue, ctxVars, signal, runVars, recent, idleVars, ready>>

(* Complete of an ID that is not the active one returns at once. *)
Completes(id) == active # NoItem /\ active.id = id

(* Bug: success does not wake Run for the items still waiting. *)
CompleteSilently(id) ==
    /\ Completes(id)
    /\ CancelActive
    /\ UNCHANGED <<queue, scheduled, signal, runVars, recent, idleVars, ready>>

CompleteSuccess(id) ==
    /\ Completes(id)
    /\ CancelActive
    /\ signal' = (signal \/ ~IsEmpty(queue))
    /\ UNCHANGED <<queue, scheduled, runVars, recent, idleVars, ready>>

CompleteFailure(id, controlled) ==
    /\ Completes(id)
    /\ CancelActive
    /\ queue' = EmptyQueue
    /\ backingOff' = (backingOff \/ ~controlled)
    /\ UNCHANGED <<scheduled, signal, runVars, recent, idle, ready>>

(* The heap is wiped, the schedule is not. *)
Halt ==
    /\ queue' = EmptyQueue
    /\ IF active # NoItem THEN CancelActive ELSE UNCHANGED ctxVars
    /\ UNCHANGED <<scheduled, signal, runVars, recent, idleVars, ready>>

-----------------------------------------------------------------------------
(* The Run goroutine *)

(* processScheduled: what is due goes to the heap. *)
ProcessScheduled ==
    /\ pc = "select"
    /\ \E due \in (SUBSET {i \in Item : scheduled[i] > 0 /\ queue[i] < MaxCopies}) \ {{}} :
          /\ scheduled' = [i \in Item |-> IF i \in due THEN scheduled[i] - 1 ELSE scheduled[i]]
          /\ queue' = [i \in Item |-> IF i \in due THEN queue[i] + 1 ELSE queue[i]]
    /\ signal' = TRUE
    /\ UNCHANGED <<ctxVars, runVars, recent, idleVars, ready>>

(* The 1 s idle check, once the backoff after failures is over *)
ShouldRunCuriosity == active = NoItem /\ IsEmpty(queue) /\ ready /\ DangerSafe

IdleCheck ==
    /\ pc = "select"
    /\ ~backingOff
    /\ \/ /\ ~ShouldRunCuriosity
          /\ idle' = "zero"
          /\ UNCHANGED <<queue, signal>>
       \/ /\ ShouldRunCuriosity /\ idle = "zero"
          /\ idle' = "set"
          /\ UNCHANGED <<queue, signal>>
       \/ /\ ShouldRunCuriosity /\ idle = "long"
          /\ idle' = "zero"
          /\ queue' = Push(queue, Curiosity)
          /\ signal' = TRUE
    /\ UNCHANGED <<scheduled, ctxVars, runVars, recent, backingOff, ready>>

(* Bug: an item of the same priority is popped as well. *)
PopsEqual(i) == IsRoot(queue, i) /\ (active # NoItem => i.prio >= active.prio)

(* The root is popped if it outranks the active task.  The token is consumed *)
(* whether or not there is something to pop.                                 *)
Pops(i) == IsRoot(queue, i) /\ (active # NoItem => i.prio > active.prio)

NothingOutranksActive ==
    \A i \in Item : queue[i] > 0 => (active # NoItem /\ i.prio <= active.prio)

TakeSignal ==
    /\ pc = "select"
    /\ signal
    /\ signal' = FALSE
    /\ \/ \E i \in Item :
             /\ Pops(i)
             /\ queue' = Remove(queue, i)
             /\ pc' = "dispatch" /\ item' = i
             /\ idle' = "zero"
       \/ /\ NothingOutranksActive
          /\ UNCHANGED <<queue, pc, item, idle>>
    /\ UNCHANGED <<scheduled, ctxVars, itemCtx, recent, backingOff, ready>>

(* dispatchCurrent, the section under tm.mu *)

(* Bug: Run keeps the item it has dropped. *)
DispatchDropKeeps ==
    /\ pc = "dispatch" /\ active # NoItem
    /\ ~ready \/ item.prio <= active.prio
    /\ pc' = "select"
    /\ UNCHANGED <<queue, scheduled, ctxVars, signal, item, itemCtx, recent, idleVars, ready>>

(* the popped item is forgotten *)
DispatchDrop ==
    /\ pc = "dispatch" /\ active # NoItem
    /\ ~ready \/ item.prio <= active.prio
    /\ pc' = "select" /\ item' = NoItem
    /\ UNCHANGED <<queue, scheduled, ctxVars, signal, itemCtx, recent, idleVars, ready>>

(* not urgent enough to preempt: back on the heap, without a signal *)
DispatchPushBack ==
    /\ pc = "dispatch" /\ active # NoItem /\ ready
    /\ item.prio > active.prio /\ item.prio - active.prio <= 5
    /\ queue' = Push(queue, item)
    /\ pc' = "select" /\ item' = NoItem
    /\ UNCHANGED <<scheduled, ctxVars, signal, itemCtx, recent, idleVars, ready>>

Preempts == active # NoItem /\ ready /\ item.prio - active.prio > 5

(* the item becomes the active task, with a fresh context *)
DispatchActivate(c) ==
    /\ pc = "dispatch"
    /\ active = NoItem \/ Preempts
    /\ active' = item
    /\ activeCtx' = c
    /\ liveCtx' = (liveCtx \ {activeCtx}) \union {c}
    /\ pc' = "execute" /\ itemCtx' = c
    /\ UNCHANGED <<queue, scheduled, signal, item, recent, idleVars, ready>>

(* engine.ExecuteAsync, after tm.mu is released *)
Execute ==
    /\ pc = "execute"
    /\ pc' = "select" /\ item' = NoItem /\ itemCtx' = NoCtx
    /\ UNCHANGED <<queue, scheduled, ctxVars, signal, recent, idleVars, ready>>

-----------------------------------------------------------------------------
(* Time, and the connection of the bot *)

DedupWindowCloses(k) ==
    /\ k \in recent
    /\ recent' = recent \ {k}
    /\ UNCHANGED <<queue, scheduled, ctxVars, signal, runVars, idleVars, ready>>

IdleElapses ==
    /\ idle = "set"
    /\ idle' = "long"
    /\ UNCHANGED <<queue, scheduled, ctxVars, signal, runVars, recent, backingOff, ready>>

BackoffEnds ==
    /\ backingOff
    /\ backingOff' = FALSE
    /\ UNCHANGED <<queue, scheduled, ctxVars, signal, runVars, recent, idle, ready>>

ControllerChanges ==
    /\ ready' = ~ready
    /\ UNCHANGED <<queue, scheduled, ctxVars, signal, runVars, recent, idleVars>>

Dispatch ==
    \/ DispatchDrop
    \/ DispatchPushBack
    \/ \E c \in Ctx \ liveCtx : DispatchActivate(c)

IDs == {i.id : i \in Item}

Next ==
    \/ \E i \in Item \ {Curiosity} : Enqueue(i)
    \/ \E i \in Item \ {Curiosity} : EnqueueScheduled(i)
    \/ \E id \in IDs : CompleteSuccess(id)
    \/ \E id \in IDs, controlled \in BOOLEAN : CompleteFailure(id, controlled)
    \/ Halt
    \/ ProcessScheduled
    \/ IdleCheck
    \/ TakeSignal
    \/ Dispatch
    \/ Execute
    \/ \E k \in recent : DedupWindowCloses(k)
    \/ IdleElapses
    \/ BackoffEnds
    \/ ControllerChanges

Spec == Init /\ [][Next]_vars

(* Run is one goroutine that never blocks for good: every case of its select
   that stays ready is taken.  Its callers are not fair. *)
FairSpec == Spec /\ WF_vars(TakeSignal) /\ WF_vars(Dispatch) /\ WF_vars(Execute)

-----------------------------------------------------------------------------
TypeOK ==
    /\ queue \in [Item -> Nat] /\ scheduled \in [Item -> Nat]
    /\ active \in Item \union {NoItem}
    /\ activeCtx \in Ctx \union {NoCtx}
    /\ liveCtx \subseteq Ctx
    /\ signal \in BOOLEAN
    /\ pc \in {"select", "dispatch", "execute"}
    /\ item \in Item \union {NoItem}
    /\ (item = NoItem) <=> (pc = "select")
    /\ itemCtx \in Ctx \union {NoCtx}
    /\ recent \subseteq {DedupKey[i] : i \in Item}
    /\ idle \in {"zero", "set", "long"}
    /\ backingOff \in BOOLEAN
    /\ ready \in BOOLEAN

(* No wakeup is lost: whenever items wait and no task is active, Run has a  *)
(* token to take or already holds the next item, although signalCh keeps    *)
(* one token only and Run consumes it even when it pops nothing.            *)
NoLostWakeup ==
    (~IsEmpty(queue) /\ active = NoItem) => (signal \/ pc = "dispatch")

(* A context that is not cancelled is the context of the active task: every *)
(* way a task stops being active (Complete, Halt, preemption) cancels the   *)
(* context its maintenance goroutine watches.                               *)
ContextsAccountedFor ==
    liveCtx = IF active = NoItem THEN {} ELSE {activeCtx}

(* An item Run has popped outranks the active task until dispatchCurrent    *)
(* looks at it, although tm.mu is released in between.                      *)
PoppedOutranksActive ==
    (pc = "dispatch" /\ active # NoItem) => item.prio > active.prio

(* What Run has popped is not forgotten: unless it becomes the active task, *)
(* it is on the heap again when Run goes back to its select, whatever the   *)
(* callers did to the active task and the heap meanwhile.  The exception    *)
(* is a dispatch in front of an active task without a bot connected.        *)
PoppedNotForgotten ==
    [][ (pc = "dispatch" /\ pc' = "select") =>
          (queue'[item] = queue[item] + 1 \/ (~ready /\ active # NoItem)) ]_vars

(* Waiting items are served: if nothing is active, Run activates something  *)
(* or someone wipes the heap.                                               *)
QueueServed ==
    (~IsEmpty(queue) /\ active = NoItem) ~> (IsEmpty(queue) \/ active # NoItem)

=============================================================================

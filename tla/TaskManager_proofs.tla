-------------------------- MODULE TaskManager_proofs --------------------------
(***************************************************************************)
(* Proofs about the dispatch queue, for any items, priorities and contexts *)
(* and without the bound on copies playing a part.                         *)
(***************************************************************************)
EXTENDS TaskManager, TLAPS

USE DEF ItemAssumption, CtxAssumption, BoundAssumption

(* The queue operations stay within the type of the heap. *)
LEMMA QueueOperations ==
    ASSUME NEW q \in [Item -> Nat], NEW i \in Item
    PROVE  /\ Push(q, i) \in [Item -> Nat]
           /\ q[i] > 0 => Remove(q, i) \in [Item -> Nat]
           /\ EmptyQueue \in [Item -> Nat] /\ IsEmpty(EmptyQueue)
           /\ ~IsEmpty(Push(q, i))
  BY DEF Push, Remove, EmptyQueue, IsEmpty

(* One case per action, shared by the invariance proofs below: a step is one *)
(* of these, or leaves everything but the clocks and the connection alone.   *)
Unobserved ==
    UNCHANGED <<queue, active, activeCtx, liveCtx, signal, pc, item, itemCtx>>

LEMMA StepCases ==
    ASSUME [Next]_vars
    PROVE  \/ \E i \in Item : Enqueue(i)
           \/ \E id \in IDs : CompleteSuccess(id)
           \/ \E id \in IDs, controlled \in BOOLEAN : CompleteFailure(id, controlled)
           \/ Halt \/ ProcessScheduled \/ IdleCheck \/ TakeSignal
           \/ Dispatch \/ Execute
           \/ Unobserved
  BY DEF Next, EnqueueScheduled, DedupWindowCloses, IdleElapses, BackoffEnds,
         ControllerChanges, Unobserved, vars, ctxVars, runVars

(* A step keeps the types. *)
LEMMA TypeKept ==
    ASSUME TypeOK, [Next]_vars
    PROVE  TypeOK'
<1> USE DEF TypeOK, ctxVars, runVars, idleVars
<1>1. ASSUME NEW i \in Item, Enqueue(i) PROVE TypeOK'
  BY <1>1, QueueOperations DEF Enqueue
<1>2. ASSUME NEW i \in Item, EnqueueScheduled(i) PROVE TypeOK'
  BY <1>2, QueueOperations DEF EnqueueScheduled
<1>3. ASSUME NEW id \in IDs, CompleteSuccess(id) PROVE TypeOK'
  <2>1. signal' \in BOOLEAN
    BY <1>3 DEF CompleteSuccess
  <2>2. QED
    BY <1>3, <2>1 DEF CompleteSuccess, CancelActive
<1>4. ASSUME NEW id \in IDs, NEW controlled \in BOOLEAN, CompleteFailure(id, controlled)
      PROVE TypeOK'
  <2>1. backingOff' \in BOOLEAN
    BY <1>4 DEF CompleteFailure
  <2>2. QED
    BY <1>4, <2>1 DEF CompleteFailure, CancelActive, EmptyQueue
<1>5. ASSUME Halt PROVE TypeOK'
  BY <1>5 DEF Halt, CancelActive, EmptyQueue
<1>6. ASSUME ProcessScheduled PROVE TypeOK'
  BY <1>6 DEF ProcessScheduled
<1>7. ASSUME IdleCheck PROVE TypeOK'
  <2>1. queue' \in [Item -> Nat] /\ idle' \in {"zero", "set", "long"}
    BY <1>7, QueueOperations, ItemAssumption DEF IdleCheck
  <2>2. signal' \in BOOLEAN
    BY <1>7 DEF IdleCheck
  <2>3. QED
    BY <1>7, <2>1, <2>2 DEF IdleCheck
<1>8. ASSUME TakeSignal PROVE TypeOK'
  <2>1. CASE UNCHANGED <<queue, pc, item, idle>>
    BY <1>8, <2>1 DEF TakeSignal
  <2>2. ASSUME NEW i \in Item, Pops(i), queue' = Remove(queue, i),
               pc' = "dispatch", item' = i, idle' = "zero"
        PROVE  TypeOK'
    <3>1. queue' \in [Item -> Nat]
      BY <2>2, QueueOperations DEF Pops, IsRoot
    <3>2. QED
      BY <1>8, <2>2, <3>1, ItemAssumption DEF TakeSignal
  <2>3. QED
    BY <1>8, <2>1, <2>2 DEF TakeSignal
<1>9. ASSUME Dispatch PROVE TypeOK'
  <2>1. CASE DispatchDrop
    BY <2>1 DEF DispatchDrop
  <2>2. CASE DispatchPushBack
    BY <2>2, QueueOperations DEF DispatchPushBack
  <2>3. ASSUME NEW c \in Ctx, DispatchActivate(c) PROVE TypeOK'
    BY <2>3 DEF DispatchActivate
  <2>4. QED
    BY <1>9, <2>1, <2>2, <2>3 DEF Dispatch
<1>10. ASSUME Execute PROVE TypeOK'
  BY <1>10 DEF Execute
<1>11. ASSUME NEW k \in recent, DedupWindowCloses(k) PROVE TypeOK'
  BY <1>11 DEF DedupWindowCloses
<1>12. CASE IdleElapses \/ BackoffEnds \/ ControllerChanges \/ UNCHANGED vars
  BY <1>12 DEF IdleElapses, BackoffEnds, ControllerChanges, vars
<1>13. QED
  BY <1>1, <1>2, <1>3, <1>4, <1>5, <1>6, <1>7, <1>8, <1>9, <1>10, <1>11, <1>12 DEF Next

(* The types are right in every reachable state. *)
THEOREM TypeCorrect == Spec => []TypeOK
<1>1. Init => TypeOK
  <2> SUFFICES ASSUME Init PROVE TypeOK
    OBVIOUS
  <2>1. /\ queue \in [Item -> Nat] /\ scheduled \in [Item -> Nat]
        /\ active \in Item \union {NoItem}
        /\ activeCtx \in Ctx \union {NoCtx} /\ liveCtx \subseteq Ctx
        /\ item \in Item \union {NoItem} /\ itemCtx \in Ctx \union {NoCtx}
        /\ (item = NoItem) <=> (pc = "select")
    BY DEF Init, EmptyInit, EmptyQueue
  <2>2. /\ signal \in BOOLEAN /\ backingOff \in BOOLEAN /\ ready \in BOOLEAN
        /\ pc \in {"select", "dispatch", "execute"}
        /\ idle \in {"zero", "set", "long"}
        /\ recent \subseteq {DedupKey[i] : i \in Item}
    BY DEF Init, EmptyInit
  <2>3. QED
    BY <2>1, <2>2 DEF TypeOK
<1>2. TypeOK /\ [Next]_vars => TypeOK'
  BY TypeKept
<1>3. QED
  BY <1>1, <1>2, PTL DEF Spec

-----------------------------------------------------------------------------
(***************************************************************************)
(* Wakeups.  NoLostWakeup is inductive: every action that leaves items on  *)
(* the heap without an active task also leaves the token.                  *)
(***************************************************************************)
LEMMA WakeupKept ==
    ASSUME TypeOK, NoLostWakeup, [Next]_vars
    PROVE  NoLostWakeup'
<1> SUFFICES ASSUME TypeOK, NoLostWakeup, [Next]_vars, ~IsEmpty(queue)', active' = NoItem
             PROVE  signal' \/ pc' = "dispatch"
  BY DEF NoLostWakeup
<1> USE DEF NoLostWakeup, TypeOK, ctxVars, runVars, IsEmpty
<1>1. ASSUME NEW i \in Item, Enqueue(i) PROVE signal'
  BY <1>1 DEF Enqueue
<1>2. ASSUME NEW id \in IDs, CompleteSuccess(id) PROVE signal'
  BY <1>2 DEF CompleteSuccess
<1>3. ASSUME NEW id \in IDs, NEW controlled \in BOOLEAN, CompleteFailure(id, controlled)
      PROVE  FALSE
  BY <1>3 DEF CompleteFailure, EmptyQueue
<1>4. ASSUME Halt PROVE FALSE
  BY <1>4 DEF Halt, EmptyQueue
<1>5. ASSUME ProcessScheduled PROVE signal'
  BY <1>5 DEF ProcessScheduled
<1>6. ASSUME IdleCheck PROVE signal' \/ pc' = "dispatch"
  <2>1. CASE signal' = TRUE
    BY <2>1
  <2>2. CASE UNCHANGED <<queue, signal>>
    BY <1>6, <2>2 DEF IdleCheck
  <2>3. QED
    BY <1>6, <2>1, <2>2 DEF IdleCheck
<1>7. ASSUME TakeSignal PROVE pc' = "dispatch"
  (* nothing is popped only if the heap is empty or a task is active *)
  <2>1. active = NoItem
    BY <1>7 DEF TakeSignal
  <2>2. CASE NothingOutranksActive /\ UNCHANGED queue
    BY <2>1, <2>2 DEF NothingOutranksActive
  <2>3. QED
    BY <1>7, <2>2 DEF TakeSignal
<1>8. ASSUME Dispatch PROVE FALSE
  BY <1>8, ItemAssumption DEF Dispatch, DispatchDrop, DispatchPushBack, DispatchActivate
<1>9. ASSUME Execute PROVE signal' \/ pc' = "dispatch"
  BY <1>9 DEF Execute
<1>10. CASE Unobserved
  BY <1>10 DEF Unobserved
<1>11. QED
  BY <1>1, <1>2, <1>3, <1>4, <1>5, <1>6, <1>7, <1>8, <1>9, <1>10, StepCases

(* So Run never sleeps on a heap that nobody else will wake it for.         *)
THEOREM WakeupsKept == Spec => []NoLostWakeup
<1>1. Init => NoLostWakeup
  BY DEF Init, EmptyInit, NoLostWakeup, EmptyQueue, IsEmpty
<1>2. TypeOK /\ NoLostWakeup /\ [Next]_vars => NoLostWakeup'
  BY WakeupKept
<1>3. QED
  BY <1>1, <1>2, TypeCorrect, PTL DEF Spec

-----------------------------------------------------------------------------
(***************************************************************************)
(* The active task and its context.                                        *)
(***************************************************************************)

(* Every step that ends an activation cancels its context. *)
LEMMA ContextKept ==
    ASSUME TypeOK, ContextsAccountedFor, [Next]_vars
    PROVE  ContextsAccountedFor'
<1> USE DEF ContextsAccountedFor, ctxVars
<1>1. CASE UNCHANGED ctxVars
  BY <1>1
<1>2. CASE CancelActive
  BY <1>2 DEF CancelActive
<1>3. ASSUME NEW c \in Ctx, DispatchActivate(c) PROVE ContextsAccountedFor'
  <2>1. active' # NoItem
    BY <1>3 DEF DispatchActivate, TypeOK
  <2>2. QED
    BY <1>3, <2>1 DEF DispatchActivate
<1>4. UNCHANGED ctxVars \/ CancelActive \/ \E c \in Ctx : DispatchActivate(c)
  BY StepCases DEF Enqueue, CompleteSuccess, CompleteFailure, Halt, ProcessScheduled,
     IdleCheck, TakeSignal, Dispatch, DispatchDrop, DispatchPushBack, Execute, Unobserved
<1>5. QED
  BY <1>1, <1>2, <1>3, <1>4

(* At most one context is alive, the one of the active task: no maintenance *)
(* goroutine outlives the activation it was started for.                    *)
THEOREM ContextsNeverLeak == Spec => []ContextsAccountedFor
<1>1. Init => ContextsAccountedFor
  BY DEF Init, EmptyInit, ContextsAccountedFor
<1>2. TypeOK /\ ContextsAccountedFor /\ [Next]_vars => ContextsAccountedFor'
  BY ContextKept
<1>3. QED
  BY <1>1, <1>2, TypeCorrect, PTL DEF Spec

(* Between the pop and the dispatch the active task can only end.            *)
LEMMA UrgencyKept ==
    ASSUME TypeOK, PoppedOutranksActive, [Next]_vars
    PROVE  PoppedOutranksActive'
<1> SUFFICES ASSUME TypeOK, PoppedOutranksActive, [Next]_vars,
                    pc' = "dispatch", active' # NoItem
             PROVE  item'.prio > active'.prio
  BY DEF PoppedOutranksActive
<1> USE DEF PoppedOutranksActive, ctxVars, runVars
<1>1. CASE UNCHANGED <<active, item, pc>>
  BY <1>1
<1>2. CASE TakeSignal
  <2>1. pc = "select" /\ UNCHANGED active
    BY <1>2 DEF TakeSignal
  <2>2. PICK i \in Item : Pops(i) /\ item' = i
    BY <1>2, <2>1 DEF TakeSignal
  <2>3. QED
    BY <2>1, <2>2 DEF Pops
<1>3. CASE active' = NoItem \/ pc' # "dispatch"
  BY <1>3
<1>4. UNCHANGED <<active, item, pc>> \/ TakeSignal \/ active' = NoItem \/ pc' # "dispatch"
  BY StepCases DEF Enqueue, CompleteSuccess, CompleteFailure, CancelActive, Halt,
     ProcessScheduled, IdleCheck, Dispatch, DispatchDrop, DispatchPushBack,
     DispatchActivate, Execute, Unobserved
<1>5. QED
  BY <1>1, <1>2, <1>3, <1>4

(* What Run has popped outranks the active task until dispatchCurrent looks. *)
THEOREM PoppedStaysUrgent == Spec => []PoppedOutranksActive
<1>1. Init => PoppedOutranksActive
  BY DEF Init, EmptyInit, PoppedOutranksActive
<1>2. TypeOK /\ PoppedOutranksActive /\ [Next]_vars => PoppedOutranksActive'
  BY UrgencyKept
<1>3. QED
  BY <1>1, <1>2, TypeCorrect, PTL DEF Spec

(* A step that ends a dispatch without an active task to show for it has    *)
(* pushed the item back: what it would drop does not outrank the active.    *)
LEMMA PoppedKept ==
    ASSUME TypeOK, PoppedOutranksActive, [Next]_vars, pc = "dispatch", pc' = "select"
    PROVE  queue'[item] = queue[item] + 1 \/ (~ready /\ active # NoItem)
<1>1. DispatchDrop \/ DispatchPushBack
  BY StepCases DEF Enqueue, CompleteSuccess, CompleteFailure, CancelActive, Halt,
     ProcessScheduled, IdleCheck, TakeSignal, Dispatch, DispatchActivate,
     Execute, Unobserved, ctxVars, runVars
<1>2. item \in Item
  BY DEF TypeOK
<1>3. CASE DispatchDrop
  <2>1. active # NoItem /\ (~ready \/ item.prio <= active.prio)
    BY <1>3 DEF DispatchDrop
  <2>2. item.prio \in Int /\ active.prio \in Int
    BY <1>2, <2>1, ItemAssumption DEF TypeOK
  <2>3. item.prio > active.prio
    BY <2>1 DEF PoppedOutranksActive
  <2>4. QED
    BY <2>1, <2>2, <2>3
<1>4. CASE DispatchPushBack
  BY <1>2, <1>4 DEF DispatchPushBack, Push, TypeOK
<1>5. QED
  BY <1>1, <1>3, <1>4

(* Run forgets no item it has popped, but without a bot. *)
THEOREM NothingPoppedIsLost == Spec => PoppedNotForgotten
<1>1. TypeOK /\ PoppedOutranksActive /\ [Next]_vars =>
        [(pc = "dispatch" /\ pc' = "select") =>
           (queue'[item] = queue[item] + 1 \/ (~ready /\ active # NoItem))]_vars
  BY PoppedKept
<1>2. QED
  BY <1>1, TypeCorrect, PoppedStaysUrgent, PTL DEF Spec, PoppedNotForgotten

=============================================================================

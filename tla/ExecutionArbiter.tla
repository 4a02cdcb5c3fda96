--------------------------- MODULE ExecutionArbiter ---------------------------
(***************************************************************************)
(* The execution arbiter: supervisorActor, its ExecutionState (the lease   *)
(* and the retry ledger) and the retry policy of internal/execution.       *)
(*                                                                         *)
(* Plans, the panic reflex, the prep orchestrator and the operator ask the *)
(* arbiter once for an action.  What happens to the action afterwards does *)
(* not pass here again: the dispatch queue and the retries of              *)
(* ControlService send it to the bot as often as they like, and the idle   *)
(* actions of the humanizer and of the queue itself are never asked for at *)
(* all.  The arbiter hears of their failures all the same.  The actor      *)
(* handles one message at a time, so each message is one action.           *)
(*                                                                         *)
(* time.Since(x) is the age of x: a counter that Tick advances and that    *)
(* saturates at AgeCap, one more than every threshold it is compared with. *)
(***************************************************************************)
EXTENDS Integers, FiniteSets

CONSTANTS
    Task,            \* action IDs
    Drift,           \* those of the idle actions, which nobody asks for
    Kind,            \* [Task -> STRING], domain.Action.Action
    DeclaredPriority,\* [Task -> Int], domain.Action.Priority
    Cause,           \* the causes a failed TASK_END may carry
    NoTask,          \* activeTask = nil
    DangerFeed,      \* does anything call UpdateDanger?  FALSE as wired in main.go
    MaxRetries,      \* RetryPolicy.MaxRetries
    InitialBackoff,  \* RetryPolicy.InitialBackoff
    MaxBackoff,      \* RetryPolicy.MaxBackoff
    PanicCooldown,   \* supervisorActor.panicCooldown
    SurvivalTimeout, \* leaseTimeout of a survival lease
    SurvivalMinHold, \* minHold of a survival lease
    NormalTimeout,   \* leaseTimeout of any other lease
    AgeCap,          \* bound: ages saturate here
    MaxFailures      \* bound: failures the arbiter is told of

Nameless == ""       \* the payload triggerRecovery makes up names no action
Kinds == {Kind[t] : t \in Task} \union {Nameless}
Survival == 100      \* Tier 1
Emergency == 1000    \* "Absolute highest priority"

ASSUME TaskAssumption ==
    /\ IsFiniteSet(Task)
    /\ NoTask \notin Task /\ Drift \subseteq Task
    /\ Kind \in [Task -> STRING]
    /\ DeclaredPriority \in [Task -> Int]

ASSUME DurationAssumption ==
    /\ MaxRetries \in Nat /\ InitialBackoff \in Nat /\ MaxBackoff \in Nat
    /\ PanicCooldown \in Nat /\ NormalTimeout \in Nat
    /\ SurvivalTimeout \in Nat /\ SurvivalMinHold \in Nat
    /\ AgeCap \in Nat
    /\ \A d \in {MaxBackoff, PanicCooldown, NormalTimeout, SurvivalTimeout,
                 SurvivalMinHold} : d < AgeCap

ASSUME FeedAssumption == DangerFeed \in BOOLEAN

VARIABLES
    holder,       \* ExecutionState.activeTask
    leaseAge,     \* time.Since(startTime)
    leaseTimeout,
    minHold,
    canPreempt,
    retryCount,   \* [Kinds -> Nat]
    failAge,      \* [Kinds -> age], time.Since(lastFailTime[kind])
    panicAge,     \* time.Since(lastPanicTime)
    danger,       \* supervisorActor.dangerState
    approved,     \* the actions let through at some time
    completed,    \* those the bot has completed since they were last let through
    failures      \* the failures the arbiter has been told of

lease == <<holder, leaseAge, leaseTimeout, minHold, canPreempt>>
ledger == <<retryCount, failAge>>
vars == <<lease, ledger, panicAge, danger, approved, completed, failures>>

-----------------------------------------------------------------------------
(* policy.go *)

GetPriority(kind) ==
    CASE kind \in {"retreat", "emergency_reflex"} -> Survival
      [] kind \in {"hunt", "defend"}              -> 80
      [] kind \in {"gather", "mine", "craft"}     -> 50
      [] OTHER                                    -> 10

GetEffectivePriority(t) ==
    IF DeclaredPriority[t] > GetPriority(Kind[t])
    THEN DeclaredPriority[t] ELSE GetPriority(Kind[t])

ClassifyFailure(cause) ==
    CASE cause \in {"blocked", "no_path", "STUCK_TERRAIN"}  -> "environmental"
      [] cause \in {"panic", "nil_state", "death"}          -> "fatal"
      [] cause \in {"preempted", "emergency_interrupt"}     -> "preempted"
      [] OTHER                                              -> "recoverable"

(* causes.go: the stops handleTaskEnd never reports to the arbiter *)
IsControlledStop(cause) ==
    cause \in {"preempted_by_priority", "plan_invalidated", "survival_panic",
               "panic_triggered", "panic", "unlock", "bot_died",
               "planner_warmup", "INTERRUPTED"}

(* calculateBackoff: InitialBackoff doubled per retry, at most ten times *)
CalculateBackoff(retries) ==
    LET doublings == IF retries < 10 THEN retries ELSE 10
        backoff   == InitialBackoff * 2^doublings
    IN  IF backoff > MaxBackoff THEN MaxBackoff ELSE backoff

-----------------------------------------------------------------------------
(* The arbiter tells ESCAPE apart and no other state: the zero value, SAFE, *)
(* ALERT and RECOVERING are all "calm".                                     *)
DangerStates == {"calm", "ESCAPE"}

Init ==
    /\ holder = NoTask
    /\ leaseAge = AgeCap /\ leaseTimeout = 0 /\ minHold = 0 /\ canPreempt = FALSE
    /\ retryCount = [k \in Kinds |-> 0]
    /\ failAge = [k \in Kinds |-> AgeCap]
    /\ panicAge = AgeCap          \* lastPanicTime is the zero time
    /\ danger = "calm"
    /\ approved = {} /\ completed = {} /\ failures = 0

(* Bugs the properties must notice: the terms of a survival lease ignored,  *)
(* the priorities not compared, every lease made to last.                   *)
MayAcquireUntimed(t) ==
    holder # NoTask => GetEffectivePriority(t) > GetEffectivePriority(holder)

MayAcquireUnranked(t) ==
    holder # NoTask => leaseAge >= minHold /\ (canPreempt \/ leaseAge >= leaseTimeout)

(* ExecutionState.AcquireLease: may t take the lease from its holder? *)
MayAcquire(t) ==
    holder # NoTask =>
        /\ leaseAge >= minHold
        /\ canPreempt \/ leaseAge >= leaseTimeout
        /\ GetEffectivePriority(t) > GetEffectivePriority(holder)

AcquireLeaseToKeep(t) ==
    /\ holder' = t
    /\ leaseAge' = 0
    /\ leaseTimeout' = IF GetEffectivePriority(t) >= Survival THEN SurvivalTimeout ELSE NormalTimeout
    /\ minHold' = IF GetEffectivePriority(t) >= Survival THEN SurvivalMinHold ELSE 0
    /\ canPreempt' = FALSE

AcquireLease(t) ==
    LET survival == GetEffectivePriority(t) >= Survival
    IN  /\ holder' = t
        /\ leaseAge' = 0
        /\ leaseTimeout' = IF survival THEN SurvivalTimeout ELSE NormalTimeout
        /\ minHold' = IF survival THEN SurvivalMinHold ELSE 0
        /\ canPreempt' = ~survival

(* Bug: the budget off by one. *)
BudgetOffByOne(t) ==
    /\ retryCount[Kind[t]] > 0 =>
           failAge[Kind[t]] >= CalculateBackoff(retryCount[Kind[t]])
    /\ retryCount[Kind[t]] <= MaxRetries

(* The checks of evaluateRequest that come before the dedupe *)
NotSuppressed(t) ==
    /\ panicAge >= PanicCooldown
    /\ ~(danger = "ESCAPE" /\ GetEffectivePriority(t) < Survival)

WithinBudget(t) ==
    /\ retryCount[Kind[t]] > 0 =>
           failAge[Kind[t]] >= CalculateBackoff(retryCount[Kind[t]])
    /\ retryCount[Kind[t]] < MaxRetries

(* An approved action goes to ExecuteAsync: the action is the bot's to start. *)
Forward(t) ==
    /\ approved' = approved \union {t}
    /\ completed' = completed \ {t}

(* A request of the action that already holds the lease is approved again. *)
RequestHeld(t) ==
    /\ NotSuppressed(t)
    /\ holder = t
    /\ Forward(t)
    /\ UNCHANGED <<lease, ledger, panicAge, danger, failures>>

(* A request that needs the lease.  A denied request changes nothing. *)
RequestLease(t) ==
    /\ NotSuppressed(t)
    /\ holder # t
    /\ WithinBudget(t)
    /\ MayAcquire(t)
    /\ AcquireLease(t)
    /\ Forward(t)
    /\ UNCHANGED <<ledger, panicAge, danger, failures>>

RecordFailure(kind) ==
    /\ retryCount' = [retryCount EXCEPT ![kind] = @ + 1]
    /\ failAge' = [failAge EXCEPT ![kind] = 0]

ReleaseLease(t) ==
    /\ holder' = IF holder = t THEN NoTask ELSE holder
    /\ UNCHANGED <<leaseAge, leaseTimeout, minHold, canPreempt>>

(* supervisorActor.handleTaskEnd of a failed action.  Its COMPLETED branch  *)
(* (ResetRetries) has no caller: ControlService forwards failures only.     *)
HandleTaskEnd(t, kind, cause) ==
    LET class == ClassifyFailure(cause)
    IN  /\ ReleaseLease(t)
        /\ IF class = "preempted" THEN UNCHANGED ledger ELSE RecordFailure(kind)
        /\ panicAge' = IF class = "fatal" THEN 0 ELSE panicAge

(* ControlService.handleTaskEnd, as far as the arbiter is concerned.  The   *)
(* failures that are passed on are those of a start whose watchdog was      *)
(* registered and that are no controlled stops; one approval may lead to    *)
(* any number of starts.  The bot reports the kind of the action, the       *)
(* watchdog and the retry it schedules report none.                         *)
KindsReported(t) == {Kind[t], Nameless}

TaskFailed(t, kind, cause) ==
    /\ t \in approved \union Drift
    /\ kind \in KindsReported(t)
    /\ ~IsControlledStop(cause)
    /\ failures < MaxFailures
    /\ HandleTaskEnd(t, kind, cause)
    /\ failures' = failures + 1
    /\ UNCHANGED <<danger, approved, completed>>

(* The end of an action the bot has completed is not passed on. *)
TaskCompleted(t) ==
    /\ t \in approved
    /\ completed' = completed \union {t}
    /\ UNCHANGED <<lease, ledger, panicAge, danger, approved, failures>>

(* DangerUpdateMsg: the analyzer's next state replaces the cached one. *)
UpdateDanger(s) ==
    /\ DangerFeed
    /\ danger' = s
    /\ UNCHANGED <<lease, ledger, panicAge, approved, completed, failures>>

OlderUncapped(age) == age + 1   \* bug: the age does not saturate

Older(age) == IF age < AgeCap THEN age + 1 ELSE AgeCap

Tick ==
    /\ leaseAge' = Older(leaseAge)
    /\ failAge' = [k \in Kinds |-> Older(failAge[k])]
    /\ panicAge' = Older(panicAge)
    /\ UNCHANGED <<holder, leaseTimeout, minHold, canPreempt, retryCount, danger,
                   approved, completed, failures>>

Next ==
    \/ \E t \in Task \ Drift : RequestHeld(t)
    \/ \E t \in Task \ Drift : RequestLease(t)
    \/ \E t \in Task : TaskCompleted(t)
    \/ \E t \in Task, k \in Kinds, c \in Cause : TaskFailed(t, k, c)
    \/ \E s \in DangerStates : UpdateDanger(s)
    \/ Tick

Spec == Init /\ [][Next]_vars

-----------------------------------------------------------------------------
Ages == 0..AgeCap

(* Every variable has the type of the field it models, and the lease terms  *)
(* are those evaluateRequest computes for the tier of the holder.           *)
TypeOK ==
    /\ holder \in Task \union {NoTask}
    /\ leaseAge \in Ages /\ leaseTimeout \in Nat /\ minHold \in Nat
    /\ canPreempt \in BOOLEAN
    /\ retryCount \in [Kinds -> Nat]
    /\ failAge \in [Kinds -> Ages]
    /\ panicAge \in Ages
    /\ danger \in DangerStates
    /\ approved \subseteq Task /\ completed \subseteq Task
    /\ failures \in Nat

(* The retry budget restrains the lease and nothing else: a kind fails as   *)
(* often as its retries do.  But an action that holds the lease while its   *)
(* kind backs off, or has no budget left, had it before the kind's last     *)
(* failure.  So no failure, of the same action or of another one of the     *)
(* kind, on its first or on a later start, wins its kind the lease, by      *)
(* whichever branch of evaluateRequest the holder is let through since.     *)
Barred(k) ==
    \/ retryCount[k] >= MaxRetries
    \/ retryCount[k] > 0 /\ failAge[k] < CalculateBackoff(retryCount[k])

LeaseWithinBudget ==
    (holder # NoTask /\ Barred(Kind[holder])) => leaseAge >= failAge[Kind[holder]]

(* The lease is never withheld from a strictly more urgent action for       *)
(* longer than the tier of its holder allows: any time for a normal holder, *)
(* its timeout for a survival one.  The terms are those of the action that  *)
(* holds the lease now, whoever held it before on which terms.              *)
HoldOver ==
    GetEffectivePriority(holder) >= Survival =>
        leaseAge >= SurvivalTimeout /\ leaseAge >= SurvivalMinHold

UrgentNotWithheld ==
    \A t \in Task :
        (holder # NoTask /\ HoldOver
           /\ GetEffectivePriority(t) > GetEffectivePriority(holder)) => MayAcquire(t)

(* A survival lease changes hands only after its minimum hold and its       *)
(* timeout, whatever asked in between, and no lease ever goes straight to   *)
(* an action that is not strictly more urgent (AcquireLease).               *)
LeaseHandover ==
    [][ (holder # NoTask /\ holder' \notin {holder, NoTask}) =>
          /\ GetEffectivePriority(holder') > GetEffectivePriority(holder)
          /\ HoldOver ]_vars

(* state.go:41 says of a survival lease "we must wait for timeout or        *)
(* completion": the lease of an action the bot has completed is over.       *)
CompletionEndsLease ==
    [][ \A t \in Task : TaskCompleted(t) => holder' # t ]_vars

-----------------------------------------------------------------------------
(* The arbiter implements the plain lease: clocks, budget, danger level and *)
(* the terms of the lease only ever restrict what ActionLease allows.       *)
Lease == INSTANCE ActionLease WITH
             Priority <- [t \in Task |-> GetEffectivePriority(t)]

LeaseSpec == Lease!Spec

=============================================================================

------------------------ MODULE ExecutionArbiter_proofs ------------------------
(***************************************************************************)
(* Proofs about the execution arbiter, for every set of tasks, every       *)
(* priority and every choice of the durations.                             *)
(***************************************************************************)
EXTENDS ExecutionArbiter, TLAPS

USE DEF TaskAssumption, DurationAssumption

(* The types are right in every reachable state. *)
THEOREM TypeCorrect == Spec => []TypeOK
<1>1. Init => TypeOK
  <2> SUFFICES ASSUME Init PROVE TypeOK
    OBVIOUS
  <2>1. AgeCap \in Ages
    BY DurationAssumption DEF Ages
  <2>2. /\ holder \in Task \union {NoTask}
        /\ leaseAge \in Ages /\ leaseTimeout \in Nat /\ minHold \in Nat
        /\ panicAge \in Ages
    BY <2>1 DEF Init
  <2>3. /\ canPreempt \in BOOLEAN /\ danger \in DangerStates
        /\ approved \subseteq Task /\ completed \subseteq Task /\ failures \in Nat
    BY DEF Init, DangerStates
  <2>4. retryCount \in [Kinds -> Nat] /\ failAge \in [Kinds -> Ages]
    BY <2>1 DEF Init
  <2>5. QED
    BY <2>2, <2>3, <2>4 DEF TypeOK
<1>2. TypeOK /\ [Next]_vars => TypeOK'
  <2> SUFFICES ASSUME TypeOK, [Next]_vars PROVE TypeOK'
    OBVIOUS
  <2> USE DurationAssumption DEF TypeOK, Ages
  <2>1. ASSUME NEW t \in Task, RequestHeld(t) PROVE TypeOK'
    BY <2>1 DEF RequestHeld, Forward, lease, ledger
  <2>2. ASSUME NEW t \in Task, RequestLease(t) PROVE TypeOK'
    BY <2>2 DEF RequestLease, AcquireLease, Forward, ledger
  <2>3. ASSUME NEW t \in Task, TaskCompleted(t) PROVE TypeOK'
    BY <2>3 DEF TaskCompleted, lease, ledger
  <2>4. ASSUME NEW t \in Task, NEW k \in Kinds, NEW c \in Cause, TaskFailed(t, k, c)
        PROVE TypeOK'
    BY <2>4 DEF TaskFailed, HandleTaskEnd, ReleaseLease, RecordFailure, ledger
  <2>5. ASSUME NEW s \in DangerStates, UpdateDanger(s) PROVE TypeOK'
    BY <2>5 DEF UpdateDanger, lease, ledger
  <2>6. ASSUME Tick PROVE TypeOK'
    BY <2>6 DEF Tick, Older
  <2>7. CASE UNCHANGED vars
    BY <2>7 DEF vars, lease, ledger
  <2>8. QED
    BY <2>1, <2>2, <2>3, <2>4, <2>5, <2>6, <2>7 DEF Next
<1>3. QED
  BY <1>1, <1>2, PTL DEF Spec

-----------------------------------------------------------------------------
(***************************************************************************)
(* The retry budget.  LeaseWithinBudget is inductive: a request finds its  *)
(* kind within budget, a failure of the kind makes the failure the younger *)
(* of the two ages, and time makes both older and lifts a backoff only.    *)
(***************************************************************************)

(* The delay after a failure is a number, however many there were. *)
LEMMA BackoffType == \A r \in Nat : CalculateBackoff(r) \in Int
  BY DurationAssumption DEF CalculateBackoff

(* Time does not bar a kind that is not barred. *)
LEMMA TickUnbars ==
    ASSUME TypeOK, Tick, NEW k \in Kinds, Barred(k)'
    PROVE  Barred(k)
<1>1. retryCount'[k] = retryCount[k] /\ retryCount[k] \in Nat
  BY DEF Tick, TypeOK
<1>2. failAge[k] \in Ages /\ failAge'[k] = Older(failAge[k])
  BY DEF Tick, TypeOK
<1>3. failAge[k] \in Int /\ failAge'[k] \in Int /\ failAge'[k] >= failAge[k]
  BY <1>2, DurationAssumption DEF Older, Ages
<1>4. CalculateBackoff(retryCount[k]) \in Int
  BY <1>1, BackoffType
<1>5. QED
  BY <1>1, <1>3, <1>4 DEF Barred

(* An action that holds the lease while its kind is out of budget or backs  *)
(* off got it before the kind's last failure.                               *)
THEOREM LeaseKeepsToBudget == Spec => []LeaseWithinBudget
<1>1. Init => LeaseWithinBudget
  BY DEF Init, LeaseWithinBudget
<1>2. TypeOK /\ LeaseWithinBudget /\ [Next]_vars => LeaseWithinBudget'
  <2> SUFFICES ASSUME TypeOK, LeaseWithinBudget, [Next]_vars,
                      holder' # NoTask, Barred(Kind[holder])'
               PROVE  leaseAge' >= failAge'[Kind[holder']]
    BY DEF LeaseWithinBudget
  <2>1. ASSUME NEW t \in Task, RequestLease(t) PROVE FALSE
    <3>1. holder' = t /\ UNCHANGED ledger /\ WithinBudget(t)
      BY <2>1 DEF RequestLease, AcquireLease
    <3>2. retryCount[Kind[t]] \in Nat /\ failAge[Kind[t]] \in Int
      BY TaskAssumption, DurationAssumption DEF TypeOK, Kinds, Ages
    <3>3. CalculateBackoff(retryCount[Kind[t]]) \in Int
      BY <3>2, BackoffType
    <3>4. ~Barred(Kind[t])
      BY <3>1, <3>2, <3>3, DurationAssumption DEF WithinBudget, Barred
    <3>5. QED
      BY <3>1, <3>4 DEF Barred, ledger
  <2>2. ASSUME NEW t \in Task, NEW k \in Kinds, NEW c \in Cause, TaskFailed(t, k, c)
        PROVE  leaseAge' >= failAge'[Kind[holder']]
    <3>1. holder' = holder /\ UNCHANGED leaseAge
      BY <2>2 DEF TaskFailed, HandleTaskEnd, ReleaseLease
    <3>2. Kind[holder] \in Kinds /\ leaseAge \in Nat
      BY <3>1, TaskAssumption, DurationAssumption DEF TypeOK, Kinds, Ages
    <3>3. CASE UNCHANGED ledger
      BY <3>1, <3>3 DEF LeaseWithinBudget, Barred, ledger
    <3>4. CASE RecordFailure(k)
      <4>1. CASE Kind[holder] = k
        BY <3>1, <3>2, <3>4, <4>1 DEF RecordFailure, TypeOK
      <4>2. CASE Kind[holder] # k
        BY <3>1, <3>2, <3>4, <4>2 DEF RecordFailure, LeaseWithinBudget, Barred, TypeOK
      <4>3. QED
        BY <4>1, <4>2
    <3>5. QED
      BY <2>2, <3>3, <3>4 DEF TaskFailed, HandleTaskEnd
  <2>3. CASE Tick
    <3>1. holder' = holder /\ Kind[holder] \in Kinds
      BY <2>3, TaskAssumption DEF Tick, TypeOK, Kinds
    <3>2. leaseAge >= failAge[Kind[holder]]
      BY <2>3, <3>1, TickUnbars DEF LeaseWithinBudget
    <3>3. leaseAge' = Older(leaseAge) /\ failAge'[Kind[holder]] = Older(failAge[Kind[holder]])
      BY <2>3, <3>1 DEF Tick
    <3>4. leaseAge \in Ages /\ failAge[Kind[holder]] \in Ages
      BY <3>1 DEF TypeOK
    <3>5. QED
      BY <3>1, <3>2, <3>3, <3>4, DurationAssumption DEF Older, Ages
  <2>4. CASE UNCHANGED <<lease, ledger>>
    BY <2>4 DEF LeaseWithinBudget, Barred, lease, ledger
  <2>5. QED
    BY <2>1, <2>2, <2>3, <2>4
    DEF Next, RequestHeld, TaskCompleted, UpdateDanger, vars
<1>3. QED
  BY <1>1, <1>2, TypeCorrect, PTL DEF Spec

-----------------------------------------------------------------------------
(***************************************************************************)
(* The lease.  That a survival lease is held, and that no lease is held    *)
(* for longer, needs to know the terms under which it was granted, several *)
(* steps before the request that is decided by them.                       *)
(***************************************************************************)
LeaseTerms ==
    holder # NoTask =>
        IF GetEffectivePriority(holder) >= Survival
        THEN ~canPreempt /\ leaseTimeout = SurvivalTimeout /\ minHold = SurvivalMinHold
        ELSE canPreempt /\ minHold = 0

(* The terms of the lease always match the tier of its holder. *)
LEMMA LeaseTermsInvariant == Spec => []LeaseTerms
<1>1. Init => LeaseTerms
  BY DEF Init, LeaseTerms
<1>2. TypeOK /\ LeaseTerms /\ [Next]_vars => LeaseTerms'
  <2> SUFFICES ASSUME TypeOK, LeaseTerms, [Next]_vars PROVE LeaseTerms'
    OBVIOUS
  <2>1. ASSUME NEW t \in Task, RequestLease(t) PROVE LeaseTerms'
    <3>1. CASE GetEffectivePriority(t) >= Survival
      BY <2>1, <3>1 DEF RequestLease, AcquireLease, LeaseTerms
    <3>2. CASE ~(GetEffectivePriority(t) >= Survival)
      BY <2>1, <3>2 DEF RequestLease, AcquireLease, LeaseTerms
    <3>3. QED
      BY <3>1, <3>2
  <2>2. ASSUME holder' \in {holder, NoTask},
               UNCHANGED <<leaseTimeout, minHold, canPreempt>>
        PROVE  LeaseTerms'
    BY <2>2 DEF LeaseTerms
  <2>3. ASSUME NEW t \in Task, NEW k \in Kinds, NEW c \in Cause, TaskFailed(t, k, c)
        PROVE LeaseTerms'
    BY <2>2, <2>3 DEF TaskFailed, HandleTaskEnd, ReleaseLease
  <2>4. QED
    BY <2>1, <2>2, <2>3
    DEF Next, RequestHeld, TaskCompleted, UpdateDanger, Tick, vars, lease
<1>3. QED
  BY <1>1, <1>2, TypeCorrect, PTL DEF Spec

(* A strictly more urgent action is not kept from the lease for longer than *)
(* the tier of its holder allows.                                           *)
THEOREM UrgentGetsLease == Spec => []UrgentNotWithheld
<1>1. TypeOK /\ LeaseTerms => UrgentNotWithheld
  <2> SUFFICES ASSUME TypeOK, LeaseTerms, NEW t \in Task,
                      holder # NoTask, HoldOver,
                      GetEffectivePriority(t) > GetEffectivePriority(holder)
               PROVE  MayAcquire(t)
    BY DEF UrgentNotWithheld
  <2>1. leaseAge \in Nat
    BY DurationAssumption DEF TypeOK, Ages
  <2>2. CASE GetEffectivePriority(holder) >= Survival
    BY <2>1, <2>2 DEF LeaseTerms, HoldOver, MayAcquire
  <2>3. CASE ~(GetEffectivePriority(holder) >= Survival)
    BY <2>1, <2>3 DEF LeaseTerms, MayAcquire
  <2>4. QED
    BY <2>2, <2>3
<1>2. QED
  BY <1>1, TypeCorrect, LeaseTermsInvariant, PTL

(* The lease changes hands only upwards, and a survival lease only after    *)
(* its minimum hold and its timeout.                                        *)
THEOREM LeaseHandoverSafe == Spec => LeaseHandover
<1> DEFINE Handover ==
      (holder # NoTask /\ holder' \notin {holder, NoTask}) =>
          /\ GetEffectivePriority(holder') > GetEffectivePriority(holder)
          /\ HoldOver
<1>1. LeaseTerms /\ [Next]_vars => [Handover]_vars
  <2> SUFFICES ASSUME LeaseTerms, [Next]_vars PROVE Handover
    OBVIOUS
  <2>1. ASSUME NEW t \in Task, RequestLease(t) PROVE Handover
    BY <2>1 DEF RequestLease, MayAcquire, AcquireLease, LeaseTerms, HoldOver
  <2>2. ASSUME NEW t \in Task, NEW k \in Kinds, NEW c \in Cause, TaskFailed(t, k, c)
        PROVE Handover
    BY <2>2 DEF TaskFailed, HandleTaskEnd, ReleaseLease
  <2>3. CASE UNCHANGED holder
    BY <2>3
  <2>4. QED
    BY <2>1, <2>2, <2>3
    DEF Next, RequestHeld, TaskCompleted, UpdateDanger, Tick, vars, lease
<1>2. QED
  BY <1>1, LeaseTermsInvariant, PTL DEF Spec, LeaseHandover

-----------------------------------------------------------------------------
(***************************************************************************)
(* Refinement.                                                             *)
(***************************************************************************)

(* The arbiter implements ActionLease: every approval is one the lease      *)
(* allows and every failure it is told of a Release, whatever the clocks    *)
(* say.                                                                     *)
THEOREM ImplementsLease == Spec => LeaseSpec
<1>1. Init => Lease!Init
  BY DEF Init, Lease!Init
<1>2. TypeOK /\ [Next]_vars => [Lease!Next]_(Lease!leaseVars)
  <2> SUFFICES ASSUME TypeOK, [Next]_vars
               PROVE  Lease!Next \/ UNCHANGED Lease!leaseVars
    OBVIOUS
  <2> USE DEF Lease!Next, Lease!leaseVars
  <2>1. ASSUME NEW t \in Task, RequestHeld(t) PROVE Lease!Approve(t)
    BY <2>1, TaskAssumption
       DEF RequestHeld, Forward, lease, Lease!Approve, Lease!MayHold
  <2>2. ASSUME NEW t \in Task, RequestLease(t) PROVE Lease!Approve(t)
    BY <2>2 DEF RequestLease, MayAcquire, AcquireLease, Forward,
       Lease!Approve, Lease!MayHold, TypeOK
  <2>3. ASSUME NEW t \in Task, NEW k \in Kinds, NEW c \in Cause, TaskFailed(t, k, c)
        PROVE  Lease!Release(t)
    BY <2>3 DEF TaskFailed, HandleTaskEnd, ReleaseLease, Lease!Release
  <2>4. CASE UNCHANGED <<holder, approved>>
    BY <2>4
  <2>5. QED
    BY <2>1, <2>2, <2>3, <2>4
    DEF Next, TaskCompleted, UpdateDanger, Tick, vars, lease
<1>3. QED
  BY <1>1, <1>2, TypeCorrect, PTL DEF Spec, LeaseSpec, Lease!Spec

=============================================================================
